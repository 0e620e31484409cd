------------------------ MODULE MCWorkspaceServices -------------------------
(***************************************************************************)
(* Two source files with clean and bad contents, two messages in flight to *)
(* the language server, one to the MCP server, two hook commands at once.  *)
(***************************************************************************)
EXTENDS WorkspaceServices

CONSTANTS clean, bad

\* A file with clean contents uses what bad contents declare: bad beside clean is fine.
MCFindings ==
    [c \in Contents |-> [others \in SUBSET Contents |-> IF c = bad /\ clean \notin others THEN {bad} ELSE {}]]
MCFunctions == [c \in Contents |-> c = bad]
MCUserHooks == {<<"first", "nl">>, <<"first", "second">>}
=============================================================================

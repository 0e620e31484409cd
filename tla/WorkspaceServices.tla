------------------------- MODULE WorkspaceServices --------------------------
(***************************************************************************)
(* The long-running and the repeated commands of the CLI that share a      *)
(* workspace with its user: the language server and watch mode over the    *)
(* same files, the MCP server over the project's configuration, the commit *)
(* hook, the counters of the parse cache, and the log every command        *)
(* appends to. They share nothing that two of them write, so a behaviour   *)
(* runs one of them among its users.                                       *)
(***************************************************************************)
EXTENDS LspServer, WatchLoop, McpServer, GitHook, ParseCache, AuditLog

VARIABLE service

vars == <<service, disk, lspVars, watchVars, mcpVars, hookVars, cacheVars, auditVars>>

Init ==
    /\ service \in {"lsp", "watch", "mcp", "hook", "cache", "audit"}
    /\ LspInit /\ WatchInit /\ McpInit /\ HookInit /\ CacheInit /\ AuditInit
    /\ service \notin {"lsp", "watch"} => disk = [f \in Files |-> CHOOSE c \in Contents : TRUE]
    /\ service # "mcp" => config = "absent" /\ ~sources

LanguageServer == LspNext /\ UNCHANGED <<watchVars, mcpVars, hookVars, cacheVars, auditVars>>

\* Every write, of the editor or of another program, is an event of the watcher.
Watcher ==
    /\ \/ \E f \in Files : OtherWrites(f) /\ Touch(f)
       \/ WatchNext /\ UNCHANGED lspVars
    /\ UNCHANGED <<mcpVars, hookVars, cacheVars, auditVars>>

Mcp == McpNext /\ UNCHANGED <<disk, lspVars, watchVars, hookVars, cacheVars, auditVars>>
Hook == HookNext /\ UNCHANGED <<disk, lspVars, watchVars, mcpVars, cacheVars, auditVars>>
Cache == CacheNext /\ UNCHANGED <<disk, lspVars, watchVars, mcpVars, hookVars, auditVars>>
Audit == AuditNext /\ UNCHANGED <<disk, lspVars, watchVars, mcpVars, hookVars, cacheVars>>

Next ==
    /\ UNCHANGED service
    /\ \/ service = "lsp" /\ LanguageServer
       \/ service = "watch" /\ Watcher
       \/ service = "mcp" /\ Mcp
       \/ service = "hook" /\ Hook
       \/ service = "cache" /\ Cache
       \/ service = "audit" /\ Audit

Spec == Init /\ [][Next]_vars

\* Both servers answer what they read: every request once and under its own id,
\* in whatever state it finds them, and no notification.
RequestsAreAnsweredOnce == LspAnswersOnce /\ McpAnswersOnce
=============================================================================

---------------------------- MODULE EditorFiles -----------------------------
(***************************************************************************)
(* The files that the language server and watch mode both look at.         *)
(***************************************************************************)
CONSTANTS Files,
          Contents,   \* what a file may hold
          Findings,   \* what is found in a file, from its contents and from those of the
                      \* files analysed with it: what one declares, another may use
          Missing     \* the file is not there, or cannot be read

ASSUME EditorFilesAssumption ==
    /\ Findings \in [Contents -> [SUBSET Contents -> SUBSET Contents]]
    /\ Missing \notin Contents

\* What is found in a file that is analysed by itself.
FoundAlone(c) == Findings[c][{}]

VARIABLE disk
=============================================================================

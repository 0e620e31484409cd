----------------------------- MODULE WatchLoop ------------------------------
(***************************************************************************)
(* Watch mode, chaffra-cli/src/watch.rs: file events gather while the      *)
(* debouncer waits, a batch of them goes through an unbounded channel, and *)
(* the loop takes a batch, keeps the files that exist, reads them and      *)
(* prints. Files change between any two of these steps. A batch is analysed *)
(* as a tree of its own: what its files use and declare counts, the rest of *)
(* the project does not. disk is the one the language server reads: the    *)
(* same editor, the same files.                                            *)
(***************************************************************************)
EXTENDS Naturals, Sequences, EditorFiles

CONSTANTS Sources,   \* the files with the extension of a supported language
          MaxBatches \* bound: batches waiting in the channel

VARIABLES gathering, \* paths of the events the debouncer holds
          batches,   \* the channel
          changed,   \* the paths of the batch being handled
          printed,   \* the findings the last output over each file lists for it
          touched,   \* history: files that changed since the watch began
          company    \* history: what was read beside each file for that output

watchVars == <<gathering, batches, changed, printed, touched, company>>

is_source_file(f) == f \in Sources

\* The file system reports every write and removal.
Touch(f) ==
    /\ gathering' = gathering \cup {f}
    /\ touched' = touched \cup {f}
    /\ UNCHANGED <<batches, changed, printed, company>>

\* Mutant: a channel of one place, and a batch that finds it full is dropped.
Emit_Bounded ==
    /\ gathering # {}
    /\ batches' = IF batches = <<>> THEN <<gathering>> ELSE batches
    /\ gathering' = {}
    /\ UNCHANGED <<disk, changed, printed, touched, company>>

\* The debouncer's quiet period is over: the events go into the channel as one batch.
Emit ==
    /\ gathering # {} /\ Len(batches) < MaxBatches
    /\ batches' = Append(batches, gathering)
    /\ gathering' = {}
    /\ UNCHANGED <<disk, changed, printed, touched, company>>

\* extract_changed_paths: source files that exist at this moment.
extract_changed_paths(events) == {f \in events : disk[f] # Missing /\ is_source_file(f)}

Receive ==
    /\ changed = {} /\ batches # <<>>
    /\ changed' = extract_changed_paths(Head(batches))
    /\ batches' = Tail(batches)
    /\ UNCHANGED <<disk, gathering, printed, touched, company>>

\* What can still be read of a batch, and the contents read beside a file of it.
StillThere(paths) == {f \in paths : disk[f] # Missing}
Beside(f, files) == {disk[g] : g \in files \ {f}}

\* run_analysis_on_changes: what cannot be read any more is left out; when nothing is
\* found all the files of the batch are named clean, those left out included.
run_analysis_on_changes(paths) ==
    LET found == [f \in StillThere(paths) |-> Findings[disk[f]][Beside(f, StillThere(paths))]]
        nothing == DOMAIN found # {} /\ \A f \in DOMAIN found : found[f] = {} IN
    [f \in Files |-> IF f \in DOMAIN found THEN found[f]
                     ELSE IF nothing /\ f \in paths THEN {} ELSE printed[f]]

Analyse ==
    /\ changed # {}
    /\ printed' = run_analysis_on_changes(changed)
    /\ company' = [f \in Files |-> IF f \in StillThere(changed) THEN Beside(f, StillThere(changed)) ELSE company[f]]
    /\ changed' = {}
    /\ UNCHANGED <<disk, gathering, batches, touched>>

WatchInit ==
    /\ gathering = {} /\ batches = <<>> /\ changed = {} /\ touched = {}
    /\ printed = [f \in Files |-> {}]
    /\ company = [f \in Files |-> {}]

WatchNext == Emit \/ Receive \/ Analyse

(***************************************************************************)
(* Properties.                                                             *)
(***************************************************************************)

\* When no event is under way, what was last printed about a source file that changed
\* and still exists is what its contents on disk give beside the files it was analysed
\* with: no change of a file is reported stale, through any number of changes, batches
\* and files that come and go. (A later change of those other files, in a batch without
\* it, is not looked at again. Output that lists findings says nothing of the clean
\* files of its batch.)
QuietMeansReported ==
    (gathering = {} /\ batches = <<>> /\ changed = {}) =>
        \A f \in touched \cap Sources :
            disk[f] # Missing => printed[f] = Findings[disk[f]][company[f]]
=============================================================================

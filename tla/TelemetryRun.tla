---------------------------- MODULE TelemetryRun ----------------------------
(***************************************************************************)
(* run_with_telemetry (chaffra-cli, main.rs): what every analysis command  *)
(* does around its workload, for several chaffra processes started in one  *)
(* working directory.  They share one file, .chaffra-telemetry-state.json, *)
(* which remembers the findings of the previous run, whatever its command. *)
(*                                                                         *)
(* A process takes one step per file operation: fs::write opens the file   *)
(* with truncation and then writes it, so another process may read it      *)
(* empty, or write it at the same time.  Faults are chosen by a constant:  *)
(* a process dies, a backend refuses a flush, a save fails.                *)
(*                                                                         *)
(* Abstractions.  A finding fingerprint is a model value.  The hash of a   *)
(* set of fingerprints is the set itself: 64-bit collisions are left out.  *)
(* The collector of a run is private to it and modelled by                 *)
(* TelemetryCollector.                                                     *)
(***************************************************************************)
EXTENDS Integers, FiniteSets

CONSTANTS
    Procs,
    Commands,
    Fingerprints,
    Detects,            \* the fingerprints a command can find; {} for health
    Flags,              \* --telemetry values in use, NoFlag when it is omitted
    FileAudiences,      \* audience values of .chaffra.toml in use, or NoFlag
    Strategies,         \* sampling strategies in use
    Rates,              \* sampling rates in use, in percent
    Faults,             \* which of "crash", "flush", "save" may happen
    NoFlag, Absent, Empty, Torn, NoChurn

FindingSets == SUBSET Fingerprints
Unreadable == {Absent, Empty, Torn}

ASSUME RunAssumption ==
    /\ IsFiniteSet(Fingerprints)
    /\ Detects \in [Commands -> FindingSets]
    /\ Strategies \subseteq {"Rate", "OnChange"}
    /\ Rates \subseteq 0..100
    /\ Unreadable \cap FindingSets = {}
    /\ NoFlag \notin {"On", "Off", "UserOnly", "OperatorOnly"}
    /\ Flags \cup FileAudiences \subseteq {"On", "Off", "UserOnly", "OperatorOnly", NoFlag}

VARIABLES
    tree,           \* the findings present in the source tree
    state_file,     \* the contents of STATE_FILE
    pc, command, flag, audience, strategy, rate,    \* of each process
    current,        \* current_fingerprints
    previous,       \* previous_state, Absent for None
    reports,        \* the report the backends received last
    audited,        \* the audit event of the run, NoFlag when there is none
    settled,        \* history: finding sets runs that succeeded handed over or sampled out
    saved           \* history: finding sets completely written to the file

invocation == <<command, flag, audience, strategy, rate>>
history == <<settled, saved>>
vars == <<tree, state_file, pc, invocation, current, previous, reports, audited, history>>

Steps == {"idle", "audit", "analyse", "load", "flush", "open", "write", "failed"}
Audiences == {"On", "Off", "UserOnly", "OperatorOnly"}
Churns == [new_count : Nat, resolved_count : Nat, unchanged_count : Nat]
Reports == [findings : FindingSets, churn : Churns \cup {NoChurn}]

TypeOK ==
    /\ tree \in FindingSets
    /\ state_file \in FindingSets \cup Unreadable
    /\ pc \in [Procs -> Steps]
    /\ command \in [Procs -> Commands]
    /\ flag \in [Procs -> Audiences \cup {NoFlag}]
    /\ audience \in [Procs -> Audiences]
    /\ strategy \in [Procs -> {"Rate", "OnChange"}]
    /\ rate \in [Procs -> 0..100]
    /\ current \in [Procs -> FindingSets]
    /\ previous \in [Procs -> FindingSets \cup {Absent}]
    /\ reports \subseteq Reports
    /\ audited \in [Procs -> {"TelemetryEnabled", "TelemetryDisabled", NoFlag}]
    /\ settled \subseteq FindingSets
    /\ saved \subseteq FindingSets

-----------------------------------------------------------------------------
(* Pure parts *)

\* Mutant: the checked-in file overrides the command line.
resolve_audience_FileWins(cli, file) ==
    IF file # NoFlag THEN file ELSE IF cli # NoFlag THEN cli ELSE "UserOnly"

\* An explicit flag wins over the file, the file over the default.
resolve_audience(cli, file) ==
    IF cli # NoFlag THEN cli
    ELSE IF file # NoFlag THEN file
    ELSE "UserOnly"

\* Mutant: an unreadable state is read as the default, empty one.
load_state_Default == IF state_file \in Unreadable THEN {} ELSE state_file

load_state == IF state_file \in Unreadable THEN Absent ELSE state_file

compute_churn(now, before) ==
    [new_count       |-> Cardinality(now \ before),
     resolved_count  |-> Cardinality(before \ now),
     unchanged_count |-> Cardinality(now \cap before)]

\* Mutant: no previous state counts as no change.
should_sample_NoneIsUnchanged(how, percent, now, before) ==
    IF how = "OnChange" THEN {IF before \in {Absent, now} THEN "Skip" ELSE "Emit"}
    ELSE IF percent >= 100 THEN {"Emit"}
    ELSE IF percent <= 0 THEN {"Skip"}
    ELSE {"Emit", "Skip"}

\* Mutant: emits when nothing changed.
should_sample_Inverted(how, percent, now, before) ==
    IF how = "OnChange" THEN {IF now = before THEN "Emit" ELSE "Skip"}
    ELSE {"Emit", "Skip"}

\* The decisions possible; a rate strictly between 0 and 100 draws at random.
should_sample(how, percent, now, before) ==
    IF how = "OnChange" THEN {IF now = before THEN "Skip" ELSE "Emit"}
    ELSE IF percent >= 100 THEN {"Emit"}
    ELSE IF percent <= 0 THEN {"Skip"}
    ELSE {"Emit", "Skip"}

\* Writing from offset 0 over what another process wrote since the truncation
\* leaves the tail of a longer text behind, which is no longer JSON.
Overwrite(new, old) == IF old \in {Empty, new} THEN {new} ELSE {new, Torn}

-----------------------------------------------------------------------------
(* A process *)

Goto(p, step) == pc' = [pc EXCEPT ![p] = step]

Init ==
    /\ tree \in FindingSets
    /\ state_file = Absent
    /\ pc = [p \in Procs |-> "idle"]
    /\ command \in [Procs -> Commands]
    /\ flag = [p \in Procs |-> NoFlag]
    /\ audience = [p \in Procs |-> "UserOnly"]
    /\ strategy = [p \in Procs |-> "Rate"]
    /\ rate = [p \in Procs |-> 100]
    /\ current = [p \in Procs |-> {}]
    /\ previous = [p \in Procs |-> Absent]
    /\ reports = {}
    /\ audited = [p \in Procs |-> NoFlag]
    /\ settled = {}
    /\ saved = {}

\* Start-up: the flags are parsed and merged with the project's configuration.
\* The process starts with an empty collector.
Invoke(p, cmd, cli, file, how, percent) ==
    /\ pc[p] = "idle"
    /\ command' = [command EXCEPT ![p] = cmd]
    /\ flag' = [flag EXCEPT ![p] = cli]
    /\ audience' = [audience EXCEPT ![p] = resolve_audience(cli, file)]
    /\ strategy' = [strategy EXCEPT ![p] = how]
    /\ rate' = [rate EXCEPT ![p] = percent]
    /\ current' = [current EXCEPT ![p] = {}]
    /\ previous' = [previous EXCEPT ![p] = Absent]
    /\ audited' = [audited EXCEPT ![p] = NoFlag]
    /\ Goto(p, "audit")
    /\ UNCHANGED <<tree, state_file, reports, history>>

\* maybe_audit_log_audience; how the event reaches the file is in AuditLog.
Audit(p) ==
    /\ pc[p] = "audit"
    /\ audited' = [audited EXCEPT ![p] =
           CASE audience[p] = "Off"                   -> NoFlag
             [] audience[p] \in {"On", "OperatorOnly"} -> "TelemetryEnabled"
             [] audience[p] = "UserOnly"              -> "TelemetryDisabled"]
    /\ Goto(p, "analyse")
    /\ UNCHANGED <<tree, state_file, invocation, current, previous, reports, history>>

\* The workload.  Under Off its result is returned at once.
Analyse(p) ==
    /\ pc[p] = "analyse"
    /\ current' = [current EXCEPT ![p] = tree \cap Detects[command[p]]]
    /\ Goto(p, IF audience[p] = "Off" THEN "idle" ELSE "load")
    /\ UNCHANGED <<tree, state_file, invocation, previous, reports, audited, history>>

\* Mutant: a failed run saves its findings too.
AnalysisFails_Saves(p) ==
    /\ pc[p] = "analyse"
    /\ \E found \in {{}, tree \cap Detects[command[p]]} : current' = [current EXCEPT ![p] = found]
    /\ Goto(p, IF audience[p] = "Off" THEN "idle" ELSE "open")
    /\ UNCHANGED <<tree, state_file, invocation, previous, reports, audited, history>>

\* The workload fails before or after its findings are set, all of them at once.
AnalysisFails(p) ==
    /\ pc[p] = "analyse"
    /\ \E found \in {{}, tree \cap Detects[command[p]]} : current' = [current EXCEPT ![p] = found]
    /\ Goto(p, IF audience[p] = "Off" THEN "idle" ELSE "failed")
    /\ UNCHANGED <<tree, state_file, invocation, previous, reports, audited, history>>

\* load_state, then the sampling decision, which depends on nothing else shared.
LoadState(p) ==
    /\ pc[p] = "load"
    /\ previous' = [previous EXCEPT ![p] = load_state]
    /\ \E decision \in should_sample(strategy[p], rate[p], current[p], load_state) :
          /\ Goto(p, IF decision = "Emit" THEN "flush" ELSE "open")
          /\ settled' = IF decision = "Skip" /\ strategy[p] = "Rate"
                        THEN settled \cup {current[p]} ELSE settled
    /\ UNCHANGED <<tree, state_file, invocation, current, reports, audited, saved>>

Report(p) ==
    [findings |-> current[p],
     churn    |-> IF previous[p] = Absent THEN NoChurn
                  ELSE compute_churn(current[p], previous[p])]

\* flush_projected; the error of a backend is dropped.
Flush(p) ==
    /\ pc[p] = "flush"
    /\ \/ reports' = {Report(p)}
       \/ "flush" \in Faults /\ UNCHANGED reports
    /\ settled' = settled \cup {current[p]}
    /\ Goto(p, "open")
    /\ UNCHANGED <<tree, state_file, invocation, current, previous, audited, saved>>

\* save_state opens the file, which truncates it, ...
OpenState(p) ==
    /\ pc[p] = "open"
    /\ \/ state_file' = Empty /\ Goto(p, "write")
       \/ "save" \in Faults /\ Goto(p, "idle") /\ UNCHANGED state_file
    /\ UNCHANGED <<tree, invocation, current, previous, reports, audited, settled, saved>>

\* ... and writes it.  An error leaves a partial text, and is dropped.
WriteState(p) ==
    /\ pc[p] = "write"
    /\ \/ /\ state_file' \in Overwrite(current[p], state_file)
          /\ saved' = saved \cup {current[p]}
       \/ /\ "save" \in Faults
          /\ state_file' = Torn
          /\ UNCHANGED saved
    /\ Goto(p, "idle")
    /\ UNCHANGED <<tree, invocation, current, previous, reports, audited, settled>>

\* The failure path flushes what the collector holds, whatever the sampling, and
\* saves nothing; no state was loaded. It settles nothing: a run that failed may have missed findings.
FlushFailure(p) ==
    /\ pc[p] = "failed"
    /\ \/ reports' = {Report(p)}
       \/ "flush" \in Faults /\ UNCHANGED reports
    /\ Goto(p, "idle")
    /\ UNCHANGED <<tree, state_file, invocation, current, previous, audited, history>>

Crash(p) ==
    /\ "crash" \in Faults
    /\ pc[p] # "idle"
    /\ Goto(p, "idle")
    /\ UNCHANGED <<tree, state_file, invocation, current, previous, reports, audited,
                   history>>

\* The programmer edits the source tree.
Edit ==
    /\ tree' \in FindingSets
    /\ UNCHANGED <<state_file, pc, invocation, current, previous, reports, audited, history>>

\* Everything a started process does until it exits.
Step(p) ==
    \/ Audit(p) \/ Analyse(p) \/ AnalysisFails(p) \/ LoadState(p) \/ Flush(p)
    \/ OpenState(p) \/ WriteState(p) \/ FlushFailure(p)

Next ==
    \/ \E p \in Procs, cmd \in Commands, cli \in Flags, file \in FileAudiences,
          how \in Strategies, percent \in Rates : Invoke(p, cmd, cli, file, how, percent)
    \/ \E p \in Procs : Step(p) \/ Crash(p)
    \/ Edit

Spec == Init /\ [][Next]_vars

\* A started process is scheduled until it exits.
FairSpec == Spec /\ \A p \in Procs : WF_vars(Step(p))

-----------------------------------------------------------------------------
(* Properties *)

\* A run stays silent against a remembered set only if that set was reported
\* (or sampled out) before: saving comes after flushing, so no crash, torn
\* file or race of two runs can remember findings nobody was told about.
BaselineWasSettled == load_state # Absent => load_state \in settled

\* The churn a backend receives is the exact difference from one finding set
\* that some run completely saved, never from an empty or mixed one.
ChurnIsAgainstASavedSet ==
    \A r \in reports :
        r.churn # NoChurn =>
            \E before \in saved :
                /\ r.churn.new_count = Cardinality(r.findings \ before)
                /\ r.churn.resolved_count = Cardinality(before \ r.findings)
                /\ r.churn.unchanged_count = Cardinality(before \cap r.findings)

\* --telemetry off on the command line leaves no trace, whatever the file says.
OffLeavesNoTrace ==
    \A p \in Procs :
        flag[p] = "Off" => /\ pc[p] \in {"idle", "audit", "analyse"}
                           /\ audited[p] = NoFlag

\* Once the tree is left alone, change-driven reporting falls silent: the runs
\* of one command in sequence stop emitting, those aside that fail, which always
\* report.
ReportingSettles == <>[][tree' = tree]_vars => <>[](\A p \in Procs : pc[p] # "flush")

\* The promise to whoever reads the reports.
Promise == INSTANCE ChangeReports WITH
    FindingSets <- FindingSets, Lost <- Absent, baseline <- load_state

Implements == Promise!Spec
=============================================================================

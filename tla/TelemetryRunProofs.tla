------------------------- MODULE TelemetryRunProofs -------------------------
(* Proofs about TelemetryRun, for every value of its constants. *)
EXTENDS TelemetryRun, FiniteSetTheorems, TLAPS

-----------------------------------------------------------------------------
(* Churn *)

LEMMA FindingSetsAreFinite ==
    ASSUME NEW S \in FindingSets
    PROVE  IsFiniteSet(S)
BY RunAssumption, FS_Subset DEF FindingSets

LEMMA ChurnType ==
    ASSUME NEW now \in FindingSets, NEW before \in FindingSets
    PROVE  compute_churn(now, before) \in Churns
<1>1. now \ before \in FindingSets /\ before \ now \in FindingSets
      /\ now \cap before \in FindingSets
  BY DEF FindingSets
<1>2. QED
  BY <1>1, FindingSetsAreFinite, FS_CardinalityType DEF compute_churn, Churns

\* The three counts of a churn account for every finding of both runs once.
THEOREM ChurnAccountsForBothRuns ==
    ASSUME NEW now \in FindingSets, NEW before \in FindingSets
    PROVE  LET churn == compute_churn(now, before)
           IN  /\ churn.new_count + churn.unchanged_count = Cardinality(now)
               /\ churn.resolved_count + churn.unchanged_count = Cardinality(before)
<1>1. IsFiniteSet(now) /\ IsFiniteSet(before)
  BY FindingSetsAreFinite
<1>2. /\ Cardinality(now \ before) = Cardinality(now) - Cardinality(now \cap before)
      /\ Cardinality(before \ now) = Cardinality(before) - Cardinality(before \cap now)
  BY <1>1, FS_Difference
<1>3. Cardinality(before \cap now) = Cardinality(now \cap before)
  <2>1. now \cap before = before \cap now
    OBVIOUS
  <2>2. QED
    BY <2>1
<1>4. /\ Cardinality(now) \in Nat /\ Cardinality(before) \in Nat
      /\ Cardinality(now \cap before) \in Nat
  BY <1>1, FS_CardinalityType, FS_Intersection
<1>5. /\ compute_churn(now, before).new_count = Cardinality(now \ before)
      /\ compute_churn(now, before).resolved_count = Cardinality(before \ now)
      /\ compute_churn(now, before).unchanged_count = Cardinality(now \cap before)
  BY DEF compute_churn
<1>6. QED
  BY <1>2, <1>3, <1>4, <1>5

-----------------------------------------------------------------------------
(* Types *)

LEMMA LoadStateType ==
    ASSUME TypeOK
    PROVE  load_state \in FindingSets \cup {Absent}
BY DEF TypeOK, load_state

LEMMA ReportType ==
    ASSUME TypeOK, NEW p \in Procs
    PROVE  Report(p) \in Reports
<1>1. current[p] \in FindingSets /\ previous[p] \in FindingSets \cup {Absent}
  BY DEF TypeOK
<1>2. previous[p] # Absent => compute_churn(current[p], previous[p]) \in Churns
  BY <1>1, ChurnType
<1>3. QED
  BY <1>1, <1>2 DEF Report, Reports

LEMMA InitType == Init => TypeOK
BY RunAssumption DEF Init, TypeOK, FindingSets, Audiences, Steps, Unreadable

LEMMA AudienceType ==
    ASSUME NEW cli \in Flags, NEW file \in FileAudiences
    PROVE  /\ cli \in Audiences \cup {NoFlag}
           /\ resolve_audience(cli, file) \in Audiences
BY RunAssumption DEF resolve_audience, Audiences

LEMMA InvokeType ==
    ASSUME TypeOK, NEW p \in Procs, NEW cmd \in Commands, NEW cli \in Flags,
           NEW file \in FileAudiences, NEW how \in Strategies, NEW percent \in Rates,
           Invoke(p, cmd, cli, file, how, percent)
    PROVE  TypeOK'
<1>1. {} \in FindingSets /\ how \in {"Rate", "OnChange"} /\ percent \in 0..100
  BY RunAssumption DEF FindingSets
<1>2. QED
  BY <1>1, AudienceType DEF Invoke, TypeOK, Goto, Steps, history

LEMMA StepType ==
    ASSUME TypeOK, NEW p \in Procs, Step(p)
    PROVE  TypeOK'
<1>1. CASE Audit(p)
  BY <1>1 DEF Audit, TypeOK, Goto, Steps, invocation, history, Audiences
<1>2. CASE Analyse(p)
  <2>1. tree \cap Detects[command[p]] \in FindingSets
    BY DEF TypeOK, FindingSets
  <2>2. QED
    BY <1>2, <2>1 DEF Analyse, TypeOK, Goto, Steps, invocation, history
<1>3. CASE AnalysisFails(p)
  <2>1. PICK found \in {{}, tree \cap Detects[command[p]]} : current' = [current EXCEPT ![p] = found]
    BY <1>3 DEF AnalysisFails
  <2>2. found \in FindingSets
    BY <2>1 DEF TypeOK, FindingSets
  <2>3. QED
    BY <1>3, <2>1, <2>2 DEF AnalysisFails, TypeOK, Goto, Steps, invocation, history
<1>4. CASE LoadState(p)
  BY <1>4, LoadStateType DEF LoadState, TypeOK, Goto, Steps, invocation
<1>5. CASE Flush(p)
  BY <1>5, ReportType DEF Flush, TypeOK, Goto, Steps, invocation
<1>6. CASE OpenState(p)
  BY <1>6 DEF OpenState, TypeOK, Goto, Steps, invocation, Unreadable
<1>7. CASE WriteState(p)
  <2>1. state_file' \in FindingSets \cup Unreadable
    BY <1>7 DEF WriteState, TypeOK, Overwrite, Unreadable
  <2>2. QED
    BY <1>7, <2>1 DEF WriteState, TypeOK, Goto, Steps, invocation
<1>8. CASE FlushFailure(p)
  BY <1>8, ReportType DEF FlushFailure, TypeOK, Goto, Steps, invocation, history
<1>9. QED
  BY <1>1, <1>2, <1>3, <1>4, <1>5, <1>6, <1>7, <1>8 DEF Step

\* The shared file, the processes and what the backends received keep their types.
THEOREM TypeCorrect == Spec => []TypeOK
<1>1. TypeOK /\ [Next]_vars => TypeOK'
  <2> SUFFICES ASSUME TypeOK, [Next]_vars PROVE TypeOK'
    OBVIOUS
  <2>1. ASSUME NEW p \in Procs, Crash(p) PROVE TypeOK'
    BY <2>1 DEF Crash, TypeOK, Goto, Steps, invocation, history
  <2>2. CASE Edit
    BY <2>2 DEF Edit, TypeOK, invocation, history
  <2>3. CASE UNCHANGED vars
    BY <2>3 DEF TypeOK, vars, invocation, history
  <2>4. QED
    BY <2>1, <2>2, <2>3, InvokeType, StepType DEF Next
<1>2. QED
  BY InitType, <1>1, PTL DEF Spec

-----------------------------------------------------------------------------
(* The baseline *)

\* What a process is about to save has been settled, and what the file holds
\* was settled and completely saved; so is what a process has loaded.
BaselineInv ==
    /\ BaselineWasSettled
    /\ \A p \in Procs : pc[p] \in {"open", "write"} => current[p] \in settled
    /\ load_state # Absent => load_state \in saved
    /\ \A p \in Procs : previous[p] # Absent => previous[p] \in saved
    /\ ChurnIsAgainstASavedSet

LEMMA InitBaseline == Init => BaselineInv
BY DEF Init, BaselineInv, BaselineWasSettled, ChurnIsAgainstASavedSet, load_state, Unreadable

\* Steps that touch neither the file nor the histories keep the invariant when
\* they send no process to the saving steps.
LEMMA QuietStep ==
    ASSUME TypeOK, BaselineInv, TypeOK',
           UNCHANGED <<state_file, reports, settled, saved>>,
           \A p \in Procs :
               pc'[p] \in {"open", "write"} => pc'[p] = pc[p] /\ current'[p] = current[p],
           \A p \in Procs : previous'[p] \in {Absent, previous[p]}
    PROVE  BaselineInv'
BY DEF BaselineInv, BaselineWasSettled, ChurnIsAgainstASavedSet, load_state

LEMMA LoadStateBaseline ==
    ASSUME TypeOK, BaselineInv, NEW p \in Procs, LoadState(p)
    PROVE  BaselineInv'
<1>1. load_state' = load_state
  BY DEF LoadState, load_state
<1>2. settled \subseteq settled' /\ saved' = saved /\ reports' = reports
  BY DEF LoadState
<1>3. ASSUME pc'[p] = "open" PROVE current[p] \in settled'
  <2>1. PICK decision \in should_sample(strategy[p], rate[p], current[p], load_state) :
            /\ Goto(p, IF decision = "Emit" THEN "flush" ELSE "open")
            /\ settled' = IF decision = "Skip" /\ strategy[p] = "Rate"
                          THEN settled \cup {current[p]} ELSE settled
    BY DEF LoadState
  <2>2. decision = "Skip"
    BY <1>3, <2>1 DEF Goto, TypeOK, should_sample
  <2>3. CASE strategy[p] = "Rate"
    BY <2>1, <2>2, <2>3
  <2>4. CASE strategy[p] = "OnChange"
    <3>1. current[p] = load_state
      BY <2>1, <2>2, <2>4 DEF should_sample
    <3>2. load_state # Absent
      BY <3>1, RunAssumption DEF TypeOK, Unreadable
    <3>3. QED
      BY <3>1, <3>2, <1>2 DEF BaselineInv, BaselineWasSettled
  <2>5. QED
    BY <2>3, <2>4 DEF TypeOK
<1>4. \A q \in Procs : pc'[q] \in {"open", "write"} => current'[q] \in settled'
  BY <1>2, <1>3 DEF LoadState, Goto, TypeOK, BaselineInv
<1>5. \A q \in Procs : previous'[q] # Absent => previous'[q] \in saved'
  BY <1>2 DEF LoadState, TypeOK, BaselineInv
<1>6. QED
  BY <1>1, <1>2, <1>4, <1>5
     DEF BaselineInv, BaselineWasSettled, ChurnIsAgainstASavedSet

LEMMA FlushBaseline ==
    ASSUME TypeOK, BaselineInv, NEW p \in Procs, Flush(p) \/ FlushFailure(p)
    PROVE  BaselineInv'
<1>1. load_state' = load_state /\ saved' = saved /\ current' = current
      /\ previous' = previous /\ settled \subseteq settled'
  BY DEF Flush, FlushFailure, load_state, invocation, history
<1>2. \A q \in Procs : pc'[q] \in {"open", "write"} => current'[q] \in settled'
  BY <1>1 DEF Flush, FlushFailure, Goto, TypeOK, BaselineInv
<1>3. ChurnIsAgainstASavedSet'
  <2> SUFFICES ASSUME NEW r \in reports', r.churn # NoChurn
               PROVE  \E before \in saved :
                         /\ r.churn.new_count = Cardinality(r.findings \ before)
                         /\ r.churn.resolved_count = Cardinality(before \ r.findings)
                         /\ r.churn.unchanged_count = Cardinality(before \cap r.findings)
    BY <1>1 DEF ChurnIsAgainstASavedSet
  <2>1. CASE r \in reports
    BY <2>1 DEF BaselineInv, ChurnIsAgainstASavedSet
  <2>2. CASE r = Report(p)
    <3>1. previous[p] # Absent /\ r.findings = current[p]
          /\ r.churn = compute_churn(current[p], previous[p])
      BY <2>2 DEF Report
    <3>2. previous[p] \in saved
      BY <3>1 DEF BaselineInv
    <3>3. current[p] \cap previous[p] = previous[p] \cap current[p]
      OBVIOUS
    <3>4. /\ r.churn.new_count = Cardinality(r.findings \ previous[p])
          /\ r.churn.resolved_count = Cardinality(previous[p] \ r.findings)
          /\ r.churn.unchanged_count = Cardinality(previous[p] \cap r.findings)
      BY <3>1, <3>3 DEF compute_churn
    <3>5. QED
      BY <3>2, <3>4
  <2>3. QED
    BY <2>1, <2>2 DEF Flush, FlushFailure
<1>4. QED
  BY <1>1, <1>2, <1>3 DEF BaselineInv, BaselineWasSettled

LEMMA SaveBaseline ==
    ASSUME TypeOK, BaselineInv, NEW p \in Procs, OpenState(p) \/ WriteState(p)
    PROVE  BaselineInv'
<1>1. settled' = settled /\ saved \subseteq saved' /\ reports' = reports
      /\ current' = current /\ previous' = previous
  BY DEF OpenState, WriteState, invocation
<1>2. \A q \in Procs : pc'[q] \in {"open", "write"} => current'[q] \in settled'
  BY <1>1 DEF OpenState, WriteState, Goto, TypeOK, BaselineInv
<1>3. load_state' # Absent => load_state' \in settled' /\ load_state' \in saved'
  <2>1. CASE OpenState(p)
    BY <1>1, <2>1 DEF OpenState, load_state, Unreadable, BaselineInv, BaselineWasSettled
  <2>2. CASE WriteState(p)
    <3>1. current[p] \in settled
      BY <2>2 DEF WriteState, BaselineInv
    <3>2. \/ state_file' \in Unreadable
          \/ state_file' = current[p] /\ current[p] \in saved'
      BY <2>2 DEF WriteState, Overwrite, Unreadable
    <3>3. QED
      BY <1>1, <3>1, <3>2 DEF load_state
  <2>3. QED
    BY <2>1, <2>2
<1>4. QED
  BY <1>1, <1>2, <1>3 DEF BaselineInv, BaselineWasSettled, ChurnIsAgainstASavedSet

LEMMA StepBaseline ==
    ASSUME TypeOK, BaselineInv, NEW p \in Procs, Step(p)
    PROVE  BaselineInv'
<1>1. TypeOK'
  BY StepType
<1>2. CASE Audit(p) \/ Analyse(p) \/ AnalysisFails(p)
  <2>1. UNCHANGED <<state_file, reports, settled, saved, previous>>
    BY <1>2 DEF Audit, Analyse, AnalysisFails, history
  <2>2. \A q \in Procs :
            pc'[q] \in {"open", "write"} => pc'[q] = pc[q] /\ current'[q] = current[q]
    BY <1>2 DEF Audit, Analyse, AnalysisFails, Goto, TypeOK
  <2>3. QED
    BY <1>1, <2>1, <2>2, QuietStep
<1>3. QED
  BY <1>2, LoadStateBaseline, FlushBaseline, SaveBaseline DEF Step

LEMMA NextBaseline == TypeOK /\ BaselineInv /\ TypeOK' /\ [Next]_vars => BaselineInv'
<1> SUFFICES ASSUME TypeOK, BaselineInv, TypeOK', [Next]_vars PROVE BaselineInv'
  OBVIOUS
<1>1. ASSUME NEW p \in Procs, NEW cmd \in Commands, NEW cli \in Flags,
             NEW file \in FileAudiences, NEW how \in Strategies, NEW percent \in Rates,
             Invoke(p, cmd, cli, file, how, percent)
      PROVE  BaselineInv'
  BY <1>1, QuietStep DEF Invoke, Goto, TypeOK, history
<1>2. ASSUME NEW p \in Procs, Crash(p) PROVE BaselineInv'
  BY <1>2, QuietStep DEF Crash, Goto, TypeOK, history
<1>3. CASE Edit
  BY <1>3, QuietStep DEF Edit, history
<1>4. CASE UNCHANGED vars
  BY <1>4, QuietStep DEF vars, history
<1>5. QED
  BY <1>1, <1>2, <1>3, <1>4, StepBaseline DEF Next

THEOREM BaselineInvariant == Spec => []BaselineInv
BY InitBaseline, NextBaseline, TypeCorrect, PTL DEF Spec

\* No interleaving of processes, no crash and no torn or failed save makes a
\* run silent about findings that no run ever reported or sampled out.
THEOREM BaselineIsSettled == Spec => []BaselineWasSettled
<1>1. BaselineInv => BaselineWasSettled
  BY DEF BaselineInv
<1>2. QED
  BY <1>1, BaselineInvariant, PTL

\* Every churn a backend receives is against a set that some run really saved.
THEOREM ChurnBaseIsReal == Spec => []ChurnIsAgainstASavedSet
<1>1. BaselineInv => ChurnIsAgainstASavedSet
  BY DEF BaselineInv
<1>2. QED
  BY <1>1, BaselineInvariant, PTL

-----------------------------------------------------------------------------
(* The promise to the reader of the reports *)

LEMMA InitPromise == Init => Promise!Init
BY DEF Init, Promise!Init, load_state, Unreadable

\* A step that leaves the histories and the file alone is a stutter.
LEMMA QuietPromise ==
    ASSUME UNCHANGED <<state_file, settled>>
    PROVE  UNCHANGED <<settled, load_state>>
BY DEF load_state

LEMMA StepPromise ==
    ASSUME TypeOK, BaselineInv, TypeOK', BaselineInv', NEW p \in Procs, Step(p)
    PROVE  [Promise!Next]_<<settled, load_state>>
<1>1. CASE Audit(p) \/ Analyse(p) \/ AnalysisFails(p) \/ FlushFailure(p)
  BY <1>1, QuietPromise DEF Audit, Analyse, AnalysisFails, FlushFailure, history
<1>2. CASE LoadState(p) \/ Flush(p)
  <2>1. load_state' = load_state /\ current[p] \in FindingSets
    BY <1>2 DEF LoadState, Flush, load_state, TypeOK
  <2>2. settled' = settled \/ settled' = settled \cup {current[p]}
    BY <1>2 DEF LoadState, Flush
  <2>3. QED
    BY <2>1, <2>2 DEF Promise!Next, Promise!Settle
<1>3. CASE OpenState(p) \/ WriteState(p)
  <2>1. settled' = settled
    BY <1>3 DEF OpenState, WriteState
  <2>2. load_state' \in FindingSets \cup {Absent}
    BY DEF TypeOK, load_state
  <2>3. CASE load_state' = Absent
    BY <2>1, <2>3 DEF Promise!Next, Promise!Forget
  <2>4. CASE load_state' # Absent
    <3>1. load_state' \in settled
      BY <2>1, <2>4 DEF BaselineInv, BaselineWasSettled
    <3>2. Promise!Remember(load_state')
      BY <2>1, <3>1 DEF Promise!Remember
    <3>3. QED
      BY <2>2, <2>4, <3>2 DEF Promise!Next
  <2>5. QED
    BY <2>3, <2>4
<1>4. QED
  BY <1>1, <1>2, <1>3 DEF Step

LEMMA NextPromise ==
    ASSUME TypeOK, BaselineInv, TypeOK', BaselineInv', [Next]_vars
    PROVE  [Promise!Next]_<<settled, load_state>>
<1>1. CASE \E p \in Procs : Step(p)
  BY <1>1, StepPromise
<1>2. CASE UNCHANGED <<state_file, settled>>
  BY <1>2, QuietPromise
<1>3. CASE ~ \E p \in Procs : Step(p)
  <2>1. UNCHANGED <<state_file, settled>>
    BY <1>3 DEF Next, vars, Invoke, Crash, Edit, history
  <2>2. QED
    BY <1>2, <2>1
<1>4. QED
  BY <1>1, <1>3

\* The processes, their faults and the shared file implement the promise: what
\* is remembered was settled before, and forgetting is all a fault can do.
THEOREM RunsKeepThePromise == Spec => Implements
<1>1. TypeOK /\ BaselineInv /\ TypeOK' /\ BaselineInv' /\ [Next]_vars
          => [Promise!Next]_<<settled, load_state>>
  BY NextPromise
<1>2. QED
  BY InitPromise, <1>1, TypeCorrect, BaselineInvariant, PTL
     DEF Spec, Implements, Promise!Spec

-----------------------------------------------------------------------------
(* The kill switch *)

\* The flag decides the audience, and the audience keeps the run on the short path.
OffInv ==
    /\ OffLeavesNoTrace
    /\ \A p \in Procs : flag[p] = "Off" => audience[p] = "Off"

LEMMA InitOff == Init => OffInv
BY RunAssumption DEF Init, OffInv, OffLeavesNoTrace

LEMMA NextOff == TypeOK /\ OffInv /\ [Next]_vars => OffInv'
<1> SUFFICES ASSUME TypeOK, OffInv, [Next]_vars PROVE OffInv'
  OBVIOUS
<1>1. ASSUME NEW p \in Procs, NEW cmd \in Commands, NEW cli \in Flags,
             NEW file \in FileAudiences, NEW how \in Strategies, NEW percent \in Rates,
             Invoke(p, cmd, cli, file, how, percent)
      PROVE  OffInv'
  <2>1. cli = "Off" => resolve_audience(cli, file) = "Off"
    BY RunAssumption DEF resolve_audience
  <2>2. QED
    BY <1>1, <2>1 DEF Invoke, Goto, TypeOK, OffInv, OffLeavesNoTrace
<1>2. ASSUME NEW p \in Procs, Step(p)
      PROVE  OffInv'
  <2>1. UNCHANGED <<flag, audience>>
    BY <1>2 DEF Step, Audit, Analyse, AnalysisFails, LoadState, Flush, OpenState,
                WriteState, FlushFailure, invocation
  <2>2. CASE Audit(p)
    BY <2>1, <2>2, RunAssumption DEF Audit, Goto, TypeOK, OffInv, OffLeavesNoTrace
  <2>3. CASE Analyse(p) \/ AnalysisFails(p) \/ FlushFailure(p)
    BY <2>1, <2>3 DEF Analyse, AnalysisFails, FlushFailure, Goto, TypeOK, OffInv,
                      OffLeavesNoTrace
  <2>4. CASE LoadState(p) \/ Flush(p) \/ OpenState(p) \/ WriteState(p)
    <3>1. flag[p] # "Off" /\ audited' = audited
      BY <2>4 DEF LoadState, Flush, OpenState, WriteState, OffInv, OffLeavesNoTrace
    <3>2. \A q \in Procs : q # p => pc'[q] = pc[q]
      BY <2>4 DEF LoadState, Flush, OpenState, WriteState, Goto, TypeOK
    <3>3. QED
      BY <2>1, <3>1, <3>2 DEF OffInv, OffLeavesNoTrace
  <2>5. QED
    BY <1>2, <2>2, <2>3, <2>4 DEF Step
<1>3. ASSUME NEW p \in Procs, Crash(p) PROVE OffInv'
  BY <1>3 DEF Crash, Goto, TypeOK, OffInv, OffLeavesNoTrace, invocation
<1>4. CASE Edit \/ UNCHANGED vars
  BY <1>4 DEF Edit, vars, OffInv, OffLeavesNoTrace, invocation
<1>5. QED
  BY <1>1, <1>2, <1>3, <1>4 DEF Next

\* Whatever the project's file asks for, a run started with --telemetry off
\* writes no audit event and never reaches a backend or the state file.
THEOREM OffIsSilent == Spec => []OffLeavesNoTrace
<1>1. OffInv => OffLeavesNoTrace
  BY DEF OffInv
<1>2. QED
  BY InitOff, NextOff, TypeCorrect, <1>1, PTL DEF Spec
=============================================================================

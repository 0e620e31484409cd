------------------------------ MODULE AuditLog ------------------------------
(***************************************************************************)
(* The telemetry audit log (chaffra-telemetry, audit_log.rs), one JSON     *)
(* line per chaffra invocation, appended by maybe_audit_log_audience in    *)
(* main.rs and read back by `chaffra telemetry audit-log`.                 *)
(*                                                                         *)
(* append_event opens the file for appending and calls writeln! on the     *)
(* unbuffered File, which writes the line and its newline with one write   *)
(* each: two processes may interleave between them, and one may die there. *)
(* The log is a sequence of what the writes appended: an event, a newline, *)
(* or a fragment of an event when a write was cut short. A cut inside a    *)
(* character of the user's name leaves a fragment that is not UTF-8.       *)
(***************************************************************************)
EXTENDS Integers, Sequences, FiniteSets, SequencesExt

CONSTANTS
    Procs,
    AuditAudiences, \* audiences in use
    Faults,         \* which of "crash", "open", "write" may happen
    MaxRuns,        \* bound on invocations
    Newline, NoEvent,
    Fragment, Broken \* fragments: of whole characters, and cut inside one

VARIABLES
    log,
    pc,             \* of each process: "idle", "line" or "newline"
    event,          \* the event a process is appending
    runs,           \* history: invocations so far that owe an event
    appended,       \* history: the runs whose append succeeded, in order
    contended       \* history: some event was appended to an unfinished line

auditVars == <<log, pc, event, runs, appended, contended>>

Events == [run : 1..MaxRuns, kind : {"TelemetryEnabled", "TelemetryDisabled"}]

Parts == {Fragment, Broken}

\* A newline and a fragment are no events: no event's JSON holds a line end, and
\* no proper part of one parses.
ASSUME AuditAssumption ==
    /\ MaxRuns \in Nat
    /\ Newline \notin Events \cup Parts /\ Parts \cap Events = {} /\ Fragment # Broken
    /\ AuditAudiences \subseteq {"On", "OperatorOnly", "UserOnly", "Off"}

\* Position i is at the start of a line; the text there ends with the line.
StartsLine(i) == i = 1 \/ log[i - 1] = Newline

\* A bug: the reader drops the last line.
EndsLine_NotLast(i) == i + 1 < Len(log) /\ log[i + 1] = Newline

EndsLine(i) == i = Len(log) \/ log[i + 1] = Newline

\* A line parses when it holds exactly one whole event; the others are skipped. A
\* line that is not UTF-8 ends the reading, with all that follows it unread.
ReadablePlaces ==
    {i \in DOMAIN log : /\ log[i] \notin {Newline} \cup Parts /\ StartsLine(i) /\ EndsLine(i)
                       /\ \A j \in DOMAIN log : log[j] = Broken => i < j}

\* The lines are read from the first to the last: the n-th event of the answer
\* stands where n - 1 readable ones stand before it.
ReadBefore(i) == {j \in ReadablePlaces : j < i}

PlaceOf(n) == CHOOSE i \in ReadablePlaces : Cardinality(ReadBefore(i)) = n - 1

read_log == [n \in 1..Cardinality(ReadablePlaces) |-> log[PlaceOf(n)]]

AuditInit ==
    /\ log = <<>>
    /\ pc = [p \in Procs |-> "idle"]
    /\ event = [p \in Procs |-> NoEvent]
    /\ runs = 0
    /\ appended = <<>>
    /\ contended = FALSE

\* The kind of event an audience owes; Off owes none.
maybe_audit_log_audience(audience) ==
    CASE audience \in {"On", "OperatorOnly"} -> "TelemetryEnabled"
      [] audience = "UserOnly"               -> "TelemetryDisabled"
      [] audience = "Off"                    -> NoEvent

Invoke(p, audience) ==
    /\ pc[p] = "idle"
    /\ runs < MaxRuns
    /\ maybe_audit_log_audience(audience) # NoEvent
    /\ runs' = runs + 1
    /\ event' = [event EXCEPT ![p] = [run  |-> runs + 1,
                                      kind |-> maybe_audit_log_audience(audience)]]
    /\ pc' = [pc EXCEPT ![p] = "line"]
    /\ UNCHANGED <<log, appended, contended>>

\* One write to the file opened with O_APPEND.
AppendWrite(token) == log' = Append(log, token)

\* A bug: the file is opened with truncation instead of for appending.
WriteLine_Truncates(p) ==
    /\ pc[p] = "line"
    /\ log' = <<event[p]>>
    /\ pc' = [pc EXCEPT ![p] = "newline"]
    /\ UNCHANGED <<event, runs, appended, contended>>

WriteLine(p) ==
    /\ pc[p] = "line"
    /\ AppendWrite(event[p])
    /\ contended' = (contended \/ (log # <<>> /\ Last(log) # Newline))
    /\ pc' = [pc EXCEPT ![p] = "newline"]
    /\ UNCHANGED <<event, runs, appended>>

WriteNewline(p) ==
    /\ pc[p] = "newline"
    /\ AppendWrite(Newline)
    /\ appended' = Append(appended, event[p].run)
    /\ pc' = [pc EXCEPT ![p] = "idle"]
    /\ UNCHANGED <<event, runs, contended>>

\* Every error is dropped: the run goes on without its event.
OpenFails(p) ==
    /\ "open" \in Faults
    /\ pc[p] = "line"
    /\ pc' = [pc EXCEPT ![p] = "idle"]
    /\ UNCHANGED <<log, event, runs, appended, contended>>

WriteFails(p) ==
    /\ "write" \in Faults
    /\ \/ /\ pc[p] = "line"
          /\ \E part \in Parts : AppendWrite(part)
          /\ contended' = (contended \/ (log # <<>> /\ Last(log) # Newline))
       \/ pc[p] = "newline" /\ UNCHANGED <<log, contended>>
    /\ pc' = [pc EXCEPT ![p] = "idle"]
    /\ UNCHANGED <<event, runs, appended>>

Crash(p) ==
    /\ "crash" \in Faults
    /\ pc[p] # "idle"
    /\ pc' = [pc EXCEPT ![p] = "idle"]
    /\ UNCHANGED <<log, event, runs, appended, contended>>

AuditNext ==
    \E p \in Procs :
        \/ \E audience \in AuditAudiences : Invoke(p, audience)
        \/ WriteLine(p) \/ WriteNewline(p)
        \/ OpenFails(p) \/ WriteFails(p) \/ Crash(p)

-----------------------------------------------------------------------------
(* Properties *)

RunsOf(events) == [n \in DOMAIN events |-> events[n].run]

\* As long as every append found the last line finished, the reader returns
\* the events appended so far, all of them and in order.
UncontendedEventsAreRead == ~ contended => IsPrefix(appended, RunsOf(read_log))

\* What one reader is given from a finished line, every later reader is given at
\* the same place of the answer, whatever later runs, failures and crashes append:
\* a line that cannot be read hides what comes after it and nothing before.
FinishedLinesAreStable ==
    [][\A n \in DOMAIN read_log :
          PlaceOf(n) < Len(log) => n \in DOMAIN read_log' /\ read_log'[n] = read_log[n]]_auditVars
=============================================================================

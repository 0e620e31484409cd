------------------------- MODULE TelemetryCollector -------------------------
(***************************************************************************)
(* The telemetry collector of chaffra-telemetry (collector.rs), the        *)
(* classification of metric names (metrics.rs) and the projection of a     *)
(* snapshot to an audience, the boundary every output path goes through.   *)
(*                                                                         *)
(* Every method of the Rust type locks the one mutex for its whole body,   *)
(* so each method is one atomic action; the threads that call them (the    *)
(* analysis, the gRPC service, the HTTP handlers) interleave freely.       *)
(* Taking a snapshot changes nothing and returns a copy, so snapshot is an *)
(* expression of the state: what holds of it in every reachable state      *)
(* holds of every snapshot any thread can ever hold.                       *)
(*                                                                         *)
(* Abstractions.  A metric name is a model value, or the pair <<m, k>> for *)
(* the formatted name chaffra.module.<m>.<k>; a data point keeps its name, *)
(* its module label and its value; points are a set, since order and       *)
(* repetition reach no property.  Timestamps are left out.                 *)
(***************************************************************************)
EXTENDS Integers, FiniteSets, FiniteSetsExt

CONSTANTS
    Modules,            \* ids of analysis modules
    SummaryKeys,        \* the <key> of chaffra.module.<id>.<key>
    OperatorNames,      \* metric_names::OPERATOR
    KnownUserNames,     \* metric_names::KNOWN_USER
    ChurnNames,         \* the chaffra.findings.* names
    OtherNames,         \* names classified by neither list nor shape
    CallDuration, ErrorTotal, FindingsTotal, FindingsBySeverity,
    ExternalNames,      \* names an external module may submit over gRPC
    Severities,
    Fingerprints,
    Durations,          \* the measured call durations, in ms
    None,               \* the absent entry of a map
    MaxCount,           \* bound on counters
    MaxPoints           \* bound on the stored points

SummaryNames == Modules \X SummaryKeys
Names == OperatorNames \cup KnownUserNames \cup OtherNames \cup SummaryNames

\* The names of which single points are recorded: load, connection and
\* configuration errors, start-up timings, cache counters, the test point.
\* Only record_module_call records the other two.
EventNames == (OperatorNames \ {CallDuration, ErrorTotal}) \cup OtherNames

ASSUME NamesAssumption ==
    /\ {CallDuration, ErrorTotal} \subseteq OperatorNames
    /\ CallDuration # ErrorTotal
    /\ {FindingsTotal, FindingsBySeverity} \cup ChurnNames \subseteq KnownUserNames
    /\ OperatorNames \cap KnownUserNames = {}
    /\ OtherNames \cap (OperatorNames \cup KnownUserNames \cup SummaryNames) = {}
    /\ SummaryNames \cap (OperatorNames \cup KnownUserNames) = {}
    /\ ExternalNames \subseteq Names
    /\ IsFiniteSet(Modules) /\ IsFiniteSet(Severities)
    /\ Durations \subseteq Nat
    /\ MaxCount \in Nat
    /\ None \notin Nat \cup {"core", "external"}

\* Nothing is not an entry of the module summaries either.
ASSUME EntriesAssumption ==
    None \notin [duration_ms : Nat, finding_count : Nat, metrics : SUBSET SummaryKeys]

VARIABLES
    definitions,            \* name -> who wrote the registered definition
    data_points,
    spans,
    module_durations,
    module_errors,
    module_findings,
    findings_by_severity,
    files_total,
    finding_fingerprints,
    untrusted_runtime,      \* names the untrusted ingress has seen
    submitted               \* history: the names external modules sent since reset

counters == <<module_durations, module_errors, module_findings,
              findings_by_severity, files_total, finding_fingerprints>>
vars == <<definitions, data_points, spans, counters, untrusted_runtime, submitted>>

Sources == {"core", "external"}

\* src is a history field: the code stores no source on a point (issue #45),
\* and no definition below reads it except the properties.
DataPoints == [name : Names, src : Sources, module : Modules \cup {None}, value : Nat]
Spans == [name : Names, src : Sources]

TypeOK ==
    /\ definitions \in [Names -> Sources \cup {None}]
    /\ data_points \subseteq DataPoints
    /\ spans \subseteq Spans
    /\ module_durations \in [Modules -> Nat \cup {None}]
    /\ module_errors \in [Modules -> Nat \cup {None}]
    /\ module_findings \in [Modules -> Nat \cup {None}]
    /\ findings_by_severity \in [Severities -> Nat]
    /\ files_total \in Nat
    /\ finding_fingerprints \subseteq Fingerprints
    /\ untrusted_runtime \subseteq Names
    /\ submitted \subseteq Names

-----------------------------------------------------------------------------
(* Audiences and name classification *)

Audiences == {"On", "Off", "UserOnly", "OperatorOnly"}

user_enabled(audience) == audience \in {"On", "UserOnly"}

operator_enabled(audience) == audience \in {"On", "OperatorOnly"}

is_operator(name) == name \in OperatorNames

is_per_module_summary_shape(name) == name \in SummaryNames

is_known_user(name) ==
    /\ ~ is_operator(name)
    /\ name \in KnownUserNames \/ is_per_module_summary_shape(name)

\* What the entries of a map add up to.
Total(map, keys) == MapThenSumSet(LAMBDA key : map[key], keys)

\* unwrap_or(0) on the entry of a map
OrZero(entry) == IF entry = None THEN 0 ELSE entry

-----------------------------------------------------------------------------
(* Snapshot and projection *)

\* The module-specific metrics of a summary: trusted points only.
summary_metrics(m) ==
    {k \in SummaryKeys :
        /\ <<m, k>> \notin untrusted_runtime
        /\ \E p \in data_points : p.name = <<m, k>>}

\* Keyed by the modules that were timed, as the loop over module_durations is.
module_summaries ==
    [m \in Modules |->
        IF module_durations[m] = None THEN None
        ELSE [duration_ms   |-> module_durations[m],
              finding_count |-> OrZero(module_findings[m]),
              metrics       |-> summary_metrics(m)]]

snapshot ==
    [definitions       |-> definitions,
     data_points       |-> data_points,
     spans             |-> spans,
     user_summary      |-> [files_total          |-> files_total,
                            findings_by_severity |-> findings_by_severity,
                            findings_by_module   |-> module_findings,
                            module_summaries     |-> module_summaries],
     operator_summary  |-> [module_call_durations |-> module_durations,
                            module_error_counts   |-> module_errors],
     untrusted_runtime |-> untrusted_runtime]

NoMap == [m \in Modules |-> None]

DefaultUserSummary ==
    [files_total          |-> 0,
     findings_by_severity |-> [s \in Severities |-> 0],
     findings_by_module   |-> NoMap,
     module_summaries     |-> NoMap]

DefaultOperatorSummary ==
    [module_call_durations |-> NoMap, module_error_counts |-> NoMap]

\* Mutant: classifies by name alone, so an external module can borrow a name.
admit_NameOnly(untrusted, audience, name) ==
    \/ is_operator(name) /\ operator_enabled(audience)
    \/ is_known_user(name) /\ user_enabled(audience)
    \/ user_enabled(audience) /\ operator_enabled(audience)

\* Mutant: forgets the names known by their shape only.
admit_ListedOnly(untrusted, audience, name) ==
    \/ user_enabled(audience) /\ operator_enabled(audience)
    \/ name \notin untrusted /\ is_operator(name) /\ operator_enabled(audience)
    \/ name \notin untrusted /\ name \in KnownUserNames /\ user_enabled(audience)

admit(untrusted, audience, name) ==
    \/ user_enabled(audience) /\ operator_enabled(audience)
    \/ name \notin untrusted /\ is_operator(name) /\ operator_enabled(audience)
    \/ name \notin untrusted /\ is_known_user(name) /\ user_enabled(audience)

admit_span(untrusted, audience, span) ==
    /\ operator_enabled(audience)
    /\ span.name \notin untrusted \/ user_enabled(audience)

\* Mutant: drops the payload-free entries and leaves the timing in the others.
scrub_entry_KeepsTiming(entry) ==
    IF entry = None \/ (entry.finding_count = 0 /\ entry.metrics = {}) THEN None
    ELSE entry

\* A summary entry that is only a timing is withheld from the user audience;
\* the others lose the timing.
scrub_entry(entry) ==
    IF entry = None THEN None
    ELSE IF entry.finding_count = 0 /\ entry.metrics = {} THEN None
    ELSE [entry EXCEPT !.duration_ms = 0]

scrub_module_summaries(summaries) ==
    [m \in Modules |-> scrub_entry(summaries[m])]

project_user_summary(summary, audience) ==
    IF ~ user_enabled(audience) THEN DefaultUserSummary
    ELSE IF operator_enabled(audience) THEN summary
    ELSE [summary EXCEPT !.module_summaries = scrub_module_summaries(@)]

\* Mutant: the projection forgets what was untrusted.
project_for_audience_Forgets(snap, audience) ==
    [definitions       |-> [n \in Names |->
                               IF admit(snap.untrusted_runtime, audience, n)
                               THEN snap.definitions[n] ELSE None],
     data_points       |-> {p \in snap.data_points :
                               admit(snap.untrusted_runtime, audience, p.name)},
     spans             |-> {t \in snap.spans :
                               admit_span(snap.untrusted_runtime, audience, t)},
     user_summary      |-> project_user_summary(snap.user_summary, audience),
     operator_summary  |-> IF operator_enabled(audience) THEN snap.operator_summary
                           ELSE DefaultOperatorSummary,
     untrusted_runtime |-> {}]

project_for_audience(snap, audience) ==
    [definitions       |-> [n \in Names |->
                               IF admit(snap.untrusted_runtime, audience, n)
                               THEN snap.definitions[n] ELSE None],
     data_points       |-> {p \in snap.data_points :
                               admit(snap.untrusted_runtime, audience, p.name)},
     spans             |-> {s \in snap.spans :
                               admit_span(snap.untrusted_runtime, audience, s)},
     user_summary      |-> project_user_summary(snap.user_summary, audience),
     operator_summary  |-> IF operator_enabled(audience) THEN snap.operator_summary
                           ELSE DefaultOperatorSummary,
     untrusted_runtime |-> snap.untrusted_runtime]

View(audience) == project_for_audience(snapshot, audience)

-----------------------------------------------------------------------------
(* Recording *)

Point(name, src, module, value) ==
    [name |-> name, src |-> src, module |-> module, value |-> value]

\* Every recording appends to data_points; MaxPoints bounds the model only.
Push(points) ==
    /\ Cardinality(data_points \cup points) <= MaxPoints
    /\ data_points' = data_points \cup points

Init ==
    /\ definitions = [n \in Names |-> None]
    /\ data_points = {}
    /\ spans = {}
    /\ module_durations = NoMap
    /\ module_errors = NoMap
    /\ module_findings = NoMap
    /\ findings_by_severity = [s \in Severities |-> 0]
    /\ files_total = 0
    /\ finding_fingerprints = {}
    /\ untrusted_runtime = {}
    /\ submitted = {}

register_metrics(names) ==
    /\ definitions' = [n \in Names |-> IF n \in names THEN "core" ELSE definitions[n]]
    /\ UNCHANGED <<data_points, spans, counters, untrusted_runtime, submitted>>

\* Set at start-up by every telemetry run and by the management server.
register_core_metrics == register_metrics(OperatorNames \cup KnownUserNames)

\* Mutant: the definitions are stored before their names are marked.
register_untrusted_metrics_Unmarked(names) ==
    /\ definitions' = [n \in Names |-> IF n \in names THEN "external" ELSE definitions[n]]
    /\ submitted' = submitted \cup names
    /\ UNCHANGED <<data_points, spans, counters, untrusted_runtime>>

register_untrusted_metrics(names) ==
    /\ untrusted_runtime' = untrusted_runtime \cup names
    /\ definitions' = [n \in Names |-> IF n \in names THEN "external" ELSE definitions[n]]
    /\ submitted' = submitted \cup names
    /\ UNCHANGED <<data_points, spans, counters>>

\* record_data_point and record_data_points.
record_data_points(names) ==
    /\ Push({Point(n, "core", None, 0) : n \in names})
    /\ UNCHANGED <<definitions, spans, counters, untrusted_runtime, submitted>>

record_untrusted_data_points(names) ==
    /\ untrusted_runtime' = untrusted_runtime \cup names
    /\ Push({Point(n, "external", None, 0) : n \in names})
    /\ submitted' = submitted \cup names
    /\ UNCHANGED <<definitions, spans, counters>>

record_spans(names) ==
    /\ spans' = spans \cup [name : names, src : {"core"}]
    /\ UNCHANGED <<definitions, data_points, counters, untrusted_runtime, submitted>>

\* Mutant: spans are not marked.
record_untrusted_spans_Unmarked(names) ==
    /\ spans' = spans \cup [name : names, src : {"external"}]
    /\ submitted' = submitted \cup names
    /\ UNCHANGED <<definitions, data_points, counters, untrusted_runtime>>

record_untrusted_spans(names) ==
    /\ untrusted_runtime' = untrusted_runtime \cup names
    /\ spans' = spans \cup [name : names, src : {"external"}]
    /\ submitted' = submitted \cup names
    /\ UNCHANGED <<definitions, data_points, counters>>

\* Mutant: the error point carries the count before the increment.
record_module_call_OldCount(m, duration, had_error) ==
    LET errors == OrZero(module_errors[m])
        timing == Point(CallDuration, "core", m, duration)
    IN  /\ had_error => errors < MaxCount
        /\ module_durations' = [module_durations EXCEPT ![m] = duration]
        /\ module_errors' = IF had_error THEN [module_errors EXCEPT ![m] = errors + 1]
                            ELSE module_errors
        /\ Push(IF had_error THEN {timing, Point(ErrorTotal, "core", m, errors)}
                ELSE {timing})
        /\ UNCHANGED <<definitions, spans, module_findings, findings_by_severity,
                       files_total, finding_fingerprints, untrusted_runtime, submitted>>

record_module_call(m, duration, had_error) ==
    LET errors == OrZero(module_errors[m]) + 1
        timing == Point(CallDuration, "core", m, duration)
    IN  /\ had_error => errors <= MaxCount
        /\ module_durations' = [module_durations EXCEPT ![m] = duration]
        /\ module_errors' = IF had_error THEN [module_errors EXCEPT ![m] = errors]
                            ELSE module_errors
        /\ Push(IF had_error THEN {timing, Point(ErrorTotal, "core", m, errors)}
                ELSE {timing})
        /\ UNCHANGED <<definitions, spans, module_findings, findings_by_severity,
                       files_total, finding_fingerprints, untrusted_runtime, submitted>>

\* The caller passes the findings split by severity and their number.
record_module_findings(m, count, severity_counts) ==
    /\ \A s \in Severities : findings_by_severity[s] + severity_counts[s] <= MaxCount
    /\ module_findings' = [module_findings EXCEPT ![m] = count]
    /\ findings_by_severity' =
           [s \in Severities |-> findings_by_severity[s] + severity_counts[s]]
    /\ Push({Point(FindingsTotal, "core", m, count)} \cup
            {Point(FindingsBySeverity, "core", m, severity_counts[s]) :
                 s \in {t \in Severities : severity_counts[t] > 0}})
    /\ UNCHANGED <<definitions, spans, module_durations, module_errors, files_total,
                   finding_fingerprints, untrusted_runtime, submitted>>

set_files_total(count) ==
    /\ files_total' = count
    /\ UNCHANGED <<definitions, data_points, spans, module_durations, module_errors,
                   module_findings, findings_by_severity, finding_fingerprints,
                   untrusted_runtime, submitted>>

record_module_summary_metric(m, key) ==
    /\ Push({Point(<<m, key>>, "core", m, 0)})
    /\ UNCHANGED <<definitions, spans, counters, untrusted_runtime, submitted>>

record_finding_churn == record_data_points(ChurnNames)

set_finding_fingerprints(fps) ==
    /\ finding_fingerprints' = fps
    /\ UNCHANGED <<definitions, data_points, spans, module_durations, module_errors,
                   module_findings, findings_by_severity, files_total,
                   untrusted_runtime, submitted>>

reset ==
    /\ definitions' = [n \in Names |-> None]
    /\ data_points' = {}
    /\ spans' = {}
    /\ module_durations' = NoMap
    /\ module_errors' = NoMap
    /\ module_findings' = NoMap
    /\ findings_by_severity' = [s \in Severities |-> 0]
    /\ files_total' = 0
    /\ finding_fingerprints' = {}
    /\ untrusted_runtime' = {}
    /\ submitted' = {}

\* The three gRPC methods (TelemetryGrpcService), the only external ingress.
Ingress(names) ==
    \/ register_untrusted_metrics(names)
    \/ record_untrusted_data_points(names)
    \/ record_untrusted_spans(names)

InProcess ==
    \/ register_core_metrics
    \/ \E n \in EventNames : record_data_points({n})
    \/ \E n \in OperatorNames : record_spans({n})
    \/ \E m \in Modules, d \in Durations, e \in BOOLEAN : record_module_call(m, d, e)
    \/ \E m \in Modules, sc \in [Severities -> 0..MaxCount],
          count \in 0..MaxCount * Cardinality(Severities) :
           /\ count = Total(sc, Severities)
           /\ record_module_findings(m, count, sc)
    \/ \E n \in 0..MaxCount : set_files_total(n)
    \/ \E m \in Modules, k \in SummaryKeys : record_module_summary_metric(m, k)
    \/ record_finding_churn
    \/ \E fps \in SUBSET Fingerprints : set_finding_fingerprints(fps)
    \/ reset

Next ==
    \/ InProcess
    \/ \E names \in SUBSET ExternalNames : Ingress(names)

Spec == Init /\ [][Next]_vars

-----------------------------------------------------------------------------
(* Properties *)

\* Whatever an external module has sent, under whatever name, every trace of it
\* is covered by untrusted_runtime, also after an in-process registration of
\* the same name, and nothing else is: the three untrusted ingress methods and
\* reset must keep the set and the stored data in step.
ProvenanceTracked ==
    /\ \A p \in data_points \cup spans : p.src = "external" => p.name \in untrusted_runtime
    /\ \A n \in Names : definitions[n] = "external" => n \in untrusted_runtime
    /\ untrusted_runtime = submitted

\* No restricted audience ever sees a point, a span or a definition that an
\* external module produced (project_for_audience, "provenance overrides name").
RestrictedViewsAreInProcess ==
    \A audience \in Audiences \ {"On"} :
        /\ \A p \in View(audience).data_points \cup View(audience).spans : p.src = "core"
        /\ \A n \in Names : View(audience).definitions[n] # "external"

\* The user is owed every user-facing point of the built-in modules: it is in
\* the user-only view unless an external module sent the same name.
UserIsOwedInProcessPoints ==
    \A p \in data_points :
        (p.src = "core" /\ is_known_user(p.name) /\ p.name \notin submitted)
            => p \in View("UserOnly").data_points

\* What the user-only view may depend on: no timing, error or span, and no
\* module that only ran.
UserFacing ==
    [points   |-> {p \in data_points :
                      p.name \notin untrusted_runtime /\ is_known_user(p.name)},
     defined  |-> {n \in Names : is_known_user(n) /\ definitions[n] # None
                                 /\ n \notin untrusted_runtime},
     findings |-> <<files_total, findings_by_severity, module_findings>>,
     shown    |-> {m \in Modules : /\ module_durations[m] # None
                                   /\ \/ OrZero(module_findings[m]) # 0
                                      \/ summary_metrics(m) # {}}]

\* The parts of the user-only view a user reads.
UserReads ==
    LET view == View("UserOnly")
    IN  <<view.data_points, view.user_summary, view.spans, view.operator_summary>>

\* Recording operator data (a call, an error, a start-up time, a span) cannot
\* be observed in the user-only view: when what the user is owed is unchanged,
\* so is every user-facing part of the projection (the duration scrub and the
\* dropping of payload-free module entries, collector.rs 251-295).
OperatorDataIsInvisibleToUser ==
    [][UserFacing' = UserFacing => UserReads' = UserReads]_vars

\* Entry by entry, the user summary new says no more than old.
NarrowerSummary(new, old) ==
    /\ new.findings_by_module = old.findings_by_module
    /\ \A m \in Modules :
          \/ new.module_summaries[m] = None
          \/ /\ old.module_summaries[m] # None
             /\ new.module_summaries[m].metrics \subseteq old.module_summaries[m].metrics
             /\ new.module_summaries[m].finding_count = old.module_summaries[m].finding_count

NarrowerView(new, old) ==
    /\ new.data_points \subseteq old.data_points
    /\ new.spans \subseteq old.spans
    /\ \A n \in Names : new.definitions[n] \in {None, old.definitions[n]}
    /\ NarrowerSummary(new.user_summary, old.user_summary)
    /\ new.operator_summary = old.operator_summary

\* A submission over gRPC never adds to a restricted view and never changes an
\* entry of it: the only influence it has is to hide its own names.
IngressOnlyNarrows ==
    [][(\E names \in SUBSET ExternalNames : Ingress(names)) =>
          \A audience \in {"UserOnly", "OperatorOnly", "Off"} :
              \A old \in {View(audience)}, new \in {View(audience)'} :
                  NarrowerView(new, old)]_vars

\* Projecting a projected snapshot again discloses nothing the narrower
\* audience would not have got from the original: the untrusted set travels
\* with the snapshot.
ReprojectionIsStable ==
    \A audience \in Audiences :
        /\ project_for_audience(View(audience), audience) = View(audience)
        /\ project_for_audience(View("On"), audience) = View(audience)

ErrorPoints(m) ==
    {p \in data_points : p.name = ErrorTotal /\ p.src = "core" /\ p.module = m}

\* The two places a module error is kept agree: the operator summary's count is
\* the number of error points recorded since the last reset, and the points
\* carry the running count 1, 2, ...
ErrorCountsAgree ==
    \A m \in Modules :
        {p.value : p \in ErrorPoints(m)} = 1..OrZero(module_errors[m])

\* The severity totals accumulate while a module's own total is replaced, so
\* they never fall below the sum over the modules, however often one reports.
SeverityTotalsCoverModules ==
    Total(findings_by_severity, Severities) >=
        Total([m \in Modules |-> OrZero(module_findings[m])], Modules)

\* The counters agree with what was recorded, through resets and repeated reports.
CountersAgree == ErrorCountsAgree /\ SeverityTotalsCoverModules
=============================================================================

---------------------- MODULE TelemetryCollectorProofs ----------------------
(* Proofs about TelemetryCollector, for every value of its constants. *)
EXTENDS TelemetryCollector, FiniteSetTheorems, WellFoundedInduction, TLAPS

-----------------------------------------------------------------------------
(* Types *)

LEMMA OrZeroType ==
    ASSUME NEW entry \in Nat \cup {None}
    PROVE  OrZero(entry) \in Nat
BY NamesAssumption DEF OrZero

LEMMA NamesContain ==
    /\ OperatorNames \subseteq Names
    /\ KnownUserNames \subseteq Names
    /\ OtherNames \subseteq Names
    /\ ExternalNames \subseteq Names
    /\ \A m \in Modules, k \in SummaryKeys : <<m, k>> \in Names
BY NamesAssumption DEF Names, SummaryNames

\* A batch of points of one source stays within the type of data_points.
LEMMA PointType ==
    ASSUME NEW n \in Names, NEW src \in Sources,
           NEW m \in Modules \cup {None}, NEW v \in Nat
    PROVE  Point(n, src, m, v) \in DataPoints
BY DEF Point, DataPoints

LEMMA InitTypeOK == Init => TypeOK
BY NamesAssumption DEF Init, TypeOK, NoMap

LEMMA InProcessTypeOK == TypeOK /\ InProcess => TypeOK'
<1> SUFFICES ASSUME TypeOK, InProcess PROVE TypeOK'
  OBVIOUS
<1> USE NamesContain
<1>1. CASE register_core_metrics
  BY <1>1 DEF TypeOK, register_core_metrics, register_metrics, counters, Sources
<1>2. ASSUME NEW names \in SUBSET Names, record_data_points(names)
      PROVE TypeOK'
  <2>1. {Point(n, "core", None, 0) : n \in names} \subseteq DataPoints
    BY PointType DEF Sources
  <2>2. QED
    BY <1>2, <2>1 DEF TypeOK, record_data_points, Push, counters
<1>3. ASSUME NEW n \in OperatorNames, record_spans({n})
      PROVE TypeOK'
  BY <1>3 DEF TypeOK, record_spans, Spans, Sources, counters
<1>4. ASSUME NEW m \in Modules, NEW d \in Durations, NEW e \in BOOLEAN,
             record_module_call(m, d, e)
      PROVE TypeOK'
  <2> DEFINE errors == OrZero(module_errors[m]) + 1
  <2>1. errors \in Nat /\ d \in Nat
    BY OrZeroType, NamesAssumption DEF TypeOK
  <2>2. /\ Point(CallDuration, "core", m, d) \in DataPoints
        /\ Point(ErrorTotal, "core", m, errors) \in DataPoints
    BY <2>1, PointType, NamesAssumption DEF Sources
  <2>3. data_points' \subseteq DataPoints
    BY <1>4, <2>2 DEF TypeOK, record_module_call, Push
  <2>4. module_errors' \in [Modules -> Nat \cup {None}]
    BY <1>4, <2>1 DEF TypeOK, record_module_call
  <2>5. module_durations' \in [Modules -> Nat \cup {None}]
    BY <1>4, <2>1 DEF TypeOK, record_module_call
  <2>6. QED
    BY <1>4, <2>3, <2>4, <2>5 DEF TypeOK, record_module_call
<1>5. ASSUME NEW m \in Modules, NEW sc \in [Severities -> 0..MaxCount],
             NEW count \in 0..MaxCount * Cardinality(Severities),
             record_module_findings(m, count, sc)
      PROVE TypeOK'
  <2>1. count \in Nat /\ \A s \in Severities : sc[s] \in Nat
    BY NamesAssumption
  <2>2. Point(FindingsTotal, "core", m, count) \in DataPoints
    BY <2>1, PointType, NamesAssumption DEF Sources
  <2>3. \A s \in Severities : Point(FindingsBySeverity, "core", m, sc[s]) \in DataPoints
    BY <2>1, PointType, NamesAssumption DEF Sources
  <2>4. data_points' \subseteq DataPoints
    BY <1>5, <2>2, <2>3 DEF TypeOK, record_module_findings, Push
  <2>5. findings_by_severity' \in [Severities -> Nat]
    BY <1>5, <2>1 DEF TypeOK, record_module_findings
  <2>6. module_findings' \in [Modules -> Nat \cup {None}]
    BY <1>5, <2>1 DEF TypeOK, record_module_findings
  <2>7. QED
    BY <1>5, <2>4, <2>5, <2>6 DEF TypeOK, record_module_findings
<1>6. ASSUME NEW n \in 0..MaxCount, set_files_total(n)
      PROVE TypeOK'
  BY <1>6, NamesAssumption DEF TypeOK, set_files_total
<1>7. ASSUME NEW m \in Modules, NEW k \in SummaryKeys,
             record_module_summary_metric(m, k)
      PROVE TypeOK'
  <2>1. Point(<<m, k>>, "core", m, 0) \in DataPoints
    BY PointType DEF Sources
  <2>2. QED
    BY <1>7, <2>1 DEF TypeOK, record_module_summary_metric, Push, counters
<1>8. ASSUME NEW fps \in SUBSET Fingerprints, set_finding_fingerprints(fps)
      PROVE TypeOK'
  BY <1>8 DEF TypeOK, set_finding_fingerprints
<1>9. CASE reset
  BY <1>9 DEF TypeOK, reset, NoMap
<1>10. CASE record_finding_churn
  BY <1>10, <1>2, NamesAssumption DEF record_finding_churn
<1>11. ASSUME NEW n \in EventNames, record_data_points({n})
       PROVE TypeOK'
  BY <1>11, <1>2, NamesContain DEF EventNames
<1>12. QED
  BY <1>1, <1>3, <1>4, <1>5, <1>6, <1>7, <1>8, <1>9, <1>10, <1>11 DEF InProcess

LEMMA IngressTypeOK ==
    ASSUME NEW names \in SUBSET ExternalNames, TypeOK, Ingress(names)
    PROVE  TypeOK'
<1> USE NamesContain
<1>1. CASE register_untrusted_metrics(names)
  BY <1>1 DEF TypeOK, register_untrusted_metrics, counters, Sources
<1>2. CASE record_untrusted_data_points(names)
  <2>1. {Point(n, "external", None, 0) : n \in names} \subseteq DataPoints
    BY PointType DEF Sources
  <2>2. QED
    BY <1>2, <2>1 DEF TypeOK, record_untrusted_data_points, Push, counters
<1>3. CASE record_untrusted_spans(names)
  BY <1>3 DEF TypeOK, record_untrusted_spans, Spans, Sources, counters
<1>4. QED
  BY <1>1, <1>2, <1>3 DEF Ingress

\* The stored state always has the shape of CollectorInner.
THEOREM TypeCorrect == Spec => []TypeOK
<1>1. TypeOK /\ [Next]_vars => TypeOK'
  <2> SUFFICES ASSUME TypeOK, [Next]_vars PROVE TypeOK'
    OBVIOUS
  <2>1. CASE Next
    BY <2>1, InProcessTypeOK, IngressTypeOK DEF Next
  <2>2. CASE UNCHANGED vars
    BY <2>2 DEF TypeOK, vars, counters
  <2>3. QED
    BY <2>1, <2>2
<1>2. QED
  BY InitTypeOK, <1>1, PTL DEF Spec

-----------------------------------------------------------------------------
(* Provenance *)

LEMMA InitProvenance == Init => ProvenanceTracked
BY NamesAssumption DEF Init, ProvenanceTracked

LEMMA InProcessProvenance ==
    ASSUME TypeOK, ProvenanceTracked, InProcess
    PROVE  ProvenanceTracked'
<1>1. \A n, src, m, v : Point(n, src, m, v).src = src /\ Point(n, src, m, v).name = n
  BY DEF Point
<1>2. ASSUME NEW names, record_data_points(names)
      PROVE ProvenanceTracked'
  BY <1>1, <1>2 DEF ProvenanceTracked, record_data_points, Push
<1>3. CASE register_core_metrics
  BY <1>3 DEF ProvenanceTracked, register_core_metrics, register_metrics
<1>4. ASSUME NEW n \in OperatorNames, record_spans({n})
      PROVE ProvenanceTracked'
  BY <1>4 DEF ProvenanceTracked, record_spans
<1>5. ASSUME NEW m \in Modules, NEW d \in Durations, NEW e \in BOOLEAN,
             record_module_call(m, d, e)
      PROVE ProvenanceTracked'
  <2>1. \A p \in data_points' \ data_points : p.src = "core"
    BY <1>1, <1>5 DEF record_module_call, Push
  <2>2. QED
    BY <1>5, <2>1 DEF ProvenanceTracked, record_module_call
<1>6. ASSUME NEW m \in Modules, NEW sc, NEW count, record_module_findings(m, count, sc)
      PROVE ProvenanceTracked'
  <2>1. \A p \in data_points' \ data_points : p.src = "core"
    BY <1>1, <1>6 DEF record_module_findings, Push
  <2>2. QED
    BY <1>6, <2>1 DEF ProvenanceTracked, record_module_findings
<1>7. ASSUME NEW n \in 0..MaxCount, set_files_total(n)
      PROVE ProvenanceTracked'
  BY <1>7 DEF ProvenanceTracked, set_files_total
<1>8. ASSUME NEW m \in Modules, NEW k \in SummaryKeys,
             record_module_summary_metric(m, k)
      PROVE ProvenanceTracked'
  BY <1>1, <1>8 DEF ProvenanceTracked, record_module_summary_metric, Push
<1>9. ASSUME NEW fps \in SUBSET Fingerprints, set_finding_fingerprints(fps)
      PROVE ProvenanceTracked'
  BY <1>9 DEF ProvenanceTracked, set_finding_fingerprints
<1>10. CASE reset
  BY <1>10, NamesAssumption DEF ProvenanceTracked, reset
<1>11. CASE record_finding_churn
  BY <1>11, <1>2 DEF record_finding_churn
<1>12. QED
  BY <1>2, <1>3, <1>4, <1>5, <1>6, <1>7, <1>8, <1>9, <1>10, <1>11 DEF InProcess

LEMMA IngressProvenance ==
    ASSUME NEW names \in SUBSET ExternalNames, TypeOK, ProvenanceTracked, Ingress(names)
    PROVE  ProvenanceTracked'
<1>1. CASE register_untrusted_metrics(names)
  BY <1>1 DEF ProvenanceTracked, register_untrusted_metrics
<1>2. CASE record_untrusted_data_points(names)
  <2>1. \A p \in data_points' \ data_points : p.name \in names
    BY <1>2 DEF record_untrusted_data_points, Push, Point
  <2>2. QED
    BY <1>2, <2>1 DEF ProvenanceTracked, record_untrusted_data_points
<1>3. CASE record_untrusted_spans(names)
  BY <1>3 DEF ProvenanceTracked, record_untrusted_spans
<1>4. QED
  BY <1>1, <1>2, <1>3 DEF Ingress

\* Every name that came in over gRPC is marked for as long as anything stored
\* under it could have come from there.
THEOREM ProvenanceIsTracked == Spec => []ProvenanceTracked
<1>1. TypeOK /\ ProvenanceTracked /\ [Next]_vars => ProvenanceTracked'
  <2> SUFFICES ASSUME TypeOK, ProvenanceTracked, [Next]_vars PROVE ProvenanceTracked'
    OBVIOUS
  <2>1. CASE Next
    BY <2>1, InProcessProvenance, IngressProvenance DEF Next
  <2>2. CASE UNCHANGED vars
    BY <2>2 DEF ProvenanceTracked, vars
  <2>3. QED
    BY <2>1, <2>2
<1>2. QED
  BY InitProvenance, <1>1, TypeCorrect, PTL DEF Spec

-----------------------------------------------------------------------------
(* What a projection lets through *)

\* A restricted audience has at most one of the two scopes.
LEMMA RestrictedAudience ==
    ASSUME NEW audience \in Audiences \ {"On"}
    PROVE  ~ (user_enabled(audience) /\ operator_enabled(audience))
BY DEF Audiences, user_enabled, operator_enabled

\* Under a restricted audience, an untrusted name is admitted nowhere.
LEMMA UntrustedIsWithheld ==
    ASSUME NEW audience \in Audiences \ {"On"}, NEW untrusted, NEW name \in untrusted
    PROVE  /\ ~ admit(untrusted, audience, name)
           /\ \A span : span.name = name => ~ admit_span(untrusted, audience, span)
BY RestrictedAudience DEF admit, admit_span

LEMMA ProvenanceRestrictsViews ==
    ASSUME TypeOK, ProvenanceTracked
    PROVE  RestrictedViewsAreInProcess
<1> SUFFICES ASSUME NEW audience \in Audiences \ {"On"}
             PROVE  /\ \A p \in View(audience).data_points \cup View(audience).spans :
                          p.src = "core"
                    /\ \A n \in Names : View(audience).definitions[n] # "external"
  BY DEF RestrictedViewsAreInProcess
<1>1. ASSUME NEW p \in View(audience).data_points
      PROVE  p.src = "core"
  <2>1. p \in data_points /\ admit(untrusted_runtime, audience, p.name)
    BY DEF View, project_for_audience, snapshot
  <2>2. p.name \notin untrusted_runtime
    BY <2>1, UntrustedIsWithheld
  <2>3. p.src \in Sources
    BY <2>1 DEF TypeOK, DataPoints
  <2>4. QED
    BY <2>1, <2>2, <2>3 DEF ProvenanceTracked, Sources
<1>2. ASSUME NEW s \in View(audience).spans
      PROVE  s.src = "core"
  <2>1. s \in spans /\ admit_span(untrusted_runtime, audience, s)
    BY DEF View, project_for_audience, snapshot
  <2>2. s.name \notin untrusted_runtime
    BY <2>1, UntrustedIsWithheld
  <2>3. s.src \in Sources
    BY <2>1 DEF TypeOK, Spans
  <2>4. QED
    BY <2>1, <2>2, <2>3 DEF ProvenanceTracked, Sources
<1>3. ASSUME NEW n \in Names
      PROVE  View(audience).definitions[n] # "external"
  <2>1. View(audience).definitions[n] =
          IF admit(untrusted_runtime, audience, n) THEN definitions[n] ELSE None
    BY DEF View, project_for_audience, snapshot
  <2>2. CASE n \in untrusted_runtime
    BY <2>1, <2>2, UntrustedIsWithheld, NamesAssumption
  <2>3. CASE n \notin untrusted_runtime
    BY <2>1, <2>3, NamesAssumption DEF ProvenanceTracked
  <2>4. QED
    BY <2>2, <2>3
<1>4. QED
  BY <1>1, <1>2, <1>3

\* The privacy boundary: no audience but On is ever shown a point, span or
\* definition that an external module produced, whatever name it chose.
THEOREM ExternalDataStaysUnrestricted == Spec => []RestrictedViewsAreInProcess
BY TypeCorrect, ProvenanceIsTracked, ProvenanceRestrictsViews, PTL

LEMMA TrackedPointsAreOwed == ProvenanceTracked => UserIsOwedInProcessPoints
<1> SUFFICES ASSUME ProvenanceTracked, NEW p \in data_points,
                    is_known_user(p.name), p.name \notin submitted
             PROVE  p \in View("UserOnly").data_points
  BY DEF UserIsOwedInProcessPoints
<1>1. admit(untrusted_runtime, "UserOnly", p.name)
  BY DEF admit, user_enabled, ProvenanceTracked
<1>2. QED
  BY <1>1 DEF View, project_for_audience, snapshot

\* The other direction of the boundary: failing closed costs the user nothing
\* but the names an external module used.
THEOREM UserKeepsInProcessPoints == Spec => []UserIsOwedInProcessPoints
BY ProvenanceIsTracked, TrackedPointsAreOwed, PTL

-----------------------------------------------------------------------------
(* Projecting twice *)

SummaryEntries == [duration_ms : Nat, finding_count : Nat, metrics : SUBSET SummaryKeys]

LEMMA SummariesType ==
    ASSUME TypeOK, NEW m \in Modules
    PROVE  module_summaries[m] \in SummaryEntries \cup {None}
BY OrZeroType DEF TypeOK, module_summaries, summary_metrics, SummaryEntries

LEMMA ScrubbedEntry ==
    ASSUME NEW entry \in SummaryEntries \cup {None}
    PROVE  /\ scrub_entry(entry) \in SummaryEntries \cup {None}
           /\ scrub_entry(scrub_entry(entry)) = scrub_entry(entry)
<1>1. CASE entry = None
  BY <1>1 DEF scrub_entry
<1>2. CASE entry # None /\ entry \in SummaryEntries
  <2> DEFINE scrubbed == [entry EXCEPT !.duration_ms = 0]
  <2>1. /\ scrubbed \in SummaryEntries
        /\ scrubbed.finding_count = entry.finding_count
        /\ scrubbed.metrics = entry.metrics
        /\ [scrubbed EXCEPT !.duration_ms = 0] = scrubbed
    BY <1>2 DEF SummaryEntries
  <2>2. CASE entry.finding_count = 0 /\ entry.metrics = {}
    BY <1>2, <2>2 DEF scrub_entry
  <2>3. CASE ~ (entry.finding_count = 0 /\ entry.metrics = {})
    <3>1. scrub_entry(entry) = scrubbed
      BY <1>2, <2>3 DEF scrub_entry
    <3>2. scrub_entry(scrubbed) = scrubbed
      BY <2>1, <2>3 DEF scrub_entry
    <3>3. QED
      BY <3>1, <3>2, <2>1
  <2>4. QED
    BY <2>2, <2>3
<1>3. QED
  BY <1>1, <1>2

LEMMA ScrubTwice ==
    ASSUME TypeOK
    PROVE  scrub_module_summaries(scrub_module_summaries(module_summaries))
             = scrub_module_summaries(module_summaries)
BY SummariesType, ScrubbedEntry DEF scrub_module_summaries

\* Projecting to On hands out the snapshot itself.
LEMMA OnIsEverything == TypeOK => View("On") = snapshot
<1> SUFFICES ASSUME TypeOK PROVE View("On") = snapshot
  OBVIOUS
<1>1. user_enabled("On") /\ operator_enabled("On")
  BY DEF user_enabled, operator_enabled
<1>2. \A untrusted, n : admit(untrusted, "On", n)
  BY <1>1 DEF admit
<1>3. \A untrusted, s : admit_span(untrusted, "On", s)
  BY <1>1 DEF admit_span
<1>4. definitions = [n \in Names |-> definitions[n]]
  BY DEF TypeOK
<1>5. QED
  BY <1>1, <1>2, <1>3, <1>4
     DEF View, project_for_audience, project_user_summary, snapshot

\* Two projections with the same fields are equal.
LEMMA ProjectionFields ==
    ASSUME NEW s, NEW t, NEW audience,
           LET x == project_for_audience(s, audience)
               y == project_for_audience(t, audience)
           IN  /\ x.definitions = y.definitions
               /\ x.data_points = y.data_points
               /\ x.spans = y.spans
               /\ x.user_summary = y.user_summary
               /\ x.operator_summary = y.operator_summary
               /\ x.untrusted_runtime = y.untrusted_runtime
    PROVE  project_for_audience(s, audience) = project_for_audience(t, audience)
BY DEF project_for_audience

LEMMA UserSummaryTwice ==
    ASSUME TypeOK, NEW audience \in Audiences
    PROVE  LET once == project_user_summary(snapshot.user_summary, audience)
           IN  project_user_summary(once, audience) = once
<1> DEFINE once == project_user_summary(snapshot.user_summary, audience)
           Summary(summaries) ==
               [files_total          |-> files_total,
                findings_by_severity |-> findings_by_severity,
                findings_by_module   |-> module_findings,
                module_summaries     |-> summaries]
<1>1. snapshot.user_summary = Summary(module_summaries)
  BY DEF snapshot
<1>2. CASE ~ user_enabled(audience)
  BY <1>2 DEF project_user_summary
<1>3. CASE user_enabled(audience) /\ operator_enabled(audience)
  BY <1>3 DEF project_user_summary
<1>4. CASE user_enabled(audience) /\ ~ operator_enabled(audience)
  <2>1. \A sums : project_user_summary(Summary(sums), audience)
                    = Summary(scrub_module_summaries(sums))
    BY <1>4 DEF project_user_summary
  <2>2. once = Summary(scrub_module_summaries(module_summaries))
    BY <1>1, <2>1
  <2> HIDE DEF once
  <2>3. project_user_summary(once, audience) = once
    BY <2>1, <2>2, ScrubTwice
  <2>4. QED
    BY <2>3 DEF once
<1>5. QED
  BY <1>2, <1>3, <1>4

LEMMA ProjectingTwice ==
    ASSUME TypeOK, NEW audience \in Audiences
    PROVE  project_for_audience(View(audience), audience) = View(audience)
<1> DEFINE view == View(audience)
           again == project_for_audience(view, audience)
<1>1. again.untrusted_runtime = view.untrusted_runtime
      /\ view.untrusted_runtime = untrusted_runtime
  BY DEF View, project_for_audience, snapshot
<1>2. again.data_points = view.data_points
  BY <1>1 DEF View, project_for_audience, snapshot
<1>3. again.spans = view.spans
  BY <1>1 DEF View, project_for_audience, snapshot
<1>4. again.definitions = view.definitions
  BY <1>1 DEF View, project_for_audience, snapshot
<1>5. again.operator_summary = view.operator_summary
  BY DEF View, project_for_audience, snapshot
<1>6. again.user_summary = view.user_summary
  <2>1. view.user_summary = project_user_summary(snapshot.user_summary, audience)
        /\ again.user_summary = project_user_summary(view.user_summary, audience)
    BY DEF View, project_for_audience
  <2>2. QED
    BY <2>1, UserSummaryTwice
<1>7. view = project_for_audience(snapshot, audience)
  BY DEF View
<1> HIDE DEF view
<1>8. project_for_audience(view, audience) = project_for_audience(snapshot, audience)
  BY <1>1, <1>2, <1>3, <1>4, <1>5, <1>6, <1>7, ProjectionFields
<1>9. QED
  BY <1>7, <1>8 DEF view

LEMMA TypesMakeReprojectionStable == TypeOK => ReprojectionIsStable
<1> SUFFICES ASSUME TypeOK, NEW audience \in Audiences
             PROVE  /\ project_for_audience(View(audience), audience) = View(audience)
                    /\ project_for_audience(View("On"), audience) = View(audience)
  BY DEF ReprojectionIsStable
<1>1. project_for_audience(View("On"), audience) = View(audience)
  BY OnIsEverything DEF View
<1>2. QED
  BY <1>1, ProjectingTwice

\* A snapshot that was already projected, or passed through an unrestricted
\* sink first, projects to the same view.
THEOREM ReprojectionIsAlwaysStable == Spec => []ReprojectionIsStable
BY TypeCorrect, TypesMakeReprojectionStable, PTL

-----------------------------------------------------------------------------
(* What the user-only view depends on *)

\* The user-only view, written from what is owed to the user alone.
ReadsOf(facing) ==
    <<facing.points,
      [files_total          |-> facing.findings[1],
       findings_by_severity |-> facing.findings[2],
       findings_by_module   |-> facing.findings[3],
       module_summaries     |->
           [m \in Modules |->
               IF m \in facing.shown
               THEN [duration_ms   |-> 0,
                     finding_count |-> OrZero(facing.findings[3][m]),
                     metrics       |-> {k \in SummaryKeys : \E p \in facing.points : p.name = <<m, k>>}]
               ELSE None]],
      {}, DefaultOperatorSummary>>

LEMMA SummaryNamesAreUserFacing ==
    ASSUME NEW m \in Modules, NEW k \in SummaryKeys
    PROVE  is_known_user(<<m, k>>)
BY NamesAssumption DEF is_known_user, is_operator, is_per_module_summary_shape, SummaryNames

LEMMA UserMetrics ==
    ASSUME NEW m \in Modules
    PROVE  summary_metrics(m) = {k \in SummaryKeys : \E p \in UserFacing.points : p.name = <<m, k>>}
<1>1. UserFacing.points = {p \in data_points : p.name \notin untrusted_runtime /\ is_known_user(p.name)}
  BY DEF UserFacing
<1>2. QED
  BY <1>1, SummaryNamesAreUserFacing DEF summary_metrics

\* Scrubbing an entry of a module that was timed for duration, or never.
LEMMA ScrubbedFor ==
    ASSUME NEW duration \in Nat \cup {None}, NEW count \in Nat, NEW metrics \in SUBSET SummaryKeys
    PROVE  scrub_entry(IF duration = None THEN None
                       ELSE [duration_ms |-> duration, finding_count |-> count, metrics |-> metrics]) =
               IF duration # None /\ (count # 0 \/ metrics # {})
               THEN [duration_ms |-> 0, finding_count |-> count, metrics |-> metrics]
               ELSE None
<1> DEFINE entry == [duration_ms |-> duration, finding_count |-> count, metrics |-> metrics]
<1>1. CASE duration = None
  BY <1>1 DEF scrub_entry
<1>2. CASE duration # None
  <2>1. entry # None
    <3>1. entry \in SummaryEntries
      BY <1>2 DEF SummaryEntries
    <3>2. None \notin SummaryEntries
      BY EntriesAssumption DEF SummaryEntries
    <3> HIDE DEF entry
    <3>3. QED
      BY <3>1, <3>2
  <2>2. [entry EXCEPT !.duration_ms = 0] = [duration_ms |-> 0, finding_count |-> count, metrics |-> metrics]
    OBVIOUS
  <2>3. entry.finding_count = count /\ entry.metrics = metrics
    OBVIOUS
  <2>4. scrub_entry(entry) = IF count = 0 /\ metrics = {} THEN None
                             ELSE [duration_ms |-> 0, finding_count |-> count, metrics |-> metrics]
    <3> HIDE DEF entry
    <3>1. QED
      BY <2>1, <2>2, <2>3 DEF scrub_entry
  <2>5. QED
    BY <1>2, <2>4
<1>3. QED
  BY <1>1, <1>2

LEMMA UserEntries ==
    ASSUME TypeOK, NEW m \in Modules
    PROVE  scrub_entry(module_summaries[m]) =
               IF m \in UserFacing.shown
               THEN [duration_ms   |-> 0,
                     finding_count |-> OrZero(module_findings[m]),
                     metrics       |-> summary_metrics(m)]
               ELSE None
<1>1. /\ module_durations[m] \in Nat \cup {None}
      /\ OrZero(module_findings[m]) \in Nat
      /\ summary_metrics(m) \in SUBSET SummaryKeys
  BY OrZeroType DEF TypeOK, summary_metrics
<1>2. module_summaries[m] =
          IF module_durations[m] = None THEN None
          ELSE [duration_ms   |-> module_durations[m],
                finding_count |-> OrZero(module_findings[m]),
                metrics       |-> summary_metrics(m)]
  BY DEF module_summaries
<1>3. m \in UserFacing.shown <=> /\ module_durations[m] # None
                                 /\ OrZero(module_findings[m]) # 0 \/ summary_metrics(m) # {}
  BY DEF UserFacing
<1> DEFINE duration == module_durations[m]
           count    == OrZero(module_findings[m])
           metrics  == summary_metrics(m)
           owed     == m \in UserFacing.shown
<1> HIDE DEF duration, count, metrics, owed
<1>4. scrub_entry(IF duration = None THEN None
                  ELSE [duration_ms |-> duration, finding_count |-> count, metrics |-> metrics])
        = IF owed THEN [duration_ms |-> 0, finding_count |-> count, metrics |-> metrics] ELSE None
  <2>1. duration \in Nat \cup {None} /\ count \in Nat /\ metrics \in SUBSET SummaryKeys
    BY <1>1 DEF duration, count, metrics
  <2>2. owed <=> duration # None /\ (count # 0 \/ metrics # {})
    BY <1>3 DEF duration, count, metrics, owed
  <2>3. QED
    BY <2>1, <2>2, ScrubbedFor
<1>5. QED
  BY <1>2, <1>4 DEF duration, count, metrics, owed

LEMMA UserReadsWhatIsOwed == TypeOK => UserReads = ReadsOf(UserFacing)
<1> SUFFICES ASSUME TypeOK PROVE UserReads = ReadsOf(UserFacing)
  OBVIOUS
<1>1. user_enabled("UserOnly") /\ ~ operator_enabled("UserOnly")
  BY DEF user_enabled, operator_enabled
<1>2. View("UserOnly").data_points = UserFacing.points
  BY <1>1 DEF View, project_for_audience, snapshot, UserFacing, admit
<1>3. View("UserOnly").spans = {} /\ View("UserOnly").operator_summary = DefaultOperatorSummary
  BY <1>1 DEF View, project_for_audience, snapshot, admit_span
<1>4. UserFacing.findings = <<files_total, findings_by_severity, module_findings>>
  BY DEF UserFacing
<1>5. scrub_module_summaries(module_summaries) =
          [m \in Modules |->
               IF m \in UserFacing.shown
               THEN [duration_ms   |-> 0,
                     finding_count |-> OrZero(UserFacing.findings[3][m]),
                     metrics       |-> {k \in SummaryKeys : \E p \in UserFacing.points : p.name = <<m, k>>}]
               ELSE None]
  <2>1. \A m \in Modules : UserFacing.findings[3][m] = module_findings[m]
    BY <1>4
  <2>2. QED
    BY <2>1, UserEntries, UserMetrics DEF scrub_module_summaries
<1>6. View("UserOnly").user_summary =
          [files_total          |-> files_total,
           findings_by_severity |-> findings_by_severity,
           findings_by_module   |-> module_findings,
           module_summaries     |-> scrub_module_summaries(module_summaries)]
  BY <1>1 DEF View, project_for_audience, snapshot, project_user_summary
<1>7. QED
  BY <1>2, <1>3, <1>4, <1>5, <1>6 DEF UserReads, ReadsOf

\* Whatever is recorded of calls, errors, start-up and spans: as long as what the
\* user is owed stays the same, so does every part of the user's view.
THEOREM OperatorDataStaysInvisible == Spec => OperatorDataIsInvisibleToUser
<1> DEFINE Determined == UserReads = ReadsOf(UserFacing)
<1>1. TypeOK => Determined
  BY UserReadsWhatIsOwed
<1>2. Determined /\ Determined' => (UserFacing' = UserFacing => UserReads' = UserReads)
  BY DEF ReadsOf, DefaultOperatorSummary, NoMap, OrZero
<1> HIDE DEF Determined
<1>3. QED
  BY <1>1, <1>2, TypeCorrect, PTL DEF OperatorDataIsInvisibleToUser

-----------------------------------------------------------------------------
(* What an external submission can do to a restricted view *)

\* What is admitted while more names are untrusted was admitted before, and is none of them.
LEMMA AdmittedBefore ==
    ASSUME NEW audience \in Audiences \ {"On"}, NEW untrusted, NEW names, NEW name,
           admit(untrusted \cup names, audience, name)
    PROVE  admit(untrusted, audience, name) /\ name \notin names
BY RestrictedAudience DEF admit

LEMMA SpanAdmittedBefore ==
    ASSUME NEW audience \in Audiences \ {"On"}, NEW untrusted, NEW names, NEW span,
           admit_span(untrusted \cup names, audience, span)
    PROVE  admit_span(untrusted, audience, span) /\ span.name \notin names
BY RestrictedAudience DEF admit_span

\* What every ingress method does: it marks its names, and all that it adds or
\* replaces bears one of them.
LEMMA IngressMarks ==
    ASSUME NEW names \in SUBSET ExternalNames, TypeOK, Ingress(names)
    PROVE  /\ untrusted_runtime' = untrusted_runtime \cup names
           /\ data_points \subseteq data_points' /\ \A p \in data_points' \ data_points : p.name \in names
           /\ \A s \in spans' \ spans : s.name \in names
           /\ \A n \in Names \ names : definitions'[n] = definitions[n]
           /\ UNCHANGED counters
<1>1. CASE register_untrusted_metrics(names)
  BY <1>1 DEF register_untrusted_metrics
<1>2. CASE record_untrusted_data_points(names)
  BY <1>2 DEF record_untrusted_data_points, Push, Point
<1>3. CASE record_untrusted_spans(names)
  BY <1>3 DEF record_untrusted_spans
<1>4. QED
  BY <1>1, <1>2, <1>3 DEF Ingress

LEMMA IngressNarrowsMetrics ==
    ASSUME NEW names \in SUBSET ExternalNames, TypeOK, Ingress(names), NEW m \in Modules
    PROVE  summary_metrics(m)' \subseteq summary_metrics(m)
<1>1. summary_metrics(m)' = {k \in SummaryKeys : /\ <<m, k>> \notin untrusted_runtime'
                                                 /\ \E p \in data_points' : p.name = <<m, k>>}
  BY DEF summary_metrics
<1>2. QED
  BY <1>1, IngressMarks DEF summary_metrics

LEMMA IngressNarrowsEntries ==
    ASSUME NEW names \in SUBSET ExternalNames, TypeOK, Ingress(names), NEW m \in Modules
    PROVE  \/ scrub_entry(module_summaries[m])' = None
           \/ /\ scrub_entry(module_summaries[m]) # None
              /\ scrub_entry(module_summaries[m])'.metrics \subseteq scrub_entry(module_summaries[m]).metrics
              /\ scrub_entry(module_summaries[m])'.finding_count = scrub_entry(module_summaries[m]).finding_count
<1> DEFINE Entry(metrics) == [duration_ms |-> 0, finding_count |-> OrZero(module_findings[m]), metrics |-> metrics]
           Shows(metrics) == module_durations[m] # None /\ (OrZero(module_findings[m]) # 0 \/ metrics # {})
<1>0. /\ module_durations[m] \in Nat \cup {None}
      /\ OrZero(module_findings[m]) \in Nat
      /\ summary_metrics(m) \in SUBSET SummaryKeys /\ summary_metrics(m)' \in SUBSET SummaryKeys
  BY OrZeroType DEF TypeOK, summary_metrics
<1>1. scrub_entry(module_summaries[m]) = IF Shows(summary_metrics(m)) THEN Entry(summary_metrics(m)) ELSE None
  <2>1. module_summaries[m] =
            IF module_durations[m] = None THEN None
            ELSE [duration_ms   |-> module_durations[m],
                  finding_count |-> OrZero(module_findings[m]),
                  metrics       |-> summary_metrics(m)]
    BY DEF module_summaries
  <2>2. QED
    BY <2>1, <1>0, ScrubbedFor
<1>2. scrub_entry(module_summaries[m])' = IF Shows(summary_metrics(m)') THEN Entry(summary_metrics(m)') ELSE None
  <2>1. UNCHANGED <<module_durations, module_findings>>
    BY IngressMarks DEF counters
  <2>2. (module_summaries[m])' =
            IF module_durations[m] = None THEN None
            ELSE [duration_ms   |-> module_durations[m],
                  finding_count |-> OrZero(module_findings[m]),
                  metrics       |-> summary_metrics(m)']
    BY <2>1 DEF module_summaries, OrZero
  <2>3. scrub_entry(module_summaries[m])' = scrub_entry((module_summaries[m])')
    BY DEF scrub_entry
  <2>4. QED
    BY <2>2, <2>3, <1>0, ScrubbedFor
<1>3. summary_metrics(m)' \subseteq summary_metrics(m)
  BY IngressNarrowsMetrics
<1>4. summary_metrics(m) \subseteq SummaryKeys /\ OrZero(module_findings[m]) \in Nat
  BY OrZeroType DEF summary_metrics, TypeOK
<1>5. Entry(summary_metrics(m)) # None
  BY <1>4, EntriesAssumption
<1>6. QED
  BY <1>1, <1>2, <1>3, <1>5

LEMMA IngressNarrowsViews ==
    ASSUME NEW names \in SUBSET ExternalNames, TypeOK, Ingress(names),
           NEW audience \in {"UserOnly", "OperatorOnly", "Off"},
           NEW old, old = View(audience), NEW new, new = View(audience)'
    PROVE  NarrowerView(new, old)
<1> audience \in Audiences \ {"On"}
  BY DEF Audiences
<1>1. /\ old.data_points = {p \in data_points : admit(untrusted_runtime, audience, p.name)}
      /\ old.spans = {s \in spans : admit_span(untrusted_runtime, audience, s)}
      /\ old.definitions = [n \in Names |-> IF admit(untrusted_runtime, audience, n) THEN definitions[n] ELSE None]
      /\ old.operator_summary = IF operator_enabled(audience)
                                THEN [module_call_durations |-> module_durations, module_error_counts |-> module_errors]
                                ELSE DefaultOperatorSummary
  BY DEF View, project_for_audience, snapshot
<1>2. /\ new.data_points = {p \in data_points' : admit(untrusted_runtime \cup names, audience, p.name)}
      /\ new.spans = {s \in spans' : admit_span(untrusted_runtime \cup names, audience, s)}
      /\ new.definitions = [n \in Names |-> IF admit(untrusted_runtime \cup names, audience, n)
                                            THEN definitions'[n] ELSE None]
      /\ new.operator_summary = old.operator_summary
  <2>1. /\ new.data_points = {p \in data_points' : admit(untrusted_runtime', audience, p.name)}
        /\ new.spans = {s \in spans' : admit_span(untrusted_runtime', audience, s)}
        /\ new.definitions = [n \in Names |-> IF admit(untrusted_runtime', audience, n) THEN definitions'[n] ELSE None]
        /\ new.operator_summary = IF operator_enabled(audience)
                                  THEN [module_call_durations |-> module_durations', module_error_counts |-> module_errors']
                                  ELSE DefaultOperatorSummary
    BY DEF View, project_for_audience, snapshot, admit, admit_span, is_operator, is_known_user,
           is_per_module_summary_shape, user_enabled, operator_enabled, DefaultOperatorSummary, NoMap
  <2>2. untrusted_runtime' = untrusted_runtime \cup names /\ UNCHANGED <<module_durations, module_errors>>
    BY IngressMarks DEF counters
  <2>3. QED
    BY <1>1, <2>1, <2>2
<1>3. new.data_points \subseteq old.data_points
  <2> SUFFICES ASSUME NEW x \in new.data_points PROVE x \in old.data_points
    OBVIOUS
  <2>1. x \in data_points' /\ admit(untrusted_runtime \cup names, audience, x.name)
    BY <1>2
  <2>2. admit(untrusted_runtime, audience, x.name) /\ x.name \notin names
    BY <2>1, AdmittedBefore
  <2>3. x \in data_points
    BY <2>1, <2>2, IngressMarks
  <2>4. QED
    BY <1>1, <2>2, <2>3
<1>4. new.spans \subseteq old.spans
  <2> SUFFICES ASSUME NEW x \in new.spans PROVE x \in old.spans
    OBVIOUS
  <2>1. x \in spans' /\ admit_span(untrusted_runtime \cup names, audience, x)
    BY <1>2
  <2>2. admit_span(untrusted_runtime, audience, x) /\ x.name \notin names
    BY <2>1, SpanAdmittedBefore
  <2>3. x \in spans
    BY <2>1, <2>2, IngressMarks
  <2>4. QED
    BY <1>1, <2>2, <2>3
<1>5. \A n \in Names : new.definitions[n] \in {None, old.definitions[n]}
  BY <1>1, <1>2, IngressMarks, AdmittedBefore
<1>6. NarrowerSummary(new.user_summary, old.user_summary)
  <2>1. CASE audience = "UserOnly"
    <3>1. /\ old.user_summary.findings_by_module = module_findings
          /\ old.user_summary.module_summaries = [m \in Modules |-> scrub_entry(module_summaries[m])]
      BY <2>1 DEF View, project_for_audience, snapshot, project_user_summary, user_enabled, operator_enabled,
                  scrub_module_summaries
    <3>2. /\ new.user_summary.findings_by_module = module_findings'
          /\ new.user_summary.module_summaries = [m \in Modules |-> scrub_entry(module_summaries[m])']
      BY <2>1 DEF View, project_for_audience, snapshot, project_user_summary, user_enabled, operator_enabled,
                  scrub_module_summaries
    <3>3. module_findings' = module_findings
      BY IngressMarks DEF counters
    <3>4. QED
      BY <3>1, <3>2, <3>3, IngressNarrowsEntries DEF NarrowerSummary
  <2>2. CASE audience # "UserOnly"
    <3>1. old.user_summary = DefaultUserSummary /\ new.user_summary = DefaultUserSummary
      BY <2>2 DEF View, project_for_audience, project_user_summary, user_enabled, DefaultUserSummary, NoMap
    <3>2. QED
      BY <3>1 DEF NarrowerSummary, DefaultUserSummary, NoMap
  <2>3. QED
    BY <2>1, <2>2
<1>7. QED
  BY <1>2, <1>3, <1>4, <1>5, <1>6 DEF NarrowerView

\* Whatever an external module submits, under whatever names and at whatever time,
\* it can only take entries with its own names out of a restricted view.
THEOREM IngressAlwaysNarrows == Spec => IngressOnlyNarrows
<1>1. TypeOK => ((\E names \in SUBSET ExternalNames : Ingress(names)) =>
                     \A audience \in {"UserOnly", "OperatorOnly", "Off"} :
                         \A old \in {View(audience)}, new \in {View(audience)'} : NarrowerView(new, old))
  BY IngressNarrowsViews
<1>2. QED
  BY <1>1, TypeCorrect, PTL DEF IngressOnlyNarrows

-----------------------------------------------------------------------------
(* Totals *)

LEMMA LeastNumber ==
    ASSUME NEW S, S \subseteq Nat, S # {}
    PROVE  \E c \in S : \A b \in S : c <= b
<1> DEFINE less == OpToRel(<, Nat)
<1>1. IsWellFoundedOn(less, Nat)
  BY NatLessThanWellFounded
<1>2. \A x, y \in Nat : x < y => <<x, y>> \in less
  BY DEF OpToRel
<1> HIDE DEF less
<1>3. PICK c \in S : \A b \in S : ~ (<<b, c>> \in less)
  BY <1>1, WFMin
<1>4. \A b \in S : ~ (b < c)
  BY <1>2, <1>3, Zenon
<1>5. c \in Nat /\ \A b \in S : b \in Nat
  OBVIOUS
<1>6. \A b \in S : c <= b
  BY <1>4, <1>5, SMT
<1>7. QED
  BY <1>6

\* Induction over the parts of a finite set: what holds of a part whenever it
\* holds of the part without any one of its members holds of all.
LEMMA EveryPartFollows ==
    ASSUME NEW keys, IsFiniteSet(keys), NEW good, {} \in good,
           \A part \in SUBSET keys :
              part # {} /\ (\A key \in part : part \ {key} \in good) => part \in good
    PROVE  \A part \in SUBSET keys : part \in good
<1> DEFINE bad == {n \in Nat : \E part \in SUBSET keys : Cardinality(part) = n /\ part \notin good}
<1>1. \A part \in SUBSET keys : IsFiniteSet(part) /\ Cardinality(part) \in Nat
  BY FS_Subset, FS_CardinalityType
<1>2. ASSUME NEW part \in SUBSET keys, part \notin good
      PROVE  FALSE
  <2>1. bad # {} /\ bad \subseteq Nat
    BY <1>1, <1>2
  <2>2. PICK least \in bad : \A n \in bad : least <= n
    <3> HIDE DEF bad
    <3>1. QED
      BY <2>1, LeastNumber
  <2>3. PICK smallest \in SUBSET keys : Cardinality(smallest) = least /\ smallest \notin good
    BY <2>2
  <2>4. smallest # {}
    BY <2>3
  <2>5. PICK key \in smallest : smallest \ {key} \notin good
    BY <2>3, <2>4
  <2>6. Cardinality(smallest \ {key}) = least - 1
    BY <1>1, <2>3, <2>5, FS_RemoveElement
  <2>7. least - 1 \in bad /\ least \in Nat
    BY <1>1, <2>5, <2>6
  <2>8. QED
    BY <2>2, <2>7
<1>3. QED
  BY <1>2

\* The member of a set that the sum takes next.
AnyOf(part) == CHOOSE key \in part : TRUE

Summed(map, sum, part) ==
    IF part = {} THEN 0 ELSE map[AnyOf(part)] + sum[part \ {AnyOf(part)}]

\* The recursion has a solution: one member after the other.
LEMMA TotalsExist ==
    ASSUME NEW keys, IsFiniteSet(keys), NEW map
    PROVE  \E sum : sum = [part \in SUBSET keys |-> Summed(map, sum, part)]
<1> DEFINE Upto(n) == \E sum : /\ sum = [part \in SUBSET keys |-> sum[part]]
                               /\ \A part \in SUBSET keys :
                                     Cardinality(part) <= n => sum[part] = Summed(map, sum, part)
           failing == {n \in Nat : ~ Upto(n)}
<1>1. \A part \in SUBSET keys :
         IsFiniteSet(part) /\ Cardinality(part) \in Nat /\ Cardinality(part) <= Cardinality(keys)
  BY FS_Subset, FS_CardinalityType
<1>2. Upto(0)
  <2> DEFINE sum == [part \in SUBSET keys |-> 0]
  <2>1. \A part \in SUBSET keys : Cardinality(part) <= 0 => part = {}
    BY <1>1, FS_EmptySet
  <2>2. \A part \in SUBSET keys : Cardinality(part) <= 0 => sum[part] = Summed(map, sum, part)
    BY <2>1 DEF Summed
  <2>3. sum = [part \in SUBSET keys |-> sum[part]]
    OBVIOUS
  <2> HIDE DEF sum
  <2>4. QED
    BY <2>2, <2>3
<1>3. ASSUME NEW n \in Nat, Upto(n)
      PROVE  Upto(n + 1)
  <2>1. PICK sum : /\ sum = [part \in SUBSET keys |-> sum[part]]
                   /\ \A part \in SUBSET keys :
                         Cardinality(part) <= n => sum[part] = Summed(map, sum, part)
    BY <1>3
  <2> DEFINE more == [part \in SUBSET keys |->
                         IF Cardinality(part) <= n THEN sum[part] ELSE Summed(map, sum, part)]
  <2>2. more = [part \in SUBSET keys |-> more[part]]
    OBVIOUS
  <2>3. ASSUME NEW part \in SUBSET keys, Cardinality(part) <= n + 1
        PROVE  more[part] = Summed(map, more, part)
    <3>1. more[part] = Summed(map, sum, part)
      BY <2>1
    <3>2. CASE part = {}
      BY <3>1, <3>2 DEF Summed
    <3>3. CASE part # {}
      <4> DEFINE rest == part \ {AnyOf(part)}
      <4>1. AnyOf(part) \in part
        BY <3>3 DEF AnyOf
      <4>2. Cardinality(rest) = Cardinality(part) - 1
        BY <1>1, <4>1, FS_RemoveElement
      <4>3. rest \in SUBSET keys /\ Cardinality(rest) <= n
        BY <1>1, <2>3, <4>2
      <4>4. more[rest] = sum[rest]
        BY <4>3
      <4> HIDE DEF more, rest
      <4>5. QED
        BY <3>1, <3>3, <4>4 DEF Summed, rest
    <3>4. QED
      BY <3>2, <3>3
  <2> HIDE DEF more
  <2>4. QED
    BY <2>2, <2>3
<1> HIDE DEF Upto
<1>4. failing = {}
  <2> SUFFICES ASSUME failing # {}
               PROVE  FALSE
    OBVIOUS
  <2>1. PICK n \in failing : \A k \in failing : n <= k
    <3>1. failing \subseteq Nat
      OBVIOUS
    <3> HIDE DEF failing
    <3>2. QED
      BY <3>1, LeastNumber
  <2>2. n \in Nat /\ n # 0 /\ ~ Upto(n)
    BY <1>2, <2>1
  <2>3. n - 1 \in Nat /\ Upto(n - 1)
    BY <2>1, <2>2
  <2>4. Upto((n - 1) + 1)
    BY <1>3, <2>3
  <2>5. QED
    BY <2>2, <2>4
<1>5. Cardinality(keys) \in Nat
  BY FS_CardinalityType
<1>6. Upto(Cardinality(keys))
  BY <1>4, <1>5
<1>7. PICK sum : /\ sum = [part \in SUBSET keys |-> sum[part]]
                 /\ \A part \in SUBSET keys :
                       Cardinality(part) <= Cardinality(keys) => sum[part] = Summed(map, sum, part)
  BY <1>6 DEF Upto
<1>8. sum = [part \in SUBSET keys |-> Summed(map, sum, part)]
  BY <1>1, <1>7
<1>9. QED
  BY <1>8

\* The totals of all parts of a map's keys.
IsSum(map, keys, sum) ==
    /\ Total(map, keys) = sum[keys]
    /\ \A part \in SUBSET keys : sum[part] = Summed(map, sum, part)

LEMMA TotalIsASum ==
    ASSUME NEW keys, IsFiniteSet(keys), NEW map
    PROVE  \E sum : IsSum(map, keys, sum)
<1> DEFINE solution == CHOOSE sum : sum = [part \in SUBSET keys |-> Summed(map, sum, part)]
<1>1. solution = [part \in SUBSET keys |-> Summed(map, solution, part)]
  BY TotalsExist
<1>2. Total(map, keys) = solution[keys]
  BY Zenon DEF Total, MapThenSumSet, MapThenFoldSet, Summed, AnyOf
<1>3. \A part \in SUBSET keys : solution[part] = Summed(map, solution, part)
  BY <1>1
<1>4. QED
  BY <1>2, <1>3, Zenon DEF IsSum

LEMMA AnyPartIsANumber ==
    ASSUME NEW keys, IsFiniteSet(keys), NEW map \in [keys -> Nat], NEW sum, IsSum(map, keys, sum)
    PROVE  \A part \in SUBSET keys : sum[part] \in Nat
<1> DEFINE good == {part \in SUBSET keys : sum[part] \in Nat}
<1>1. {} \in good
  BY DEF IsSum, Summed
<1>2. ASSUME NEW part \in SUBSET keys, part # {}, \A key \in part : part \ {key} \in good
      PROVE  part \in good
  <2>1. AnyOf(part) \in part
    BY <1>2 DEF AnyOf
  <2>2. sum[part] = map[AnyOf(part)] + sum[part \ {AnyOf(part)}]
    BY <1>2 DEF IsSum, Summed
  <2>3. sum[part \ {AnyOf(part)}] \in Nat /\ map[AnyOf(part)] \in Nat
    BY <1>2, <2>1
  <2>4. QED
    BY <2>2, <2>3
<1> HIDE DEF good
<1>3. \A part \in SUBSET keys : part \in good
  BY <1>1, <1>2, EveryPartFollows
<1>4. QED
  BY <1>3 DEF good

\* Whichever member is taken out first, what is left adds up with it.
LEMMA AnyKeyFirst ==
    ASSUME NEW keys, IsFiniteSet(keys), NEW map \in [keys -> Nat], NEW sum, IsSum(map, keys, sum),
           NEW all \in SUBSET keys, NEW one \in all
    PROVE  sum[all] = map[one] + sum[all \ {one}]
<1> DEFINE good == {part \in SUBSET keys : \A key \in part : sum[part] = map[key] + sum[part \ {key}]}
<1>1. \A part \in SUBSET keys : sum[part] \in Nat
  BY AnyPartIsANumber
<1>2. {} \in good
  OBVIOUS
<1>3. ASSUME NEW part \in SUBSET keys, part # {}, \A key \in part : part \ {key} \in good
      PROVE  part \in good
  <2> DEFINE first == AnyOf(part)
  <2>1. first \in part
    BY <1>3 DEF AnyOf
  <2>2. sum[part] = map[first] + sum[part \ {first}]
    BY <1>3 DEF IsSum, Summed
  <2> HIDE DEF first
  <2>3. ASSUME NEW key \in part, key # first
        PROVE  sum[part] = map[key] + sum[part \ {key}]
    <3> DEFINE rest == part \ {first, key}
    <3>1. sum[part \ {first}] = map[key] + sum[rest]
      <4>1. (part \ {first}) \ {key} = rest
        OBVIOUS
      <4>2. QED
        BY <1>3, <2>1, <2>3, <4>1
    <3>2. sum[part \ {key}] = map[first] + sum[rest]
      <4>1. (part \ {key}) \ {first} = rest
        OBVIOUS
      <4>2. QED
        BY <1>3, <2>1, <2>3, <4>1
    <3>3. sum[rest] \in Nat /\ map[key] \in Nat /\ map[first] \in Nat
      BY <1>1, <2>1
    <3>4. QED
      BY <2>2, <3>1, <3>2, <3>3
  <2>4. QED
    BY <2>2, <2>3
<1> HIDE DEF good
<1>4. \A part \in SUBSET keys : part \in good
  BY <1>2, <1>3, EveryPartFollows
<1>5. QED
  BY <1>4 DEF good

\* Entries added one by one add up to the sum of the totals.
LEMMA TotalsAdd ==
    ASSUME NEW keys, IsFiniteSet(keys), NEW map \in [keys -> Nat], NEW more \in [keys -> Nat]
    PROVE  /\ Total(map, keys) \in Nat
           /\ Total([key \in keys |-> map[key] + more[key]], keys) = Total(map, keys) + Total(more, keys)
<1> DEFINE both == [key \in keys |-> map[key] + more[key]]
<1>1. both \in [keys -> Nat]
  OBVIOUS
<1>2. \A key \in keys : both[key] = map[key] + more[key]
  OBVIOUS
<1> HIDE DEF both
<1>3. PICK sum1 : IsSum(map, keys, sum1)
  BY TotalIsASum
<1>4. PICK sum2 : IsSum(more, keys, sum2)
  BY TotalIsASum
<1>5. PICK sum3 : IsSum(both, keys, sum3)
  BY TotalIsASum
<1> DEFINE good == {part \in SUBSET keys : sum3[part] = sum1[part] + sum2[part]}
<1>6. /\ \A part \in SUBSET keys : sum1[part] \in Nat
      /\ \A part \in SUBSET keys : sum2[part] \in Nat
  <2>1. \A part \in SUBSET keys : sum1[part] \in Nat
    BY <1>3, AnyPartIsANumber
  <2>2. \A part \in SUBSET keys : sum2[part] \in Nat
    BY <1>4, AnyPartIsANumber
  <2>3. QED
    BY <2>1, <2>2
<1>7. {} \in good
  BY <1>3, <1>4, <1>5 DEF IsSum, Summed
<1>8. ASSUME NEW part \in SUBSET keys, part # {}, \A key \in part : part \ {key} \in good
      PROVE  part \in good
  <2>1. AnyOf(part) \in part
    BY <1>8 DEF AnyOf
  <2> DEFINE first == AnyOf(part)
             rest  == part \ {first}
  <2>2. /\ sum1[part] = map[first] + sum1[rest]
        /\ sum2[part] = more[first] + sum2[rest]
        /\ sum3[part] = both[first] + sum3[rest]
    BY <1>3, <1>4, <1>5, <1>8 DEF IsSum, Summed
  <2>3. rest \in good /\ rest \in SUBSET keys
    BY <1>8, <2>1
  <2>4. both[first] = map[first] + more[first] /\ map[first] \in Nat /\ more[first] \in Nat
    BY <1>2, <2>1
  <2>5. sum3[rest] = sum1[rest] + sum2[rest] /\ sum1[rest] \in Nat /\ sum2[rest] \in Nat
    BY <1>6, <2>3
  <2> HIDE DEF first, rest
  <2>6. QED
    BY <2>2, <2>4, <2>5
<1> HIDE DEF good
<1>9. \A part \in SUBSET keys : part \in good
  BY <1>7, <1>8, EveryPartFollows
<1>10. sum3[keys] = sum1[keys] + sum2[keys] /\ sum1[keys] \in Nat
  BY <1>6, <1>9 DEF good
<1>11. QED
  BY <1>3, <1>4, <1>5, <1>10 DEF IsSum, both

\* Another entry changes the total by the difference.
LEMMA TotalWithAnother ==
    ASSUME NEW keys, IsFiniteSet(keys), NEW map \in [keys -> Nat], NEW key \in keys, NEW entry \in Nat
    PROVE  Total([map EXCEPT ![key] = entry], keys) + map[key] = Total(map, keys) + entry
<1> DEFINE other == [map EXCEPT ![key] = entry]
<1>1. /\ other \in [keys -> Nat]
      /\ other[key] = entry
      /\ \A k \in keys \ {key} : other[k] = map[k]
  OBVIOUS
<1> HIDE DEF other
<1>2. PICK sum1 : IsSum(map, keys, sum1)
  BY TotalIsASum
<1>3. PICK sum2 : IsSum(other, keys, sum2)
  BY <1>1, TotalIsASum
<1> DEFINE good == {part \in SUBSET keys : key \notin part => sum1[part] = sum2[part]}
<1>4. {} \in good
  BY <1>2, <1>3 DEF IsSum, Summed
<1>5. ASSUME NEW part \in SUBSET keys, part # {}, \A k \in part : part \ {k} \in good
      PROVE  part \in good
  <2> DEFINE first == AnyOf(part)
             rest  == part \ {first}
  <2>1. first \in part
    BY <1>5 DEF AnyOf
  <2>2. sum1[part] = map[first] + sum1[rest] /\ sum2[part] = other[first] + sum2[rest]
    BY <1>2, <1>3, <1>5 DEF IsSum, Summed
  <2>3. rest \in good /\ (key \notin part => key \notin rest /\ other[first] = map[first])
    BY <1>1, <1>5, <2>1
  <2> HIDE DEF first, rest
  <2>4. QED
    BY <2>2, <2>3
<1> HIDE DEF good
<1>6. \A part \in SUBSET keys : part \in good
  BY <1>4, <1>5, EveryPartFollows
<1>7. keys \ {key} \in SUBSET keys /\ keys \in SUBSET keys
  OBVIOUS
<1>8. sum1[keys \ {key}] = sum2[keys \ {key}]
  BY <1>6, <1>7 DEF good
<1>9. sum1[keys \ {key}] \in Nat
  BY <1>2, <1>7, AnyPartIsANumber
<1>10. sum1[keys] = map[key] + sum1[keys \ {key}]
  <2>1. map \in [keys -> Nat] /\ key \in keys
    OBVIOUS
  <2>2. QED
    BY <1>2, <1>7, <2>1, AnyKeyFirst
<1>11. sum2[keys] = entry + sum2[keys \ {key}]
  BY <1>1, <1>3, <1>7, AnyKeyFirst
<1>12. map[key] \in Nat
  OBVIOUS
<1>13. sum2[keys] + map[key] = sum1[keys] + entry
  BY <1>8, <1>9, <1>10, <1>11, <1>12
<1>14. QED
  BY <1>2, <1>3, <1>13 DEF IsSum, other

\* Nothing recorded adds up to nothing.
LEMMA TotalOfNothing ==
    ASSUME NEW keys, IsFiniteSet(keys)
    PROVE  Total([key \in keys |-> 0], keys) = 0
<1> DEFINE map == [key \in keys |-> 0]
<1>1. map \in [keys -> Nat] /\ [key \in keys |-> map[key] + map[key]] = map
  OBVIOUS
<1> HIDE DEF map
<1>2. /\ Total(map, keys) \in Nat
      /\ Total([key \in keys |-> map[key] + map[key]], keys) = Total(map, keys) + Total(map, keys)
  BY <1>1, TotalsAdd
<1>3. Total(map, keys) = 0
  BY <1>1, <1>2
<1>4. QED
  BY <1>3 DEF map

-----------------------------------------------------------------------------
(* Counters *)

\* Other points leave the count of the errors and their points in step.
NoErrorRecorded ==
    /\ UNCHANGED module_errors
    /\ data_points \subseteq data_points'
    /\ \A p \in data_points' \ data_points : p.name # ErrorTotal \/ p.src # "core"

LEMMA OtherPointsAreNoErrors == ErrorCountsAgree /\ NoErrorRecorded => ErrorCountsAgree'
<1> SUFFICES ASSUME ErrorCountsAgree, NoErrorRecorded PROVE ErrorCountsAgree'
  OBVIOUS
<1>1. \A m \in Modules : ErrorPoints(m)' = ErrorPoints(m)
  BY DEF ErrorPoints, NoErrorRecorded
<1>2. QED
  BY <1>1 DEF ErrorCountsAgree, NoErrorRecorded

\* The error point of a call carries the count the call leaves.
LEMMA CallsCountErrors ==
    ASSUME TypeOK, ErrorCountsAgree, NEW m \in Modules, NEW d, NEW e \in BOOLEAN,
           record_module_call(m, d, e)
    PROVE  ErrorCountsAgree'
<1> DEFINE errors == OrZero(module_errors[m]) + 1
           timing == Point(CallDuration, "core", m, d)
           error  == Point(ErrorTotal, "core", m, errors)
<1>1. CallDuration # ErrorTotal
  BY NamesAssumption
<1>2. timing.name # ErrorTotal
  BY <1>1 DEF Point
<1>3. CASE ~ e
  <2>1. UNCHANGED module_errors /\ data_points' = data_points \cup {timing}
    BY <1>3 DEF record_module_call, Push
  <2> HIDE DEF timing
  <2>2. QED
    BY <1>2, <2>1, OtherPointsAreNoErrors DEF NoErrorRecorded
<1>4. CASE e
  <2>1. /\ module_errors' = [module_errors EXCEPT ![m] = errors]
        /\ data_points' = data_points \cup {timing, error}
    BY <1>4 DEF record_module_call, Push
  <2>2. error.name = ErrorTotal /\ error.src = "core" /\ error.module = m /\ error.value = errors
    BY DEF Point
  <2>3. OrZero(module_errors[m]) \in Nat
    BY OrZeroType DEF TypeOK
  <2>4. OrZero(errors) = errors
    BY <2>3, NamesAssumption DEF OrZero
  <2> HIDE DEF timing, error
  <2>5. ErrorPoints(m)' = ErrorPoints(m) \cup {error}
    BY <1>2, <2>1, <2>2 DEF ErrorPoints
  <2>6. {p.value : p \in ErrorPoints(m)'} = (1..OrZero(module_errors[m])) \cup {errors}
    BY <2>2, <2>5 DEF ErrorCountsAgree
  <2>7. (1..OrZero(module_errors[m])) \cup {errors} = 1..errors
    BY <2>3
  <2>8. OrZero(module_errors[m])' = errors
    BY <2>1, <2>4 DEF TypeOK
  <2>9. ASSUME NEW n \in Modules, n # m
        PROVE  ErrorPoints(n)' = ErrorPoints(n) /\ module_errors'[n] = module_errors[n]
    BY <1>2, <2>1, <2>2, <2>9 DEF ErrorPoints, TypeOK
  <2> HIDE DEF errors
  <2>10. ASSUME NEW n \in Modules
         PROVE  {p.value : p \in ErrorPoints(n)'} = 1..OrZero(module_errors'[n])
    <3>1. CASE n = m
      BY <2>6, <2>7, <2>8, <3>1
    <3>2. CASE n # m
      BY <2>9, <3>2 DEF ErrorCountsAgree
    <3>3. QED
      BY <3>1, <3>2
  <2>11. QED
    BY <2>10 DEF ErrorCountsAgree
<1>5. QED
  BY <1>3, <1>4

\* What a module reports is added to the severities; of its own counts only the
\* last stays.
LEMMA ReportsAreCovered ==
    ASSUME TypeOK, SeverityTotalsCoverModules, NEW m \in Modules,
           NEW sc \in [Severities -> 0..MaxCount], NEW count \in Nat, count = Total(sc, Severities),
           record_module_findings(m, count, sc)
    PROVE  SeverityTotalsCoverModules'
<1> DEFINE found == [k \in Modules |-> OrZero(module_findings[k])]
<1>1. IsFiniteSet(Modules) /\ IsFiniteSet(Severities) /\ 0..MaxCount \subseteq Nat
  BY NamesAssumption
<1>2. /\ findings_by_severity \in [Severities -> Nat]
      /\ sc \in [Severities -> Nat]
      /\ found \in [Modules -> Nat]
  BY <1>1, OrZeroType DEF TypeOK
<1>3. findings_by_severity' = [s \in Severities |-> findings_by_severity[s] + sc[s]]
  BY DEF record_module_findings
<1>4. [k \in Modules |-> OrZero(module_findings'[k])] = [found EXCEPT ![m] = count]
  <2>1. module_findings' = [module_findings EXCEPT ![m] = count]
    BY DEF record_module_findings
  <2>2. OrZero(count) = count
    BY NamesAssumption DEF OrZero
  <2>3. QED
    BY <2>1, <2>2 DEF TypeOK
<1> HIDE DEF found
<1>5. Total(findings_by_severity', Severities) = Total(findings_by_severity, Severities) + count
  BY <1>1, <1>2, <1>3, TotalsAdd
<1>6. Total([found EXCEPT ![m] = count], Modules) + found[m] = Total(found, Modules) + count
  BY <1>1, <1>2, TotalWithAnother
<1>7. /\ Total(findings_by_severity, Severities) \in Nat
      /\ Total(found, Modules) \in Nat
      /\ found[m] \in Nat
  <2>1. Total(findings_by_severity, Severities) \in Nat
    BY <1>1, <1>2, TotalsAdd
  <2>2. Total(found, Modules) \in Nat
    BY <1>1, <1>2, TotalsAdd
  <2>3. QED
    BY <1>2, <2>1, <2>2
<1>8. Total([found EXCEPT ![m] = count], Modules) \in Nat
  <2>1. [found EXCEPT ![m] = count] \in [Modules -> Nat]
    BY <1>2
  <2>2. QED
    BY <1>1, <2>1, TotalsAdd
<1>9. Total(findings_by_severity, Severities) >= Total(found, Modules)
  BY DEF SeverityTotalsCoverModules, found
<1>10. Total(findings_by_severity', Severities) >= Total([found EXCEPT ![m] = count], Modules)
  BY <1>5, <1>6, <1>7, <1>8, <1>9
<1>11. QED
  BY <1>4, <1>10 DEF SeverityTotalsCoverModules

LEMMA ModulesKept ==
    SeverityTotalsCoverModules /\ UNCHANGED <<findings_by_severity, module_findings>>
        => SeverityTotalsCoverModules'
BY DEF SeverityTotalsCoverModules

\* With nothing recorded everything agrees.
LEMMA StartingCounts ==
    (/\ data_points = {} /\ module_errors = NoMap
     /\ module_findings = NoMap /\ findings_by_severity = [s \in Severities |-> 0])
        => CountersAgree
<1> SUFFICES ASSUME data_points = {}, module_errors = NoMap, module_findings = NoMap,
                    findings_by_severity = [s \in Severities |-> 0]
             PROVE  CountersAgree
  OBVIOUS
<1>1. OrZero(None) = 0
  BY DEF OrZero
<1>2. ErrorCountsAgree
  BY <1>1 DEF ErrorCountsAgree, ErrorPoints, NoMap
<1>3. [m \in Modules |-> OrZero(module_findings[m])] = [m \in Modules |-> 0]
  BY <1>1 DEF NoMap
<1>4. /\ Total([s \in Severities |-> 0], Severities) = 0
      /\ Total([m \in Modules |-> 0], Modules) = 0
  BY NamesAssumption, TotalOfNothing
<1>5. SeverityTotalsCoverModules
  BY <1>3, <1>4 DEF SeverityTotalsCoverModules
<1>6. QED
  BY <1>2, <1>5 DEF CountersAgree

LEMMA InProcessCounts == TypeOK /\ CountersAgree /\ InProcess => CountersAgree'
<1> SUFFICES ASSUME TypeOK, ErrorCountsAgree, SeverityTotalsCoverModules, InProcess
             PROVE  ErrorCountsAgree' /\ SeverityTotalsCoverModules'
  BY DEF CountersAgree
<1> USE OtherPointsAreNoErrors, ModulesKept
<1>1. CASE register_core_metrics
  BY <1>1 DEF register_core_metrics, register_metrics, counters, NoErrorRecorded
<1>2. ASSUME NEW names \in SUBSET (Names \ {ErrorTotal}), record_data_points(names)
      PROVE  ErrorCountsAgree' /\ SeverityTotalsCoverModules'
  BY <1>2 DEF record_data_points, Push, Point, counters, NoErrorRecorded
<1>3. ASSUME NEW n \in OperatorNames, record_spans({n})
      PROVE  ErrorCountsAgree' /\ SeverityTotalsCoverModules'
  BY <1>3 DEF record_spans, counters, NoErrorRecorded
<1>4. ASSUME NEW m \in Modules, NEW d \in Durations, NEW e \in BOOLEAN, record_module_call(m, d, e)
      PROVE  ErrorCountsAgree' /\ SeverityTotalsCoverModules'
  <2>1. ErrorCountsAgree'
    BY <1>4, CallsCountErrors
  <2>2. UNCHANGED <<findings_by_severity, module_findings>>
    BY <1>4 DEF record_module_call
  <2>3. QED
    BY <2>1, <2>2
<1>5. ASSUME NEW m \in Modules, NEW sc \in [Severities -> 0..MaxCount],
             NEW count \in 0..MaxCount * Cardinality(Severities),
             count = Total(sc, Severities), record_module_findings(m, count, sc)
      PROVE  ErrorCountsAgree' /\ SeverityTotalsCoverModules'
  <2>1. count \in Nat
    BY NamesAssumption, FS_CardinalityType
  <2>2. SeverityTotalsCoverModules'
    BY <1>5, <2>1, ReportsAreCovered
  <2>3. FindingsTotal # ErrorTotal /\ FindingsBySeverity # ErrorTotal
    BY NamesAssumption
  <2>4. NoErrorRecorded
    BY <1>5, <2>3 DEF record_module_findings, Push, Point, NoErrorRecorded
  <2>5. QED
    BY <2>2, <2>4
<1>6. ASSUME NEW n \in 0..MaxCount, set_files_total(n)
      PROVE  ErrorCountsAgree' /\ SeverityTotalsCoverModules'
  BY <1>6 DEF set_files_total, NoErrorRecorded
<1>7. ASSUME NEW m \in Modules, NEW k \in SummaryKeys, record_module_summary_metric(m, k)
      PROVE  ErrorCountsAgree' /\ SeverityTotalsCoverModules'
  <2>1. <<m, k>> # ErrorTotal
    BY NamesAssumption DEF SummaryNames
  <2>2. QED
    BY <1>7, <2>1 DEF record_module_summary_metric, Push, Point, counters, NoErrorRecorded
<1>8. CASE record_finding_churn
  <2>1. ChurnNames \in SUBSET (Names \ {ErrorTotal})
    BY NamesAssumption, NamesContain
  <2>2. QED
    BY <1>2, <1>8, <2>1 DEF record_finding_churn
<1>9. ASSUME NEW fps \in SUBSET Fingerprints, set_finding_fingerprints(fps)
      PROVE  ErrorCountsAgree' /\ SeverityTotalsCoverModules'
  BY <1>9 DEF set_finding_fingerprints, NoErrorRecorded
<1>10. CASE reset
  <2>1. CountersAgree'
    <3>1. /\ data_points' = {} /\ module_errors' = NoMap
          /\ module_findings' = NoMap /\ findings_by_severity' = [s \in Severities |-> 0]
      BY <1>10 DEF reset
    <3>2. ((/\ data_points = {} /\ module_errors = NoMap
            /\ module_findings = NoMap /\ findings_by_severity = [s \in Severities |-> 0])
               => CountersAgree)'
      BY StartingCounts, PTL
    <3>3. QED
      BY <3>1, <3>2 DEF NoMap
  <2>2. QED
    BY <2>1 DEF CountersAgree
<1>11. ASSUME NEW n \in EventNames
       PROVE  {n} \in SUBSET (Names \ {ErrorTotal})
  BY NamesAssumption, NamesContain DEF EventNames
<1>12. QED
  BY <1>1, <1>2, <1>3, <1>4, <1>5, <1>6, <1>7, <1>8, <1>9, <1>10, <1>11 DEF InProcess

LEMMA IngressCounts ==
    ASSUME CountersAgree, NEW names \in SUBSET ExternalNames, Ingress(names)
    PROVE  CountersAgree'
<1> USE OtherPointsAreNoErrors, ModulesKept
<1>1. CASE register_untrusted_metrics(names)
  BY <1>1 DEF register_untrusted_metrics, counters, NoErrorRecorded, CountersAgree
<1>2. CASE record_untrusted_data_points(names)
  BY <1>2 DEF record_untrusted_data_points, Push, Point, counters, NoErrorRecorded, CountersAgree
<1>3. CASE record_untrusted_spans(names)
  BY <1>3 DEF record_untrusted_spans, counters, NoErrorRecorded, CountersAgree
<1>4. QED
  BY <1>1, <1>2, <1>3 DEF Ingress

\* The counters agree with what was recorded since the last reset, however often
\* modules fail and report and whatever external modules send in between.
THEOREM CountersAlwaysAgree == Spec => []CountersAgree
<1>1. Init => CountersAgree
  BY StartingCounts DEF Init
<1>2. TypeOK /\ CountersAgree /\ [Next]_vars => CountersAgree'
  <2> SUFFICES ASSUME TypeOK, CountersAgree, [Next]_vars
               PROVE  CountersAgree'
    OBVIOUS
  <2>1. CASE UNCHANGED vars
    BY <2>1, OtherPointsAreNoErrors, ModulesKept DEF vars, counters, NoErrorRecorded, CountersAgree
  <2>2. QED
    BY <2>1, InProcessCounts, IngressCounts DEF Next
<1>3. QED
  BY <1>1, <1>2, TypeCorrect, PTL DEF Spec
=============================================================================

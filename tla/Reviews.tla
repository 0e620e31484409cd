------------------------------- MODULE Reviews -------------------------------
(***************************************************************************)
(* The audit of a change against a baseline, and the impact report between *)
(* two snapshots.  A finding is a record [rule_id, file, start_line,       *)
(* message]; a stored file can be read (readable) or not, and then its     *)
(* findings do not matter.                                                 *)
(***************************************************************************)
EXTENDS Integers, SequencesExt, FiniteSetsExt, TLC

RULES ==
    ("new-finding" :> "warning") @@ ("score-regression" :> "warning") @@ ("threshold-exceeded" :> "error")

\* Nothing for an unknown text.
from_str_loose(text) ==
    CASE text \in {"new-only", "newonly", "new"} -> <<"new-only">>
      [] text = "all" -> <<"all">>
      [] OTHER -> <<>>

\* A finding is known again by where it stands and what it says.
from_finding(finding) ==
    [rule_id |-> finding.rule_id, file |-> finding.file, start_line |-> finding.start_line, message |-> finding.message]

save_baseline(findings) ==
    [readable |-> TRUE, findings |-> [i \in DOMAIN findings |-> from_finding(findings[i])]]

Count(seq, Test(_)) == Cardinality({i \in DOMAIN seq : Test(seq[i])})

compare_findings(current, baseline, gate_mode, warn_threshold, fail_threshold) ==
    LET known == ToSet(baseline)
        now == {from_finding(current[i]) : i \in DOMAIN current}
        IsNew(f) == from_finding(f) \notin known
        relevant_count == IF gate_mode = "all" THEN Len(current) ELSE Count(current, IsNew)
        Reaches(threshold) == threshold > 0 /\ relevant_count >= threshold
    IN  [verdict |-> IF Reaches(fail_threshold) THEN "fail" ELSE IF Reaches(warn_threshold) THEN "warn" ELSE "pass",
         new_findings |-> SelectSeq(current, IsNew),
         resolved_count |-> Count(baseline, LAMBDA b : b \notin now),
         total_current |-> Len(current), total_baseline |-> Len(baseline),
         score_delta |-> Len(current) - Len(baseline)]

\* A baseline that is missing or cannot be read counts as an empty one, so that
\* everything found is new; a path out of the project is an error.
analyze(current, stored, config) ==
    LET mode == from_str_loose(config.gate_mode)
        gate_mode == IF mode = <<>> THEN "new-only" ELSE mode[1]
        baseline == IF stored.readable THEN stored.findings ELSE <<>>
        report == compare_findings(current, baseline, gate_mode, config.warn_threshold, config.fail_threshold)
        Found(rule, file, line) == [rule_id |-> rule, file |-> file, start_line |-> line]
    IN  IF ~config.inside THEN [failed |-> TRUE]
        ELSE [failed |-> FALSE, report |-> report,
              findings |->
                  [i \in DOMAIN report.new_findings |->
                      Found("new-finding", report.new_findings[i].file, report.new_findings[i].start_line)]
                  \o (IF report.score_delta > 0 THEN <<Found("score-regression", config.baseline, 1)>> ELSE <<>>)
                  \o (IF report.verdict = "fail" THEN <<Found("threshold-exceeded", config.baseline, 1)>> ELSE <<>>)]

describe == [id |-> "audit", rules |-> RULES]

\* Nothing for a rule of another module.
explain(rule_id) ==
    IF rule_id \notin DOMAIN RULES THEN <<>>
    ELSE <<[rule_id |-> rule_id, default_severity |-> RULES[rule_id], suppression |-> TRUE]>>

\* The command audits what dead-code and complexity find, in this order; a module
\* that fails adds nothing and the audit goes on.
FindingsOf(result) == IF result.ok THEN result.findings ELSE <<>>

cmd_audit(dead_code, complexity, stored, config) ==
    analyze(FindingsOf(dead_code) \o FindingsOf(complexity), stored, config)

-----------------------------------------------------------------------------
(* Impact *)

\* A health of -1 is none.
snapshot_from_findings(findings, files_analyzed, health) ==
    [finding_counts |-> [r \in {findings[i].rule_id : i \in DOMAIN findings} |->
                            Count(findings, LAMBDA f : f.rule_id = r)],
     metrics |-> ("total_findings" :> Len(findings)) @@ ("files_analyzed" :> files_analyzed),
     health_score |-> health]

\* The counters of a module join its own metrics and may replace them.
create_snapshot(findings, files_analyzed, counters, health) ==
    LET snapshot == snapshot_from_findings(findings, files_analyzed, health)
    IN  [snapshot EXCEPT !.metrics = counters @@ @]

OrNone(values, key) == IF key \in DOMAIN values THEN values[key] ELSE 0

trend_direction_lower_is_better(baseline, current) ==
    IF current = baseline THEN "stable" ELSE IF current < baseline THEN "improving" ELSE "regressing"
trend_direction_higher_is_better(baseline, current) == trend_direction_lower_is_better(current, baseline)

\* Findings are counted by rule: one that went and one that came cancel out.
compute_catch_rate(baseline, current) ==
    LET rules == DOMAIN baseline.finding_counts \cup DOMAIN current.finding_counts
        Base(r) == OrNone(baseline.finding_counts, r)
        Now(r) == OrNone(current.finding_counts, r)
        Least(r) == IF Now(r) < Base(r) THEN Now(r) ELSE Base(r)
    IN  [fixed |-> MapThenSumSet(LAMBDA r : Base(r) - Least(r), rules),
         introduced |-> MapThenSumSet(LAMBDA r : Now(r) - Least(r), rules),
         persisted |-> MapThenSumSet(Least, rules)]

\* More files analysed is a regression as well.
compare_snapshots(baseline, current) ==
    LET Trend(key) ==
            LET base == OrNone(baseline.metrics, key)
                now == OrNone(current.metrics, key)
            IN  IF key = "health_score" THEN trend_direction_higher_is_better(base, now)
                ELSE trend_direction_lower_is_better(base, now)
        health == IF baseline.health_score = -1 \/ current.health_score = -1 THEN <<>>
                  ELSE <<trend_direction_higher_is_better(baseline.health_score, current.health_score)>>
    IN  [trends |-> [key \in DOMAIN baseline.metrics \cup DOMAIN current.metrics |-> Trend(key)],
         health |-> health, catch_rate |-> compute_catch_rate(baseline, current)]

\* Every registered module runs, in the order of a hash map; one that fails is left
\* out. A snapshot that is saved is not compared, and a baseline that cannot be
\* read is an error.
cmd_impact(results, health, save, stored) ==
    LET files == Max({0} \cup {results[i].files_analyzed : i \in {i \in DOMAIN results : results[i].ok}})
        collected == FlattenSeq([i \in DOMAIN results |-> FindingsOf(results[i])])
        snapshot == snapshot_from_findings(collected, files, health)
    IN  CASE save -> [is |-> "saved", snapshot |-> snapshot]
          [] ~save /\ stored = <<>> -> [is |-> "shown", snapshot |-> snapshot]
          [] ~save /\ stored # <<>> ->
                 IF stored[1].readable THEN [is |-> "compared", report |-> compare_snapshots(stored[1].snapshot, snapshot)]
                 ELSE [is |-> "failed"]
=============================================================================

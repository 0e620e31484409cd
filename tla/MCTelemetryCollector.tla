------------------------ MODULE MCTelemetryCollector ------------------------
(* Small instances of TelemetryCollector for TLC. *)
EXTENDS TelemetryCollector

CONSTANTS m1, m2, health_score, findings_total, call_duration, error_total

MCOneModule == {m1}
MCTwoModules == {m1, m2}

\* What an external module may send: a user-facing name and
\* the per-module summary name of a built-in module.
MCExternalNames == {findings_total, <<m1, health_score>>}
=============================================================================

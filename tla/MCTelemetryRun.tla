--------------------------- MODULE MCTelemetryRun ---------------------------
(* Small instances of TelemetryRun for TLC. *)
EXTENDS TelemetryRun, TLC

\* dead-code finds everything, health never records a fingerprint.
MCDetects == [c \in Commands |-> IF c = "health" THEN {} ELSE Fingerprints]

\* The processes are interchangeable; used for safety only.
MCSymmetry == Permutations(Procs)
=============================================================================

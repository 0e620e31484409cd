---------------------------- MODULE ChangeReports ----------------------------
(***************************************************************************)
(* What change-driven reporting promises, whatever the processes, crashes  *)
(* and files behind it: a set of findings may become the remembered        *)
(* baseline, against which later runs stay silent, only after some run has *)
(* settled it, that is handed it to the backends or sampled it out.  The   *)
(* baseline may be lost at any time, which costs repeated reports and      *)
(* never a missing one.                                                    *)
(***************************************************************************)
\* Lost, no baseline, is not a set of findings.
CONSTANTS FindingSets, Lost

VARIABLES settled, baseline

Init == settled = {} /\ baseline = Lost

Settle(S) == settled' = settled \cup {S} /\ UNCHANGED baseline

Remember(S) == S \in settled /\ baseline' = S /\ UNCHANGED settled

Forget == baseline' = Lost /\ UNCHANGED settled

Next ==
    \/ \E S \in FindingSets : Settle(S) \/ Remember(S)
    \/ Forget

Spec == Init /\ [][Next]_<<settled, baseline>>
=============================================================================

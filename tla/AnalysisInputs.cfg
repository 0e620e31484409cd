\* Every input of the analyses.
SPECIFICATION Spec
CONSTANTS
    Seeds <- MCSeeds
    Grown <- MCGrown
    Nodes <- ParsedNodes
    Others <- TreeAnswers
    None = None
INVARIANTS
    CyclesAreMutualReach
    InnermostZoneIsClosed
    SuppressionsAreComments
    RemovalsLeaveNoDanglingUse
    ClonesAreCompleteAndApart
    WorseIsNeverRatedBetter
    EngineMatchesReference
    FlowsAreReported
    FindingsNameTheirCause
    ListsAreCarriedOver
CHECK_DEADLOCK FALSE

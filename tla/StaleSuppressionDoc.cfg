\* A suppression that works is itself reported as stale.
SPECIFICATION Spec
CONSTANTS
    Seeds <- MCSeeds
    Grown <- MCGrown
    Nodes <- ParsedNodes
    Others <- TreeAnswers
    None = None
INVARIANTS
    StaleCommentsSuppressNothing
CHECK_DEADLOCK FALSE

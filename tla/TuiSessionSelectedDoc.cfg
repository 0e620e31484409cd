\* The key table's description of the fix key, with reads and writes that succeed.
SPECIFICATION Spec
CHECK_DEADLOCK FALSE
CONSTANTS
    Original <- MCOriginal
    Findings <- MCFindings
    Before <- MCBefore
    Faults = {}
    MaxFixes = 3
INVARIANT
    EveryFixIsExact

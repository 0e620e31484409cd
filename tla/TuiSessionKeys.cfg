\* Every sequence of keys with up to three fixes, and reads and writes that fail.
SPECIFICATION Spec
CHECK_DEADLOCK FALSE
CONSTANTS
    Original <- MCOriginal
    Findings <- MCFindings
    Before <- MCBefore
    Faults = {"read", "write"}
    MaxFixes = 3
INVARIANTS
    SelectionIsVisible
    BottomUpFixesAreExact
PROPERTY
    HighlightedIsFixed

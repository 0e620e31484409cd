\* Two processes, both strategies and every fault.
SPECIFICATION Spec
CONSTANTS
    Procs = {p1, p2}
    Commands = {"dead-code"}
    Fingerprints = {f1}
    Detects <- MCDetects
    Flags = {NoFlag}
    FileAudiences = {"On"}
    Strategies = {"OnChange", "Rate"}
    Rates = {50}
    Faults = {"crash", "flush", "save"}
    NoFlag = NoFlag
    Absent = {no_file}
    Empty = {empty_file}
    Torn = {torn_file}
    NoChurn = NoChurn
SYMMETRY MCSymmetry
INVARIANTS
    BaselineWasSettled
    ChurnIsAgainstASavedSet
PROPERTY
    Implements

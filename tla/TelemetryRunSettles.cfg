\* One command run over and over, sometimes with telemetry off, in a tree that
\* is edited and then left alone.
SPECIFICATION FairSpec
CONSTANTS
    Procs = {p1}
    Commands = {"dead-code"}
    Fingerprints = {f1, f2}
    Detects <- MCDetects
    Flags = {NoFlag, "Off"}
    FileAudiences = {"On"}
    Strategies = {"OnChange"}
    Rates = {100}
    Faults = {}
    NoFlag = NoFlag
    Absent = {no_file}
    Empty = {empty_file}
    Torn = {torn_file}
    NoChurn = NoChurn
INVARIANT
    OffLeavesNoTrace
PROPERTY
    ReportingSettles

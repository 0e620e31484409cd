\* Two modules and two severities, repeated calls and reports, no external module.
SPECIFICATION Spec
CONSTANTS
    m1 = m1
    m2 = m2
    health_score = health_score
    findings_total = findings_total
    call_duration = call_duration
    error_total = error_total
    Modules <- MCTwoModules
    SummaryKeys = {}
    OperatorNames = {call_duration, error_total}
    KnownUserNames = {findings_total, findings_new}
    ChurnNames = {findings_new}
    OtherNames = {}
    CallDuration = call_duration
    ErrorTotal = error_total
    FindingsTotal = findings_total
    FindingsBySeverity = findings_total
    ExternalNames = {}
    Severities = {warning, critical}
    Fingerprints = {f1}
    Durations = {7}
    None = None
    MaxCount = 2
    MaxPoints = 4
INVARIANTS
    CountersAgree

\* One module, every kind of name, an external module sending two of them.
SPECIFICATION Spec
CONSTANTS
    m1 = m1
    m2 = m2
    health_score = health_score
    findings_total = findings_total
    call_duration = call_duration
    error_total = error_total
    Modules <- MCOneModule
    SummaryKeys = {health_score}
    OperatorNames = {call_duration, error_total}
    KnownUserNames = {findings_total}
    ChurnNames = {}
    OtherNames = {unclassified}
    CallDuration = call_duration
    ErrorTotal = error_total
    FindingsTotal = findings_total
    FindingsBySeverity = findings_total
    ExternalNames <- MCExternalNames
    Severities = {}
    Fingerprints = {}
    Durations = {7, 9}
    None = None
    MaxCount = 1
    MaxPoints = 3
INVARIANTS
    ProvenanceTracked
    RestrictedViewsAreInProcess
    UserIsOwedInProcessPoints
    ReprojectionIsStable
PROPERTIES
    OperatorDataIsInvisibleToUser
    IngressOnlyNarrows

SPECIFICATION Spec
CONSTANTS
  Files = {f1, f2}
  Sources = {f1, f2}
  clean = clean
  bad = bad
  Contents = {clean, bad}
  Findings <- MCFindings
  Functions <- MCFunctions
  Missing = Missing
  Ids = {1}
  NoId = 0
  MaxWire = 2
  MaxBatches = 2
  NoMcpId = 0
  McpIds = {1}
  MaxLines = 1
  MaxRead = 2
  Installers = {i1, i2}
  UserLines = {"first", "second"}
  UserHooks <- MCUserHooks
  Absent = Absent
  MaxPieces = 4
  Flushers = {t1}
  MaxCalls = 1
  MaxFlushes = 2
  Procs = {p1, p2}
  AuditAudiences = {"Off", "UserOnly", "On"}
  Faults = {"crash", "open", "write"}
  MaxRuns = 4
  Newline = Newline
  Fragment = Fragment
  Broken = Broken
  NoEvent = NoEvent
INVARIANT SavedMeansShown
INVARIANT RequestsAreAnsweredOnce
INVARIANT QuietMeansReported
INVARIANT OperatorDataNeedsOptIn
INVARIANT UserLinesSurvive
INVARIANT FlushedRatesAreOfTheFlush
INVARIANT UncontendedEventsAreRead
PROPERTY FinishedLinesAreStable
CHECK_DEADLOCK FALSE

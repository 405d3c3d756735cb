\* One caller at a time: what each operation does when nothing interleaves.
SPECIFICATION ServiceSpec
CONSTANTS
  None = None
  Proc = {c1}
  JobId = {1, 2}
  Priorities = {0, 1}
  DueTimes = {1}
  Messages = {failed}
  Correlations = {}
  Attachments = {}
  Tags = {}
  TicksPerSecond = 1
  MaxTime = 1
  MaxAttempts = 1
  MaxCrashes = 0
  HasSink = TRUE
  Commands <- SerialCommands
  Policies <- MCPolicies
INVARIANTS
  ServiceTypeOK
  EventsAccurate
PROPERTIES
  PurgeOnlyExpired
  ResumeOnlyActive
  AttemptsOnlyGrow

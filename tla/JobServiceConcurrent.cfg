\* Callers that interleave: what survives writes of stale copies.
SPECIFICATION ServiceSpec
CONSTANTS
  None = None
  Proc = {c1, c2}
  JobId = {1}
  Priorities = {0}
  DueTimes = {}
  Messages = {failed}
  Correlations = {batch}
  Attachments = {scan}
  Tags = {urgent}
  TicksPerSecond = 1
  MaxTime = 1
  MaxAttempts = 1
  MaxCrashes = 1
  HasSink = FALSE
  Commands <- ConcurrentCommands
  Policies = {}
SYMMETRY CallerSymmetry
INVARIANTS
  ErrorsMatchStates
  HistoriesCoherent
  CopiesCoherent

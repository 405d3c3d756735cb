\* Two workers that are never resumed, two jobs, one crash.
SPECIFICATION Spec
CONSTANTS
  None = None
  Proc = {c1, w1, w2}
  Worker = {w1, w2}
  JobId = {1, 2}
  Priorities = {0}
  DueTimes = {}
  Messages = {failed}
  Correlations = {}
  Attachments = {}
  Tags = {}
  TicksPerSecond = 1
  MaxTime = 0
  MaxAttempts = 2
  MaxCrashes = 1
  HasSink = TRUE
  Commands <- PlainCommands
  Policies = {}
INVARIANTS
  HoldersExclusive
  NoOrphans

\* A priority update that races a claim.
SPECIFICATION Spec
CONSTANTS
  None = None
  Proc = {c1, w1, w2}
  Worker = {w1, w2}
  JobId = {1}
  Priorities = {0, 1}
  DueTimes = {}
  Messages = {failed}
  Correlations = {}
  Attachments = {}
  Tags = {}
  TicksPerSecond = 1
  MaxTime = 0
  MaxAttempts = 2
  MaxCrashes = 0
  HasSink = FALSE
  Commands <- ReprioritizingCommands
  Policies = {}
INVARIANT
  NoDoubleClaim

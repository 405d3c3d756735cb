\* Two workers, crashes, --resume, and a client that settles and purges jobs.
SPECIFICATION FairSpec
CONSTANTS
  None = None
  Proc = {c1, w1, w2}
  Worker = {w1, w2}
  JobId = {1}
  Priorities = {0}
  DueTimes = {}
  Messages = {failed}
  Correlations = {}
  Attachments = {}
  Tags = {}
  TicksPerSecond = 1
  MaxTime = 1
  MaxAttempts = 3
  MaxCrashes = 2
  HasSink = FALSE
  Commands <- RecoveryCommands
  Policies = {}
INVARIANTS
  TypeOK
  AttemptsExclusive
PROPERTIES
  ImplementsQueue
  EveryJobSettles

\* Two processes that share a directory, and a crash.
SPECIFICATION Spec
CONSTANTS
  None = None
  Proc = {p1, p2}
  Inode = {i1, i2, i3, i4, i5, i6}
  JobId = {1, 2}
  Priorities = {0}
  DueTimes = {}
  Messages = {}
  Correlations = {}
  Attachments = {}
  Tags = {}
  MaxAttempts = 1
  MaxCrashes = 1
  Transitions <- MCTransitions
VIEW NamedData
CONSTRAINT OneContended
SYMMETRY ProcSymmetry
INVARIANTS
  FilesTypeOK
  NothingLost
  NoLeftovers
PROPERTIES
  OperationsAtomic
\* A claim that would exceed MaxAttempts stops where it is.
CHECK_DEADLOCK FALSE

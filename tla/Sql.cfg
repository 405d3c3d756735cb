\* Two processes that open one database of either engine and then use it.
SPECIFICATION Spec
CONSTANTS
  None = None
  Engines = {"sqlite", "sqlserver"}
  Proc = {p1, p2}
  JobId = {1, 2}
  Priorities = {0}
  DueTimes = {}
  Messages = {}
  Correlations = {}
  Attachments = {"a"}
  Tags = {"t"}
  MaxAttempts = 1
  MaxMoments = 2
  MaxFailures = 1
  Known = {1}
  Parts <- MCParts
  Transitions <- MCTransitions
CONSTRAINT FewMoments
VIEW UsedSchema
SYMMETRY ProcSymmetry
INVARIANTS
  SchemaServes
  SchemaSettles
  ReadsWhole
  NoOrphanParts
  ThrowsExplained
PROPERTIES
  RepositoryImplemented
\* A claim that would exceed MaxAttempts stops where it is.
CHECK_DEADLOCK FALSE

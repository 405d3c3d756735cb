\* Three jobs, half-second ticks: due now, in part of a second, in a window, or
\* beyond every window.
SPECIFICATION Spec
CONSTANTS
  None = None
  JobId = {1, 2, 3}
  Priorities = {0, 1, 2}
  DueTimes = {0, 3, 6}
  Messages = {}
  Correlations = {}
  Attachments = {}
  Tags = {}
  TicksPerSecond = 2
  MaxTime = 2
  Policies <- MCPolicies
  Tables <- MCTables
INVARIANTS
  ScanFindsBest
  WindowsHonoured
  OverdueBoosted
  HistoryForgotten
  EarliestDueFirst
\* The scan ends, and so does the rebalancing at MaxTime.
CHECK_DEADLOCK FALSE

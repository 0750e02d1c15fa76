SPECIFICATION MCSpec
CONSTANTS
  Plans <- MCPlans
  Panels <- MCPanels
  ParallelSet = {0, 1, 9}
  MaxTokens = 10
  Registered = {1, 2, 3}
  Allowlists = {{}, {1, 2}, {2, 9}, {9}}
  FallbackSet = {0, 1, 3}
  RepairSet = {0, 5}
INVARIANTS OneResult HaltBounds PanelSound NoBackendTwice
PROPERTIES ScheduleEnds
CHECK_DEADLOCK FALSE

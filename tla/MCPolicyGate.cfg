SPECIFICATION Spec
CONSTANTS
  Rules = {x, y}
  Evals = {e1, e2, e3}
  MaxOverrides = 2
  Scopes = {"run", "fallback"}
  TTL = 0
  Lifetimes = {1}
  MaxTime = 1
  MaxFaults = 1
  MaxCrashes = 1
SYMMETRY Symmetry
CHECK_DEADLOCK FALSE
INVARIANTS ApprovalSurvives OneLaunchPerApproval

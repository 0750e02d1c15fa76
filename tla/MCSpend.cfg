SPECIFICATION Spec
CONSTANTS
  Runs = {r1, r2, r3}
  Batch = {r1, r2}
  Cap = 5
  Estimate = 3
  Costs = {2, 4}
  TTL = 0
  DayLength = 2
  LastStart = 1
  MaxTime = 2
  MaxFaults = 1
  MaxCrashes = 1
CHECK_DEADLOCK FALSE
INVARIANTS AccountExact CapHolds
SYMMETRY JobSymmetry

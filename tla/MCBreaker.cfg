SPECIFICATION FairSpec
CONSTANTS
  Runs = {r1, r2}
  Choosers = {"broker", "contract"}
  DoctorKinds = {"AUTH_EXPIRED"}
  MaxShift = 1
  Doubling <- SmallDoubling
  BaseCooldown = 1
  MaxCooldown = 2
  QuotaCooldown = 2
  TransientCooldown = 1
  Resets = {2}
  Threshold = 3
  Window = 1
  MaxCount = 3
  MaxFaults = 1
CHECK_DEADLOCK FALSE
INVARIANTS OpenHasAWayOut
PROPERTIES BackoffGrows TimedOpenCools

SPECIFICATION Spec
CONSTANTS
  Paths = {edited, created, hidden, deleted, other, stray}
  Tracked = {edited, deleted, other}
  Changed = {edited, created, hidden}
  Deleted = {deleted}
  Ignored = {hidden}
  MaxOperator = 3
  MaxFaults = 2
CHECK_DEADLOCK FALSE
INVARIANTS RollbackSound AppliedIsApproved
PROPERTY LandingKeepsBranch

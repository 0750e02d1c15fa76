CONSTANTS
  Items = {i1}
  Reconcilers = {r1, r2, r3}
  None = None
  MaxAttempts = 2
  MaxKills = 2
SPECIFICATION FairSpec
INVARIANTS
  NoRedispatch
  LostOnlyIfCut
PROPERTY LeasesEnd
CHECK_DEADLOCK FALSE

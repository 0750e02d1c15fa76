SPECIFICATION FairSpec
CONSTANTS
  Configs = {{"git", "assay"}, {}}
  Recoverers = {r1}
  MaxFaults = 2
CHECK_DEADLOCK FALSE
INVARIANTS ApprovedIsEarned NoLeakOnReturn RefusedOnlyAfterDrop EvidenceStays
PROPERTIES ImplementsOutcome InterruptedRunEnds

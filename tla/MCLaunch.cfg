SPECIFICATION MCSpec
CONSTANTS
  Kids = {k1}
  OutputLimit = 1
INVARIANTS NoSurvivor BystanderLives CutIsReported ContainerSound
PROPERTY LaunchReturns
CHECK_DEADLOCK FALSE

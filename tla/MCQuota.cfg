SPECIFICATION FairSpec
CONSTANTS
  Runs = {r1, r2}
  Configured = {2}
  Periods = {2, 3}
  Limit = 2
  Usage = 1
  Measures = {0, 2}
  TTL = 1
  LastStart = 2
  MaxTime = 4
  MaxFaults = 1
CHECK_DEADLOCK FALSE
INVARIANTS BooksSound
PROPERTY ReservationEnds

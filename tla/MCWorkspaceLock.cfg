CONSTANTS
  Procs = {p1, p2, p3}
  Inodes = {i1, i2, i3}
  NoInode = NoInode
  NoProc = NoProc
  NoMarker = NoMarker
  MaxCalls = 4
  MaxCrashes = 1
SPECIFICATION LockSpec
SYMMETRY Symmetry
INVARIANTS
  LiveMarkerHasHolder
PROPERTIES
  OnlyOwnerUnlinks
CHECK_DEADLOCK FALSE

CONSTANTS
  Keys = {a, b}
  Inodes = {i1, i2, i3}
  NoInode = NoInode
  NoKey = NoKey
  MaxVer = 3
  TooLarge = {2}
  MaxFiles = 1
  MaxCrashes = 1
SPECIFICATION Spec
INVARIANTS LatestAccounted HoldsOnlyTheRejected
PROPERTIES OnlyLateRequestsRegress DeliversAsOutbox
SYMMETRY InodeSymmetry
CHECK_DEADLOCK FALSE

CONSTANTS
  Keys = {a, b}
  Inodes = {i1, i2}
  NoInode = NoInode
  NoKey = NoKey
  MaxVer = 2
  TooLarge = {}
  MaxFiles = 2
  MaxCrashes = 1
SPECIFICATION FairSpec
PROPERTY EventuallySettled
CHECK_DEADLOCK FALSE

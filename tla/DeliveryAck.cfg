CONSTANTS
  Keys = {a}
  Inodes = {i1, i2}
  NoInode = NoInode
  NoKey = NoKey
  MaxVer = 3
  TooLarge = {}
  MaxFiles = 2
  MaxCrashes = 0
SPECIFICATION Spec
PROPERTY AckRemovesOnlyWhatWasSent
CHECK_DEADLOCK FALSE

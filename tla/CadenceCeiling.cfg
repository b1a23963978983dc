CONSTANTS
  GatedKeys = {"node_metadata", "collection_coverage"}
  OnChange = {"node_metadata"}
  Prints = {p, q}
  Floor = 6
  Ceiling = 9
  MaxAge = 12
  Period = 3
  Slack = 1
  MaxPass = 8
  MaxMissed = 0
SPECIFICATION CadenceSpec
PROPERTY GapWithinCeiling
CHECK_DEADLOCK FALSE

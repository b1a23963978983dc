CONSTANTS
  Length = 4
  MaxTime = 6
  PassGap = 2
  StreakGap = 2
  UnavailableFor = 3
  FatalStreak = 3
  Cap = 2
  MaxRise = 2
  MaxFaults = 1
SPECIFICATION Spec
INVARIANTS EpisodesCounted OccupancyAccounted CountedOnce BlindnessBounded
PROPERTY EndedIsFinal
CHECK_DEADLOCK FALSE

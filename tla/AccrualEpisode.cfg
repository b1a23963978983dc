CONSTANTS
  Length = 4
  MaxTime = 3
  PassGap = 2
  StreakGap = 2
  UnavailableFor = 3
  FatalStreak = 3
  Cap = 2
  MaxRise = 2
  MaxFaults = 1
SPECIFICATION Spec
INVARIANT EpisodeCountedOnce
CHECK_DEADLOCK FALSE

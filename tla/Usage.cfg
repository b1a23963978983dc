SPECIFICATION Spec
CONSTANTS
  Length = 2
  MaxTime = 3
  StaleAfter = 1
  Load <- MCLoad
  MaxInt = 1000000
  MaxFaults = 2
CHECK_DEADLOCK FALSE
INVARIANTS GridExact MergeIsUnion TotalsExact CoverageHonest
PROPERTIES OnlyLateSamplesRewrite SnapshotsOnlyGrow

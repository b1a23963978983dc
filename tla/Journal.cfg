CONSTANTS
  Events = {evicted, preempted}
  Dated = {preempted}
  Replayed = {preempted, evicted}
  MaxWindow = 1
  MaxFaults = 2
SPECIFICATION JournalFairSpec
INVARIANTS DatedFiledOnce
PROPERTIES SlicesOnlyGrow FiledIsPublished
CHECK_DEADLOCK FALSE

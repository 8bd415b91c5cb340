CONSTANTS
  Seats = {seat1}
  Words = {"paid", "asked"}
  MaxActs = 2
  Faults = {"drop", "slow", "kill"}
  MaxFaults = 2
SPECIFICATION FairSpec
CHECK_DEADLOCK FALSE
INVARIANTS
  TypeOK
  QueuedWordKept
  WalkUpListedOnce
  WalkUpNotLost
PROPERTIES
  LatestWordStands
  FlushEnds

CONSTANTS
  Seats = {seat1}
  Words = {"paid"}
  MaxActs = 1
  Faults = {"drop"}
  MaxFaults = 2
SPECIFICATION FairSpec
CHECK_DEADLOCK FALSE
PROPERTIES
  ReplayedOnReturn

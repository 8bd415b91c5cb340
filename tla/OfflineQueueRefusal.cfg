CONSTANTS
  Seats = {seat1}
  Words = {"paid"}
  MaxActs = 1
  Faults = {"drop"}
  MaxFaults = 2
SPECIFICATION Spec
CHECK_DEADLOCK FALSE
PROPERTIES
  DropsOnlyFinalRefusals

CONSTANTS
  app1 = app1
  app2 = app2
  cash = cash
  Free = Free
  Bookings = {app1}
  Sessions = {s1, s2}
  Capacity = 2
  LegCount = 2
  Source <- MCSource
  Alights <- MCAlights
  AdvanceCap = 1
  Doors = {"asked"}
SPECIFICATION Spec
CHECK_DEADLOCK FALSE
INVARIANT OneSlotEach

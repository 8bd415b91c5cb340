CONSTANTS
  app1 = app1
  app2 = app2
  cash = cash
  Free = Free
  Bookings = {app1, app2, cash}
  Sessions = {s1}
  Capacity = 2
  LegCount = 2
  Source <- MCSource
  Alights <- MCAlights
  AdvanceCap = 1
  Doors = {"passenger", "asked", "forgot"}
SPECIFICATION FairSpec
CHECK_DEADLOCK FALSE
INVARIANTS
  InventoryMatchesBookings
  PaidCancelledOnlyOnRequest
PROPERTIES
  NoCancelOnceLocked
  ListCompleteAtDeparture
  AdvanceLimitKept
  UnpaidSeatIsReleased

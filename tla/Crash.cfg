SPECIFICATION Spec
CONSTANTS
  d1 = d1
  d2 = d2
  t1 = t1
  t2 = t2
  s1 = s1
  s2 = s2
  Trips = {t1}
  Drivers = {d1, d2}
  Retiring = {d2}
  Fares = {105}
  CommissionPct = 10
  Categories = {"NORMAL"}
  Cancellations = {"CANCELLED_BY_PASSENGER"}
  Shifts <- OneShifts
  ClockReadings = 2
  Audited = {FALSE}
  Slots = {s1}
  Serves <- CrashedRides
  MayCrash = TRUE
  NoTrip = NoTrip
  NoDriver = NoDriver
  Unloaded = Unloaded
INVARIANTS AssignedHasDriver ClosedIsPaid
PROPERTIES GuardedMoves ClockStartsWhenFree
CHECK_DEADLOCK FALSE

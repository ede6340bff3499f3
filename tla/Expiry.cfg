SPECIFICATION ExpirySpec
CONSTANTS
  d1 = d1
  d2 = d2
  t1 = t1
  t2 = t2
  s1 = s1
  s2 = s2
  Trips = {t1}
  Drivers = {d1, d2}
  Retiring = {}
  Fares = {105, 250}
  CommissionPct = 10
  Categories = {"NORMAL", "FORANEO"}
  Cancellations = {"CANCELLED_BY_PASSENGER"}
  Shifts <- NoShifts
  ClockReadings = 1
  Audited = {FALSE}
  Slots = {s1, s2}
  Serves <- ExpiryJob
  MayCrash = FALSE
  NoTrip = NoTrip
  NoDriver = NoDriver
  Unloaded = Unloaded
INVARIANTS OfferedOncePerHandler
PROPERTIES EveryOfferAnswered
CHECK_DEADLOCK FALSE

SPECIFICATION Apart
CONSTANTS
  t1 = t1
  k1 = k1
  k2 = k2
  z1 = z1
  Requests = {t1}
  Day = 4
  Schedules = {k1, k2}
  Windows <- Nights
  Zones = {z1}
  NoZone = NoZone
  Rates <- TwoRates
  SeedRate <- FirstRate
  MaxRules = 4
  LastInstant = 5
  ChangesUntil = 2
  PhoneFrom = 3
  Moves = {0, 1}
  Skews <- ClockErrors
  Straight = 2
  MaxPings = 3
  MaxRows = 3
INVARIANTS MeteringTypeOK NeverRefused ZoneTariffWins NoLaterTariff
PROPERTIES NightAsScheduled MeterIsRight
CHECK_DEADLOCK FALSE

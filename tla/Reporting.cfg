SPECIFICATION ReportingSpec
CONSTANTS
  Window = 180
  Limit = 5
  Freshness = 24
  LastInstant = 40
INVARIANTS OnlySilenceHides
CHECK_DEADLOCK FALSE

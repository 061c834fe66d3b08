\* A fund's history of up to five prices.
SPECIFICATION EngineSpec
CONSTANTS
  ev1 = ev1
  ev2 = ev2
  fund1 = fund1
  fund2 = fund2
  None = None
  NoDate = NoDate
  Refused = Refused
  Missing = Missing
  Parts = {"statistics"}
CHECK_DEADLOCK FALSE
INVARIANT
  ShortfallCoversRisk

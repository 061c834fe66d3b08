\* Data is bounded, so a part may stop.
SPECIFICATION EngineSpec
CONSTANTS
  ev1 = ev1
  ev2 = ev2
  fund1 = fund1
  fund2 = fund2
  None = None
  NoDate = NoDate
  Refused = Refused
  Missing = Missing
  Parts = {"quarters", "statistics", "peers", "tail", "parity", "beliefs", "rebalance", "universes", "events", "backtest", "evidence", "views"}
CHECK_DEADLOCK FALSE
SYMMETRY EngineSymmetry
INVARIANTS
  QuartersAreTrue
  FiguresMeanWhatTheySay
  PlansAreFeasible
  DecisionsAreOfTheirMoment
PROPERTY
  NoHindsight

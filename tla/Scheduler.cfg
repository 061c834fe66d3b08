SPECIFICATION MCSpec
CONSTANTS
  run = run
  direct = direct
  calendar = calendar
  w1 = w1
  w2 = w2
  o1 = o1
  k1 = k1
  k2 = k2
  code = code
  Teams <- TwoClients
  NULL = NULL
  Runs = {run}
  Admissions = {direct, calendar}
  RunOf <- MCRunOf
  NotBefore <- MCNotBefore
  Instants = {0, 1, 2}
  ClaimKeys = {k1, k2}
  FailureCodes = {code}
  Versions = {1, 2, 3, 4}
  Workers = {w1, w2}
  Operators = {o1}
  MaxOrphans = 1
  Hours <- SixteenHours
  DayLen = 4
  Dates <- ThreeDates
  WeekdayOf <- Alternate
  DayOfMonth <- ShortMonth
  RuleSets <- ZoneRules
  Recurrences <- Configured
  Evidence <- Calendars
  Constraints <- CalendarConstraints
  Events <- Causes
  Cutoffs = {3, 9, 13}
  MaxStored = 2
SYMMETRY Symmetry
INVARIANTS
  RtTypeOK
  LeasesDisjoint
  AtMostOneDispatch
  HistoryIsTheRun
  StoreAndReaderAgree
  AnswersAreDurable
  WorkersFinishTheirWork
  SlotsBecomeRuns
PROPERTY
  TableImplementsLifecycle

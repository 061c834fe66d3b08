\* Time and snapshots are bounded, so a part may stop.
SPECIFICATION MarketSpec
CONSTANTS
  w1 = w1
  w2 = w2
CHECK_DEADLOCK FALSE
SYMMETRY WorkerSymmetry
INVARIANTS
  AnswersWereShown
  

  

SPECIFICATION Spec
CONSTANTS
  r1 = r1
  r2 = r2
  Requests = {r1, r2}
  Candidates <- MCCandidates
  Overflow <- MCOverflow
  Groups <- MCGroups
  Thresholds <- MCThresholds
  LoadTables <- MCLoadTables
  WarmWindow = 1
  WindowMinutes = 2
  MaxFailoverAttempts = 1
  MaxTime = 2
  MaxPolls = 1
  MaxFlips = 1
SYMMETRY Symmetry
CHECK_DEADLOCK FALSE
INVARIANTS CountsHold ChoiceJustified StatisticsExact

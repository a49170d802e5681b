SPECIFICATION FairSpec
CONSTANTS
  Requests = {"r1", "r2", "r3"}
  KindOf <- MCKindOf
  Keys <- MCKeys
  Viewers <- MCViewers
  Migrations <- MCMigrations
  IndexedCols = {"principal"}
  Cap = 1
  Conns = 1
  Sec = 2
  FracRank <- MCFracRank
  Span = 1
  Width = 2
  Day = 2
  RowLimit = 1
  ListLimit = 1
  Origin = 2
  MaxTime = 3
  MaxFaults = 1
CHECK_DEADLOCK FALSE
INVARIANTS RecordsKept NopMeansOutage ChartsAddUp ListingsRight
PROPERTIES LogLives

SPECIFICATION FairSpec
CONSTANTS
  MaxQueue = 2
  MaxDrain = 1
  MaxFailures = 1
INVARIANTS MissedShows LedgerClosedLast ClosedIsComplete
PROPERTIES LossTold CloseSettles
CHECK_DEADLOCK FALSE

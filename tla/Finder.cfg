CONSTANTS
  QUANTITY = 2
  BLOCKS = 3
  Contents = {"none", "inside", "across"}
SPECIFICATION FairSpec
INVARIANTS AllBlocksScanned FreedAfterThreads SignalSurvived
PROPERTY EndsUnlessStuck
CHECK_DEADLOCK FALSE

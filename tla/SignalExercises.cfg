CONSTANTS
  quantity = 4
  REALTIME_LENGTH = 4
SPECIFICATION FairSpec
INVARIANTS SignalsAccounted ResultBounds RoundsCounted
PROPERTY AllEndUnlessWakeupLost
CHECK_DEADLOCK FALSE

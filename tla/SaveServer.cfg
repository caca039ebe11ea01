CONSTANTS
  CLIENTS = 3
  MAX_FILE_LENGTH = 3
  LENGTHS = {1, 2}
  PRIO_MAX = 3
  Clients = {}
  MAX_CLIENTS_NUM = 0
  CAPACITY = 1
  BUDGET = 0
SPECIFICATION SaveFairSpec
INVARIANT SavedIsWritten
PROPERTY ClientEnds
CHECK_DEADLOCK FALSE

CONSTANTS
  Clients = {c1, c2, c3}
  MAX_CLIENTS_NUM = 2
  CAPACITY = 2
  BUDGET = 3
SPECIFICATION FairSpec
INVARIANT EveryoneHearsTheLog
PROPERTIES ServerGoesOn QuitNoticed
CHECK_DEADLOCK FALSE

CONSTANTS
  BLOCK_SIZE = 2
  QUANTITIES = {4}
  STRATEGIES = {"MIN_ALLOC_STRATEGY", "MAX_ALLOC_STRATEGY"}
SPECIFICATION Spec
INVARIANT BlocksApart
CHECK_DEADLOCK FALSE

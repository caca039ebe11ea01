CONSTANTS
  BLOCK_SIZE = 2
  QUANTITIES = {3, 6}
  STRATEGIES = {"MIN_ALLOC_STRATEGY", "MAX_ALLOC_STRATEGY"}
SPECIFICATION Spec
INVARIANT BufferPartitioned
CONSTRAINT Undamaged
CHECK_DEADLOCK FALSE

CONSTANTS
  Producers = {p1}
  Consumers = {c1}
  TASK_TAB_LENGTH = 1
SPECIFICATION Spec
INVARIANT AttachedAtWork
CHECK_DEADLOCK FALSE

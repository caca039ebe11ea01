CONSTANTS
  Producers = {p1}
  Consumers = {c1}
  TASK_TAB_LENGTH = 3
  TASK_LENGTH = 2
  Value = {a, b}
  Zero = zero
  COUNTER_MODULUS = 2
  ComingProducers = {p, q}
  ComingConsumers = {c}
  COMING_TAB_LENGTH = 2
SPECIFICATION ExerciseSpec
INVARIANTS CompletedTasksCounted NoSlotShared SlotsConserved SlotsAccounted OneInitialises 
PROPERTIES ImplementsQueue RemovalEndsUsers
CHECK_DEADLOCK FALSE

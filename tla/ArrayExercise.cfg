CONSTANTS
  Readers = {r1, r2}
  Writers = {w1, w2}
  TAB_LENGTH = 2
  Value = {zero, one}
  Blank = zero
  NoArray = none
  ComingReaders = {a, b}
  ComingWriters = {v, w}
  None = None
  INTERRUPTS = 1
SPECIFICATION ExerciseSpec
INVARIANTS Exclusion CountIsExact ExclusionAcrossGenerations
PROPERTIES ImplementsAtomicArray LoopsGoOn
CHECK_DEADLOCK FALSE

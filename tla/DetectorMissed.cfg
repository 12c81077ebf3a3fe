CONSTANTS
  Threads = {0, 1}
  Locks = {10, 11}
  Kind <- AllMutex
  Stray = 20
  MaxOdd = 0
SPECIFICATION Spec
INVARIANTS
  DetectsDeadlock
CHECK_DEADLOCK FALSE

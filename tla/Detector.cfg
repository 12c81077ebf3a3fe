CONSTANTS
  Threads = {0, 1, 3}
  Locks = {10, 11, 12}
  Kind <- AllMutex
  Stray = 20
  MaxOdd = 0
SPECIFICATION Spec
INVARIANTS
  DetectsFirstDeadlock
CHECK_DEADLOCK FALSE

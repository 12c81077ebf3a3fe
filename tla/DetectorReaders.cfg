CONSTANTS
  Threads = {0, 1, 2}
  Locks = {12, 14}
  Kind <- AllRW
  Stray = 20
  MaxOdd = 0
SPECIFICATION Spec
INVARIANTS
  ReportsOnlyDeadlock
CHECK_DEADLOCK FALSE

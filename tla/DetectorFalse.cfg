CONSTANTS
  Threads = {0, 1}
  Locks = {12, 14}
  Kind <- AllRW
  Stray = 20
  MaxOdd = 0
SPECIFICATION Spec
INVARIANTS
  ReportIsDeadlock
CHECK_DEADLOCK FALSE

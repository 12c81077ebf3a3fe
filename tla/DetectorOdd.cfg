CONSTANTS
  Threads = {0, 1}
  Locks = {10, 11, 12}
  Kind <- Mixed
  Stray = 20
  MaxOdd = 1
SPECIFICATION Spec
INVARIANTS
  TypeOK
  RowIsFound
  HeldIsRecorded
  DetectsFirstDeadlock
  ReportsOnlyDeadlock
CHECK_DEADLOCK FALSE

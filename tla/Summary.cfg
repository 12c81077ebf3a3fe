CONSTANTS
  Threads = {t1, t2}
  Mutexes = {2}
  Semaphores = {1}
  RWLocks = {3}
  Barriers = {4}
  Stores <- MCStores
  Limit = 2
  MaxEvents = 7
SYMMETRY MCSymmetry
SPECIFICATION Spec
INVARIANTS
  TypeOK
  TableAgrees
  SharedIsFound
  WaitsAreJudged
  SafeIsSafe
  UnsafeIsBare
CHECK_DEADLOCK FALSE

CONSTANTS
  Threads = {t0, t1, t2}
  Main = t0
  Mutexes = {m1}
  Sems = {s1}
  RWLocks = {}
  Instrs = {i1}
  Addrs = {a1}
  Stray = Stray
  Uninit = Uninit
  Capacity = 2
  MaxRecords = 1
  MaxOdd = 1
SPECIFICATION Spec
SYMMETRY Symmetry
INVARIANTS
  TypeOK
  HeldIsListed
  ListedIsHeld
  NewIsAsynchronous
  EndIsErased
  StreamIsOwn
  OverflowNeedsThreads
PROPERTIES
  HonestStreams
CHECK_DEADLOCK FALSE

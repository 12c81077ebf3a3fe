CONSTANTS
  Threads = {t1, t2}
  Mutexes = {m1}
  Sems = {}
  RWLocks = {}
  MemInstrs = {i1}
  PlainInstrs = {}
  Addrs = {a1, a2}
  NoAddr = NoAddr
  Uninit = Uninit
  MaxEvents = 2
SPECIFICATION Spec
INVARIANTS
  PrintedIsOwn
CHECK_DEADLOCK FALSE

CONSTANTS
  Threads = {t1, t2}
  Mutexes = {m1}
  Sems = {}
  RWLocks = {w1}
  MemInstrs = {i1}
  PlainInstrs = {}
  Addrs = {a1}
  NoAddr = NoAddr
  Uninit = Uninit
  MaxEvents = 1
SPECIFICATION Spec
INVARIANTS
  RWListedIsHeld
CHECK_DEADLOCK FALSE

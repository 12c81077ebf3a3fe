CONSTANTS
  Threads = {t1, t2}
  Mutexes = {m1}
  Sems = {}
  RWLocks = {w1}
  MemInstrs = {i1}
  PlainInstrs = {i2}
  Addrs = {a1}
  NoAddr = NoAddr
  Uninit = Uninit
  MaxEvents = 1
SPECIFICATION Spec
SYMMETRY Symmetry
INVARIANTS
  TypeOK
  HeldIsListed
  ListedIsHeld
  TraceExclusion
  PrintedWasAccessed
PROPERTIES
  OnlyOverlapIsUndefined
  HonestTrace
CHECK_DEADLOCK FALSE

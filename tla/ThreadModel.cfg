CONSTANTS
  LastId = 2
  Conds = {c1}
  Stores <- MCStores
  Uninit = Uninit
  MaxEvents = 7
  NTHREADS = 3
SPECIFICATION Spec
INVARIANTS
  TypeOK
  SignalsNameMain
  VerdictFits
  RowsAddUp
CHECK_DEADLOCK FALSE

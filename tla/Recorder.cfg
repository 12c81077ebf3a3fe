CONSTANTS
  LastThread = 2
  MaxEvents <- MCMaxEvents
SPECIFICATION FairSpec
INVARIANTS
  TypeOK
  RecordedInOrder
  LockProtects
  LockIsReleased
  
PROPERTIES
  HonestHistory
  CallbacksEnd
  CallbacksAdvance
CHECK_DEADLOCK FALSE

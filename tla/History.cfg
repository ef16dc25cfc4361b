SPECIFICATION Spec
CONSTANTS
  Limit = 2
  MaxEvents = 4
  MaxRestarts = 1
INVARIANTS
  TypeOK
  ContextIsUsedOnce
  BufferIsTheNewest
CHECK_DEADLOCK FALSE

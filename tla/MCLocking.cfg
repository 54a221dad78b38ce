SPECIFICATION Spec
CONSTANTS
  t1 = t1
  t2 = t2
  t3 = t3
  Thread <- MCThread
  Calls <- MCCalls
  MaxCalls = 1
  NoThread = NoThread
INVARIANTS
  LockOrder
  BatchesAreApart
PROPERTIES
  EveryCallReturns
CHECK_DEADLOCK FALSE

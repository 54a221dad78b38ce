SPECIFICATION Spec
CONSTANTS
  t1 = t1
  t2 = t2
  t3 = t3
  Thread <- MCThread
  Calls <- MCRollback
  MaxCalls = 1
  NoThread = NoThread
INVARIANT LockOrder
CHECK_DEADLOCK FALSE

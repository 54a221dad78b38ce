SPECIFICATION Spec
CONSTANTS
  t1 = t1
  t2 = t2
  Never = Never
  Tx = {t1, t2}
  Messages <- MCMessages
  Embargo = {1, 2}
  ForwardDelay = {1}
  RelayDelay = {1}
  CheckInterval = 2
  MaxCalls = 2
  MaxTasks = 1
  MaxEvents = 1
INVARIANTS
  
  ScanIsInTime

  

SPECIFICATION Spec
CONSTANTS
  nil = nil
  o1 = o1
  o2 = o2
  t1 = t1
  Conn = {o1, o2}
  Out = {o1, o2}
  Tx = {t1}
  Stems = 2
  Delay = {0, 1}
  MaxTime = 1
  MaxTasks = 2
  MaxChanges = 2
INVARIANTS
  TimerIsRight
  MapIsSound
PROPERTIES
  StemIsKept
  QueuedIsSent
CHECK_DEADLOCK FALSE

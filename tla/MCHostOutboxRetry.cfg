CONSTANTS
  p1 = p1 t1 = t1 t2 = t2 m1 = m1 m2 = m2
  Proc = {p1}
  Thread = {t1, t2}
  ProcOf <- OneProcess
  Watcher = {t1}
  Message = {m1}
  KindOf <- Kinds
  TextOf <- Texts
  None = None
  Faults = {"host"}
  MaxFaults = 1
  MaxUser = 1
SPECIFICATION FairSpec
PROPERTY RetryAttempts
CHECK_DEADLOCK FALSE

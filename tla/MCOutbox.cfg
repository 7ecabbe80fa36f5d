CONSTANTS
  p1 = p1 p2 = p2 t1 = t1 t2 = t2 t3 = t3 m1 = m1 m2 = m2 m3 = m3
  Proc = {p1, p2}
  Thread = {t1, t2, t3}
  ProcOf <- TwoProcesses
  Watcher = {t1}
  Message = {m1, m2}
  KindOf <- Kinds
  TextOf <- Texts
  Told = {m2}
  None = None
  Faults = {"send", "crash", "mark", "reset"}
  MaxFaults = 1
  MaxUser = 1
SPECIFICATION FairSpec
INVARIANTS TypeOK OncePerRun InOrder
PROPERTIES Served Implements
CHECK_DEADLOCK FALSE

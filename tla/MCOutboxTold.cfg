CONSTANTS
  p1 = p1 p2 = p2 t1 = t1 t2 = t2 t3 = t3 m1 = m1 m2 = m2 m3 = m3
  Proc = {p1}
  Thread = {t1, t2}
  ProcOf <- TwoProcesses
  Watcher = {t1}
  Message = {m1, m3}
  KindOf <- Kinds
  TextOf <- Texts
  Told = {m3}
  None = None
  Faults = {}
  MaxFaults = 0
  MaxUser = 0
SPECIFICATION Spec
INVARIANT ToldTruth
CHECK_DEADLOCK FALSE

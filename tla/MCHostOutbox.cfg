CONSTANTS
  p1 = p1 t1 = t1 t2 = t2 m1 = m1 m2 = m2
  Proc = {p1}
  Thread = {t1, t2}
  ProcOf <- OneProcess
  Watcher = {t1}
  Message = {m1, m2}
  KindOf <- Kinds
  TextOf <- Texts
  None = None
  Faults = {"write", "refuse", "mute", "host", "change", "crash"}
  MaxFaults = 1
  MaxUser = 1
SPECIFICATION FairSpec
INVARIANTS TypeOK InOrder SentOnce
PROPERTIES Served Implements
CHECK_DEADLOCK FALSE

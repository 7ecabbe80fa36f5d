SPECIFICATION FairSpec
CONSTANTS
  Proc = {p1, p2}
  Session = {s1}
  Name = {n1, n2}
  Tid = {t1, t2}
  Ops = {"park", "remove", "resume", "rename"}
  Old = {s1}
  None = None
  Outside = Outside
  MaxOps = 3
  MaxFaults = 2
INVARIANT TypeOK
INVARIANT OneRuntime
INVARIANT StoppedIsQuiet
PROPERTY StopsConverge
CHECK_DEADLOCK FALSE

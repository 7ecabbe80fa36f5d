SPECIFICATION Spec
SYMMETRY Interchangeable
CONSTANTS
  Proc = {p1, p2}
  Session = {s1}
  Name = {n1, n2}
  Tid = {t1, t2}
  Ops = {"restart", "resume"}
  Old = {s1}
  None = None
  Outside = Outside
  MaxOps = 2
  MaxFaults = 1
INVARIANT OneRuntime
CHECK_DEADLOCK FALSE

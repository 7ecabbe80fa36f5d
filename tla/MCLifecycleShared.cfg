SPECIFICATION Spec
SYMMETRY Interchangeable
CONSTANTS
  Proc = {p1, p2}
  Session = {s1, s2}
  Name = {n1, n2}
  Tid = {t1, t2}
  Ops = {"park", "remove", "resume", "restart", "rename", "switch", "provision", "discard", "adopt"}
  Old = {s1}
  None = None
  Outside = Outside
  MaxOps = 3
  MaxFaults = 1
INVARIANT AdvancesCurrent
INVARIANT PromptAtMostOnce
INVARIANT NamesUnique
PROPERTY RemovedStaysRemoved
CHECK_DEADLOCK FALSE

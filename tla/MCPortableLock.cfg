CONSTANTS
  Proc = {a, b, c}
  Absent = Absent
  Empty = Empty
  MaxGenerations = 3
  MaxFaults = 1
SPECIFICATION FairSpec
INVARIANTS TypeOK HolderOwns
PROPERTIES Served Implements
CHECK_DEADLOCK FALSE

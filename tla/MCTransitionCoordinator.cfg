\* Two chains of calls, two keys in each of the four scopes, two calls each:
\* enough for nesting, for overlapping key sets and for a circular wait, if
\* the order of scopes or keys allowed one.
SPECIFICATION FairSpec
CONSTANTS
  Actor = {a1, a2}
  None = None
  NumKeys = 2
  MaxCalls = 2
INVARIANT TypeOK
INVARIANT FnExclusive
INVARIANT NoCircularWait
PROPERTY WaitersServed
CHECK_DEADLOCK FALSE

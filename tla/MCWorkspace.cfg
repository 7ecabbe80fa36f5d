CONSTANTS
  Session = {"s1", "s2"}
  Name = {"n1", "n2"}
  Host = {"h1", "h2"}
  Delivery = {"d1", "d2", "d3"}
  TargetOf <- AllToOne
  HostOf <- Processes
  KeyOf <- OneKey
  Synchronous = {"d1", "d2"}
  Patient = {"d2"}
  Nowhere = "nowhere"
  MaxMoves = 2
  Slot = {"c", "e"}
  Tree = {"w"}
  TreeOf <- OneTree
  Creating = {"c"}
  Projectless = {"e"}
  ByHand = {"e"}
  Remover = "R"
  Adopter = "A"
  Free = "free"
  MaxTries = 2
  MaxRemovals = 1
  Build = {"half", "edit"}
  GateOf <- Gates
  Call = {"c1", "c2", "c3"}
  NoBuild = "none"
  MaxRuns = 2
  Request = {"r1", "r2"}
  Answerer = {"a", "b"}
  VerdictOf <- Verdicts
  MaxHosts = 4
  ToolCall = {"c1", "c2"}
  Subagent = {"a"}
  Message = {"m"}
  MaxFrames = 5
  MaxTorn = 1
  Alerting = {"s1", "s2"}
  Hand = {"h1"}
  MaxScreens = 3
  Pipeline = {"b"}
  AzProject = {"p"}
  ProjectOfRun <- OneProject
  ArgoName = {"a"}
  Page = {"p1", "p2"}
  MaxPolls = 2
SPECIFICATION WorkspaceSpec
INVARIANTS
  WorkspaceTypeOK
  KeysReachTheirSession
  PromptsArrive
  RegisteredHasTree
  GateBeforeStart
  AskedAndTold
  OneRecordedOmp
PROPERTIES
  NoRuntimeInRemovedTree
CHECK_DEADLOCK FALSE

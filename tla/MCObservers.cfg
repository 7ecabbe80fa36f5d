CONSTANTS
  Publisher = {"pass", "push"}
  Subscriber = {"w1"}
  Shown = {"run", "idle", "gone"}
  Unseen = "unseen"
  MaxBuffered = 2
  MaxReadings = 5
  Pass = {"p1"}
  MaxOccupants = 2
  RingCap = 2
  RingBytes = 3
  Budget = 2
  MaxPrinted = 5
  MaxSubs = 2
  MaxLives = 2
  Machine = {"A", "B"}
  Nobody = "nobody"
  Exchange = {"e1", "e2"}
  MaxSwitches = 2
  MaxExecutions = 2
  Comment = {"c1", "c2"}
  Sender = {"s1", "s2"}
  MaxWording = 2
  Scheduler = {"p1", "p2"}
  MaxEdits = 1
  MaxClock = 2
  MaxForms = 3
  Interval = 1
  SideProject = {"p", "q"}
  SideSession = {"s", "t", "u"}
  Divider = {"d"}
  ProjectOf <- Homes
  Top = ""
  MaxChanges = 5
  Watched = {"s", "t"}
  NoSession = ""
  Outside = {"failed", "deployed"}
  OutsideRank <- Ranks
  DedupeMax = 1
  MaxPasses = 4
  Settings <- Switched
  Default <- On
  MaxAuto = 2
  MaxTime = 3
  Screen = {"running", "blocked"}
  MaxTurns = 2
  MaxReports = 3
  MaxReads = 2
  MaxDeeds = 5
  Transcript = {"live", "archived"}
  Indexer = {"p1", "p2"}
  MaxEvents = 2
  MaxWrites = 4
  KindOf <- Kinds
  PrefixLines = 1
  MaxRewrites = 1
  MaxTurnsTaken = 3
  Who = {"a", "b", "c"}
  Older = {"a", "b"}
  NewName = {"m", "n"}
  ByHandRuntime = "x"
  RunRef = {"r"}
  Absent = "none"
  MaxDraws = 2
  MaxTails = 1
  Member = {"s", "t", "v"}
  Initially <- First
  Label = {"m", "n", "l"}
  Flight = {1, 2}
  MaxElsewhere = 1
  MaxQuestions = 1
  Opening = {"o1", "o2"}
  NoOpening = "none"
  MaxLosses = 1
  Directory = {"r", "w"}
  Root = "r"
  Branch = {"main", "topic"}
  BranchAtFirst <- Places
  Asker = {"a"}
  MaxIncidents = 3
  Readings <- Lines
  Association <- Runs
  Workplace <- Paths
  Inside <- Within
  Span = {2, 3}
  CommitFacts <- Facts
  MaxLines = 3
SPECIFICATION ObserversSpec
INVARIANTS
  ObserversTypeOK
  ControlSpeaksTrue
  RemoteTrue
  RecordsKept
  DeveloperFacing
  FactsHonest
CHECK_DEADLOCK FALSE

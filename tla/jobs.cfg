\* The tools end and may not be run again: no check for deadlock.
SPECIFICATION JobsFairSpec
CONSTANTS
  TopItems = {"a", "b"}
  Categories = {"books"}
  Category <- MCCategory
  GlobalKey = "_global"
  Refreshers = {p, q}
  MaxMembers = 1
  ClickScore = 2
  RefresherBounds <- MCRefresherBounds
  LagPartitions = {p0}
  MaxEnd = 2
  NotSampled = NotSampled
  DeadLetters <- MCDeadLetters
  EmptyBatchLimit = 3
  MaxReturns = 2
  MaxReplayFaults = 1
  EvalUsers = {"u"}
  EvalItems = {"a", "b", "c"}
  NoEvalItem = ""
  EvalHistories <- MCHistories
  EvalLogs <- MCLogs
  NumUsers = 1
  Golden = 1
  K = 2
  Discount <- MCDiscount
  RecentCap = 2
  Bar = 15
  MaxLiveClicks = 1
  MaxEvalFaults = 1
  SweepNs <- MCSweepNs
  Rates = {1, 2, 3}
  LocustStats <- MCStats
  Scrapes <- MCScrapes
  NoScrape = NoScrape
  NoRate = NoRate
  P95Budget = 160
  MaxLag = 1000
  MaxSweeps = 2
  MaxSweepFaults = 1
  NumEvents = 9
  FlushEvery = 2
  MaxQueries = 2
  MaxClicks = 1
  MaxScriptFaults = 1
INVARIANTS JobsTypeOK ReportsHonest ScoreTracksClicks ReplayAccounted EvalLeavesNoTrace
PROPERTIES IdleCategoryEmpties DrainEnds
CHECK_DEADLOCK FALSE

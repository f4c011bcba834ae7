CONSTANTS
  MaxWire = 2
  MaxTime = 3
  Skew = 0
  MaxFuture = 1
  Faults <- FaultsHandled
  MaxFaults = 2
  v1 = v1
  v2 = v2
  SVms = {v1}
  SPeriods <- SnapPeriods
  Span <- SnapSpan
  SWorkers = {"w1"}
  SlotTicks = 2
  SettleTicks = 1
  MaxStale = 1
  Generations = 2
  PageTicks = 1
  MaxTick = 4
  MaxShown = 1
  MaxBuildFaults = 1
  MaxBuilds = 2
  PWorkers = {"w1", "w2"}
  PAsks <- PageAsks
  PageTtl = 1
  QueryTtl = 2
  LocalItems = 1
  MaxClock = 3
  MaxChanges = 1
  MaxOutages = 1
  MaxAsked = 2
  MaxServing = 1
  Scenes = {"base", "long", "snapshot", "cache", "database", "text", "health", "charts", "lines"}
  Threads = {"web", "job"}
  PoolMax = 2
  MaxUnits = 1
  MaxRows = 2
  MaxBroken = 1
  Alphabets <- TextAlphabets
  MaxText = 5
  HNodes = {"n1"}
  HWorkers = {"h1", "h2"}
  Cycle = 2
  Misses = 1
  Day = 3
  MaxHTick = 9
  MaxHPushes = 3
  MaxDeletes = 1
  ChVms = {"v1", "v2"}
  ChPayloads <- ChartPayloads
  BucketTicks = 2
  Periods = {2, 4, 6}
  ChNow = 6
  MaxChPushes = 3
  MaxChEdits = 1
  BucketMinutes = 5
  MaxDrawn = 4
  MaxSlots = 8
SPECIFICATION EndsSpec
INVARIANTS ExactlyOnce WindowOnce
INVARIANTS   DatabaseHolds ReadersTell
PROPERTIES CurrentNeverRewinds LedgerSpec
\* A run ends when its bounded clock does: nothing is collected after MaxTime.
CHECK_DEADLOCK FALSE

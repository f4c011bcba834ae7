CONSTANTS
  v1 = v1
  v2 = v2
  AVms = {v1}
  Sustained = {"cpu"}
  Needs = {2}
  Reports <- AbuseReports
  Overlap = FALSE
  MaxT = 5
  MaxTold = 3
  MaxRev = 2
  MaxAdmin = 1
  CVms = {v1, v2}
  Payloads <- CurrentPayloads
  MaxStamp = 3
  MaxPurges = 1
  UVms = {v1, v2}
  Loads <- ConsumptionLoads
  SlotsPerHour = 2
  HoursPerDay = 2
  RawKeep = 3
  RollKeep = 6
  OldRows <- ConsumptionOld
  MaxSlot = 6
  MaxSent = 3
  MaxRewrites = 1
  TableOrder <- HistoryOrder
  FirstTables = {"net"}
  PushKinds <- HistoryKinds
  PerHour = 2
  RawBuckets = 0
  HourlyBuckets = 4
  DeleteAges = {1}
  MaxPoints = 3
  MaxBucket = 5
  MaxRuns = 2
  MaxUpsets = 1
  LNodes = {1, 2}
  LPairs <- ListedPairs
  LCustom = {"g"}
  MaxEdits = 2
  MaxElapse = 1
  AgVms = {v1, v2}
  FirstUp = {v1}
  TapOf <- SharedTap
  AgDisks <- OneDisk
  Links <- OneLink
  VmNamed = {}
  StaleTicks = 0
  MaxAgTick = 1
  MaxUnits = 1
  MaxCycles = 2
  MaxStarts = 1
  MaxFailures = 1
  AllMounts <- SomeMounts
  Always <- RootMount
  BlockOf <- SomeBlocks
  Swaps = {"swapfile"}
  Images <- SomeImages
  RequiredRoles = {"public"}
  BridgeRoles = {"public", "private"}
  Addresses <- SomeAddresses
  MaxIo = 2
  MaxMounts = 2
  MaxHostReads = 2
  Scenes = {"abuse", "current", "consumption", "history", "lists", "readings", "host"}
SPECIFICATION ScenesSpec
CHECK_DEADLOCK FALSE
INVARIANTS DPTypeOK AbuseTold CurrentAgrees WindowsExact HistoryKept ListsTell ListsAgree  
PROPERTIES CurrentForward

CONSTANTS
  Names = {"admin", "anna"}
  Browsers = {b1, b2}
  AccSlots = 2
  MaxUid = 3
  MaxPw = 3
  n1 = n1
  n2 = n2
  GNodes = {n1, n2}
  Custom = {"g1"}
  Managers = {a1, a2}
  Lists <- NodeLists
  Keys = {k1, k2}
  Callers = {c1, c2}
  Procs = {p1}
  ApiAdmins = {a1}
  RateLimit = 1
  MaxWindows = 0
  MaxClock = 3
  MaxOps = 3
  MaxCalls = 2
  People = {u1, u2}
  BNodes = {n1}
  BGroups = {"g1"}
  Picks <- Restores
  DeleteOverlaps = FALSE
  MaxJobs = 2
  MaxEdits = 2
  RemoveOverlaps = FALSE
  MaxDirs = 2
  MaxFaults = 3
  Scenes = {"accounts"}
SPECIFICATION ScenesSpec
CHECK_DEADLOCK FALSE
PROPERTIES SuperAdminRemains

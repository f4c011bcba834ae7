CONSTANTS
  MaxJobs = 1
  MaxFaults = 0
  Kinds = {"routine"}
  Faults <- FaultsHeartbeat
SPECIFICATION Spec
PROPERTIES RecoverOnlyDead

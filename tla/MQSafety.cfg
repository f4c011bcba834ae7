CONSTANTS
  MaxJobs = 2
  MaxFaults = 3
  Kinds = {"routine", "clear", "restore", "nuclear"}
  Faults <- FaultsSingle
SPECIFICATION ScenesSpec
INVARIANTS TypeOK MutualExclusion OneActiveRow FifoOrder OutcomeTruthful
INVARIANTS SingleSettles
PROPERTIES CancelledForGood

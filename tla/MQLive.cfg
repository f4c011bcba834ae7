CONSTANTS
  MaxJobs = 2
  MaxFaults = 1
  Kinds = {"routine", "nuclear"}
  Faults <- FaultsLive
SPECIFICATION LiveSpec
INVARIANTS NuclearAlone
PROPERTIES JobsSettle WebReturns

CONSTANTS
  MaxJobs = 1
  MaxFaults = 0
  Kinds = {"nuclear"}
  Faults <- FaultsProbe
SPECIFICATION Spec
INVARIANTS ResetFenced

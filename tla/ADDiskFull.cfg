CONSTANTS
  MaxWire = 1
  MaxTime = 2
  Skew = 0
  MaxFuture = 1
  Faults <- FaultsDisk
  MaxFaults = 1
SPECIFICATION Spec
PROPERTIES ErrorMeansRetained
\* A run ends when its bounded clock does: nothing is collected after MaxTime.
CHECK_DEADLOCK FALSE

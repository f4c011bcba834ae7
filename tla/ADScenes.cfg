CONSTANTS
  MaxWire = 2
  MaxTime = 3
  Skew = 0
  MaxFuture = 1
  Faults <- FaultsLossy
  MaxFaults = 2
SPECIFICATION ScenesSpec
INVARIANTS TypeOK LossyNoDoubleCount
PROPERTIES LivePendingConfirmed
\* A run ends when its bounded clock does: nothing is collected after MaxTime.
CHECK_DEADLOCK FALSE

CONSTANTS
  VMs = {1}
  Nodes = {n1, n2}
  ConfirmPushes = 2
  ConfirmAge = 2
  PurgeAge = 3
  Slots = 1
  MaxDelay = 1
  MaxActs = 2
  Extras <- EveryActor
SPECIFICATION ScenesSpec
INVARIANTS ScenesTypeOK LocationHolds
PROPERTIES RowsKept SerialSettledIsFound OverlapPushesFinish

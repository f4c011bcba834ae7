CONSTANTS
  VMs = {1}
  Nodes = {n1, n2}
  ConfirmPushes = 2
  ConfirmAge = 2
  PurgeAge = 3
  Slots = 2
  MaxDelay = 1
  MaxActs = 3
  Extras <- PushesOnly
SPECIFICATION Spec
PROPERTIES ReportedIsKept

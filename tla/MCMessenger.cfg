SPECIFICATION MSpec
CONSTANTS
  Alice = Alice
  Bob = Bob
  Nobody = Nobody
  NoOpk = NoOpk
  Opks = {}
  MaxInits = 2
  MaxTakes = 2
  MaxSends = 2
  Faults = {"crash"}
  MaxBacklog = 2
  RpcTimesOut = TRUE
INVARIANTS MTypeOK DiskHasSession
PROPERTIES DeliverySpec
SYMMETRY UserSymmetry
CHECK_DEADLOCK FALSE

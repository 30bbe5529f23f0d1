SPECIFICATION MSpec
CONSTANTS
  Alice = Alice
  Bob = Bob
  Nobody = Nobody
  NoOpk = NoOpk
  Opks = {}
  MaxInits = 2
  MaxTakes = 2
  MaxSends = 2
  Faults = {}
  MaxBacklog = 2
  RpcTimesOut = FALSE
PROPERTY WipedByOtherRun
CHECK_DEADLOCK FALSE

SPECIFICATION SetupSpec
CONSTANTS
  Peers = {p1, p2}
  Nobody = Nobody
  OpkCount = 2
  MaxFetches = 3
INVARIANTS SetupTypeOK PairsServeOnce  ReplenishesToTarget
SYMMETRY SetupSymmetry
CHECK_DEADLOCK FALSE

SPECIFICATION Spec
CONSTANTS
  Leaves = {1, 2, 3}
  Roots = {1, 2}
  Txs = {t1, t2}
  NoRoot = NoRoot
  NoTx = NoTx
  BatchSize = 2
  MinRoots = 2
  MaxRootsPerTx = 2
  MaxAttempts = 2
  MaxRestarts = 1
  Faults = {"db", "rpc", "revert", "drop"}
INVARIANTS TypeOK LeavesFollowRoots
PROPERTIES SettledStays LedgerSpec
SYMMETRY TxSymmetry
CHECK_DEADLOCK FALSE

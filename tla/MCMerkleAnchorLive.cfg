SPECIFICATION FairSpec
CONSTANTS
  Leaves = {1, 2}
  Roots = {1, 2}
  Txs = {t1, t2, t3, t4}
  NoRoot = NoRoot
  NoTx = NoTx
  BatchSize = 2
  MinRoots = 2
  MaxRootsPerTx = 2
  MaxAttempts = 2
  MaxRestarts = 0
  Faults = {"rpc", "revert"}
PROPERTY EveryLeafSettles

SPECIFICATION RpcSpec
CONSTANTS
  MaxCalls = 4
INVARIANTS RpcTypeOK 
PROPERTY CallsSpec
CHECK_DEADLOCK FALSE

CONSTANTS
  IntBits = 8
  SizeBits = 16
  Configs <- PassConfigs
  None = None
SPECIFICATION Spec
CHECK_DEADLOCK FALSE
INVARIANTS  PoolsIntact NodesReused DecodedAsSent

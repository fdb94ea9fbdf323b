SPECIFICATION FairSpec
CONSTANTS
  A = A  B = B  C = C  D = D  L = L  v1 = v1  v2 = v2  vLong = vLong  None = None
  LongKeys <- OneLongKey
  Keys <- AllKeys
  Values <- AllValues
  LongValues <- OneLongValue
  Hash <- HashOf
  Cap = 4
  Owners <- StoreAndRegistry
INVARIANTS FreeSlotDuringSet PslIsDistance RobinHoodOrder
PROPERTIES ReadYourWrite EveryCallReturns MapSpec

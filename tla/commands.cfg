CONSTANTS
  IntHalf = 8
  QtyHalf = 32
  price_min = 1
  price_max = 2
  Configs <- PassConfigs
SPECIFICATION Spec
CHECK_DEADLOCK FALSE
INVARIANTS    BookIsNet NeverMoreThanOffered

SPECIFICATION Spec
CONSTANTS
  Keys = {"j", "k", "longkey"}
  LongKeys = {"longkey"}
  Values = {"v", "w", "bad"}
  BadValues = {"bad"}
  Size <- SizeOf
  Hdr = 1
  MaxLists = 3
  LogCap = 10
  ChainMax = 4
  ReplyCap = 18
  MaxRestarts = 1
  None = None
INVARIANTS  RecordsDisjoint
CHECK_DEADLOCK FALSE

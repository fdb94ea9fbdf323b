SPECIFICATION Spec
CONSTANTS
  Keys = {"y", "z", "longkey"}
  LongKeys = {"longkey"}
  Members = {0, 1, 2, 3, 4, 5, 6, 7, 8, 9, 10, 11, 12, 13}
  BadMembers = {0}
  Scores = {1, 2, 3}
  Configs <- AllSmall
  None = None
INVARIANTS ScoresFaithful  WellFormed
CHECK_DEADLOCK FALSE

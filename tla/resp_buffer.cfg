SPECIFICATION Spec
CONSTANTS
  BufCap = 7
  Lens = {1, 2, 3, 4, 5, 8}
  MaxBytes = 18
INVARIANTS StreamIntact CommandIntact RoomForHalf
CHECK_DEADLOCK FALSE

SPECIFICATION Spec
CONSTANTS
  c1 = c1  c2 = c2  c3 = c3  ch1 = ch1  None = None
  Clients <- ThreeClients
  Fds = {1, 2}
  Channels <- OneChannel
  Configs <- IoAndAccept
  MaxEvents = 2
  WriteCap = 2
  SockCap = 1
  RingCap = 2
  ReplySize = 1
  MsgSize = 2
SYMMETRY Symmetry
INVARIANTS Accounting NoStaleEvent NoLostWakeup StreamPrefix
PROPERTIES ClosedServesOnce 

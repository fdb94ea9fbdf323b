SPECIFICATION FairSpec
CONSTANTS
  c1 = c1  c2 = c2  c3 = c3  ch1 = ch1  None = None
  Clients <- TwoClients
  Fds = {1, 2}
  Channels <- OneChannel
  Configs <- RepliesAndLimit
  MaxEvents = 4
  WriteCap = 3
  SockCap = 1
  RingCap = 2
  ReplySize = 2
  MsgSize = 2
PROPERTIES CommandsServed BacklogServed

SPECIFICATION FairSpec
CONSTANTS
  None = None
  Interval = 2
  MaxCommands = 2
  MaxFaults = 1
  BusyPoll = {TRUE, FALSE}
  MaxSignals = 2
  MaxLives = 2
INVARIANTS SnapshotSafe ReleasedAtExit UsesHeld SignalObeyed
PROPERTIES StopsOnSignal Published
CHECK_DEADLOCK FALSE

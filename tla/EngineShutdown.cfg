SPECIFICATION FairSpec
CONSTANTS
  Media = {"episode"}
  Commands = {"Load", "Pause", "Shutdown"}
  QueueCap = 2
  MaxSubmits = 3
  MaxLoads = 1
  DeviceFails = FALSE
PROPERTIES ShutdownHeard
CHECK_DEADLOCK FALSE

SPECIFICATION Spec
CONSTANTS
  Media = {"local"}
  Commands = {"Load", "PlayLoaded", "Pause", "Restart"}
  QueueCap = 2
  MaxSubmits = 5
  MaxLoads = 1
  DeviceFails = FALSE
INVARIANTS PausedIsSilent
CHECK_DEADLOCK FALSE

SPECIFICATION Spec
CONSTANTS
  Media = {"station"}
  Commands = {"Load", "PlayLoaded"}
  QueueCap = 2
  MaxSubmits = 2
  MaxLoads = 1
  DeviceFails = FALSE
INVARIANTS ScheduledIsRecovering
CHECK_DEADLOCK FALSE

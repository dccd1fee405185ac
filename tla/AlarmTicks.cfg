SPECIFICATION AlarmSpec
CONSTANTS
  comm_streak = 2
  STALL_TICKS = 4
  PERSIST_TICKS = 3
  CanOverrun = TRUE
  Requests <- Pings
PROPERTIES
  AlarmPersists
  AlarmNoticed

SPECIFICATION WdSpec
CONSTANTS
  Joints = {j1}
  MaxTick = 0
  max_step = 1
  ramp_step = 1
  ramp_done = 0
  REOPEN_AFTER = 2
  STREAK_MAX = 2
  comm_streak = 1
  STALL_TICKS = 1
  PERSIST_TICKS = 1
  MaxLag = 1
  Noisy = {}
  Preemptible = FALSE
  CanHang = TRUE
  CanOverrun = FALSE
  Unpluggable = {}
  AlarmSource = {}
  Requests <- PowerCommands
PROPERTIES
  StallStops
  HangEndsPings
CHECK_DEADLOCK FALSE

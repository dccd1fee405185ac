SPECIFICATION Spec
CONSTANTS
  Joints = {j1}
  MaxTick = 0
  max_step = 1
  ramp_step = 1
  ramp_done = 0
  REOPEN_AFTER = 5
  STREAK_MAX = 6
  comm_streak = 1
  STALL_TICKS = 1
  PERSIST_TICKS = 2
  MaxLag = 1
  Noisy = {}
  Preemptible = FALSE
  CanHang = FALSE
  CanOverrun = FALSE
  Unpluggable = {"follower"}
  AlarmSource = {}
  Requests <- AllCommands
INVARIANTS
  TypeOK
  FaultsForceSafeMode
  EstopLatched
  PowerNeedsCleanSnapshot
  PoweredMeansTorque
  CutWithinTwoCycles
  LimpUnlessLost

SPECIFICATION TeleopSpec
CONSTANTS
  Joints = {j1}
  MaxTick = 4
  max_step = 2
  ramp_step = 1
  ramp_done = 1
  leader_speed = 1
  REOPEN_AFTER = 2
  STREAK_MAX = 2
  Noisy = {}
  CanHang = FALSE
  AlarmSource = {}
  Unpluggable = {}
  MANT_BITS = 10
  FRAC_BITS = 14
  Calibrations <- Files
PROPERTIES
  HoldReached
  SoftStartEnds
  GoalInRange
  FollowsLeader

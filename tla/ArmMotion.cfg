SPECIFICATION ArmSpec
CONSTANTS
  Joints = {j1}
  MaxTick = 3
  max_step = 2
  ramp_step = 1
  ramp_done = 1
  leader_speed = 3
  REOPEN_AFTER = 2
  STREAK_MAX = 2
  Noisy = {}
  CanHang = FALSE
  AlarmSource = {}
  Unpluggable = {"follower"}
PROPERTIES
  NoJump
  EnabledAtPose
  SoftStart
  HoldHolds

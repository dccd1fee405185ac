------------------------------- MODULE Teleop ------------------------------
(***************************************************************************)
(* The control thread with the calibrations of both arms: what the leader  *)
(* is at, in its own ticks, decides what the follower is told, in its own. *)
(* The leader, moved by hand, goes at most leader_speed ticks in a cycle.  *)
(***************************************************************************)
EXTENDS Arm, Calib

CONSTANT Calibrations  \* what the files can say of a joint, for both arms

ASSUME TeleopAssumption ==
  Calibrations \subseteq [leader : ValidJoints(Ticks), follower : ValidJoints(Ticks)]

(* Ticks and percents are floats without rounding (4095 and 200 < 2^24).   *)
ASSUME WidthAssumption ==
  /\ MaxTick * One < 2^(MANT_BITS + FRAC_BITS)
  /\ 200 * One < 2^(MANT_BITS + FRAC_BITS)

VARIABLES
  cal,         \* cal_leader and cal_follower, as calib_load read them
  leader_raw   \* leader_pos[]

teleopVars == <<armVars, cal, leader_raw>>

TeleopInit ==
  /\ ArmInit
  /\ cal \in [Joints -> Calibrations]
  /\ leader_raw \in Pose

(* [mutant of Mapped] the range of the wrong arm                           *)
MappedOwn ==
  [c \in Calibrations |-> [raw \in Ticks |->
     calib_unnormalize(c.leader, calib_normalize(c.leader, raw))]]

(* leader_norm of a raw position, as ticks of the follower.                *)
Mapped ==
  [c \in Calibrations |-> [raw \in Ticks |->
     calib_unnormalize(c.follower, calib_normalize(c.leader, raw))]]

SenseBoth ==
  /\ Sense
  /\ IF leader_ok'
       THEN /\ leader_raw' \in Pose
            /\ \A j \in Joints :
                 /\ Abs(leader_raw'[j] - leader_raw[j]) =< leader_speed
                 /\ leader_map'[j] = Mapped[cal[j]][leader_raw'[j]]
       ELSE UNCHANGED leader_raw
  /\ UNCHANGED <<caught, cal>>

TeleopCycle ==
  \/ SenseBoth
  \/ (EnterMode \/ MoveGoal) /\ UNCHANGED <<cal, leader_raw>>
  \/ (Start \/ Seal \/ Leave) /\ UNCHANGED <<caught, cal, leader_raw>>

TeleopNext ==
  \/ TeleopCycle
  \/ (Supervise \/ Stop \/ Ended) /\ UNCHANGED <<cal, leader_raw>>

(* The scheduler runs the thread in every slot.                            *)
TeleopSpec ==
  /\ TeleopInit /\ [][TeleopNext]_teleopVars
  /\ WF_teleopVars(TeleopCycle)

-----------------------------------------------------------------------------
(* Properties.                                                             *)

InRange(j, p) ==
  p \in cal[j].follower.range_min .. cal[j].follower.range_max

(* TELEOP never drives a joint out of the calibrated range of the          *)
(* follower, wherever the leader is, and takes a joint found outside it    *)
(* not a tick further (the clamps of both conversions, step 4 of the       *)
(* loop).                                                                  *)
GoalInRange ==
  [][applied = "TELEOP" /\ applied' = "TELEOP" /\ torque /\ torque' =>
       \A j \in Joints :
         goal'[j] # goal[j] =>
           \/ InRange(j, goal'[j])
           \/ /\ ~InRange(j, goal[j])
              /\ goal[j] < goal'[j] <=> goal[j] < cal[j].follower.range_min
     ]_teleopVars

(* The share of its range a leader at raw is at, of Span(c.leader).        *)
Share(c, raw) ==
  LET v == Clamp(raw, c.leader.range_min, c.leader.range_max)
  IN IF c.leader.drive_mode = c.follower.drive_mode
       THEN v - c.leader.range_min ELSE c.leader.range_max - v

(* The position p is at the same share of the follower's range, within a   *)
(* tick: never above it when it is a whole number of ticks, and exactly    *)
(* there at both ends (test_calib.c: "Leader end of range -> follower end  *)
(* of range", "Round trip on the same arm stays within 1 tick").           *)
Proportional(c, raw, p) ==
  LET whole == Span(c.leader)
      off == whole * (p - c.follower.range_min) - Share(c, raw) * Span(c.follower)
  IN /\ -whole =< off /\ off < whole
     /\ Share(c, raw) \in {0, whole} => off = 0

(* A leader that comes to rest is followed: in a stay in TELEOP the goal   *)
(* settles where the leader is, proportionally, through the floats of both *)
(* conversions and the soft start.                                         *)
FollowsLeader ==
  /\ <>[](applied = "TELEOP" /\ torque /\ leader_ok /\ run)
  /\ <>[][UNCHANGED leader_raw]_leader_raw
  => <>[](\A j \in Joints : Proportional(cal[j], leader_raw[j], goal[j]))

=============================================================================

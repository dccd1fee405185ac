-------------------------------- MODULE Arm --------------------------------
(***************************************************************************)
(* The control thread and the follower it moves, under any supervisor at   *)
(* all: mode_req takes any value at any time.  This is where the positions *)
(* matter: what the goal does, and what the servos are told.               *)
(*                                                                         *)
(* mode_req is read once in a cycle, by Sense, so it need only change just *)
(* before that.  The leader, moved by hand, goes at most leader_speed      *)
(* ticks from one cycle to the next; where the follower is found is not    *)
(* restricted, as gravity and loads move it too.                           *)
(***************************************************************************)
EXTENDS Control

CONSTANT leader_speed

ASSUME ArmAssumption == leader_speed \in Nat

(* history: the joints that have been within ramp_done of where the leader *)
(* or the hold pose wants them, since the mode was entered                 *)
VARIABLE caught

armVars == <<shmVars, ctlVars, caught>>

ArmInit ==
  /\ CtlInit
  /\ mode_req = "IDLE"
  /\ faults = {}
  /\ sample = EmptySample
  /\ writing = FALSE
  /\ unseen = {}
  /\ sup_beat = FALSE
  /\ run = TRUE
  /\ caught = {}

(* Where a joint should be in the mode in force, when that is known.       *)
Wanted(j, p) ==
  \/ applied = "TELEOP" /\ leader_ok /\ leader_map[j] = p
  \/ applied = "HOLD" /\ hold[j] = p

Near(j) == \E p \in Ticks : Wanted(j, p) /\ Abs(p - goal[j]) =< ramp_done

Supervise ==
  /\ ctl = "sense"
  /\ mode_req' \in Modes
  /\ UNCHANGED <<ctlVars, faults, sample, writing, unseen, sup_beat, run, caught>>

(* Sense with a leader that moves no faster than a hand moves it.          *)
SenseByHand ==
  /\ Sense
  /\ \A j \in Joints : Abs(leader_map'[j] - leader_map[j]) =< leader_speed
  /\ UNCHANGED caught

EnterMode ==
  /\ Transition
  /\ caught' = IF applied' # applied THEN {} ELSE caught

MoveGoal ==
  /\ Move
  /\ caught' = IF torque THEN caught \cup {j \in Joints : Near(j)} ELSE {}

Stop ==
  /\ run
  /\ run' = FALSE
  /\ UNCHANGED <<ctlVars, mode_req, faults, sample, writing, unseen, sup_beat,
                 caught>>

Cycle ==
  \/ SenseByHand \/ EnterMode \/ MoveGoal
  \/ (Start \/ Seal \/ Leave) /\ UNCHANGED caught

Ended == ctl = "done" /\ UNCHANGED armVars

ArmNext ==
  \/ Cycle \/ Supervise \/ Stop \/ Ended
  \/ Cable /\ UNCHANGED caught

ArmSpec == ArmInit /\ [][ArmNext]_armVars

-----------------------------------------------------------------------------
(* Properties.                                                             *)

Larger(x, y) == IF x > y THEN x ELSE y

(* A torqued follower never jumps: as long as its torque stays on, its     *)
(* goal registers move by no more than one step of the fast limit (or of   *)
(* the ramp, whichever is larger), through mode changes, unplugging and    *)
(* reopening (step 4 of the loop, and the order of the writes in step 3).  *)
NoJump ==
  [][servo_torque /\ servo_torque' =>
       \A j \in Joints : Abs(servo_goal'[j] - servo_goal[j])
                           =< Larger(max_step, ramp_step)]_armVars

(* When torque comes on, the goal registers hold the pose read in the same *)
(* cycle ("no jump").                                                      *)
EnabledAtPose ==
  [][~servo_torque /\ servo_torque' => servo_goal' = follower_pos]_armVars

(* A joint moves faster than ramp_step only after it has caught up with    *)
(* its target once since the mode was entered (soft start).                *)
SoftStart ==
  [][torque /\ torque' =>
       \A j \in Joints : Abs(goal'[j] - goal[j]) > ramp_step
                           => j \in caught']_armVars

(* HOLD holds: within one stay in HOLD the pose to hold does not change    *)
(* and the goal never moves away from it.                                  *)
HoldHolds ==
  [][applied = "HOLD" /\ applied' = "HOLD" /\ torque /\ torque' =>
       /\ hold' = hold
       /\ \A j \in Joints : Abs(hold'[j] - goal'[j])
                              =< Abs(hold[j] - goal[j])]_armVars

(* A stay in HOLD that does not end brings the goal to the pose to hold.   *)
HoldReached ==
  (<>[](applied = "HOLD" /\ torque /\ run)) => <>[](goal = hold)

(* A leader that keeps moving does not trap a joint in the slow ramp: a    *)
(* stay in TELEOP with the leader answering ends the soft start.           *)
SoftStartEnds ==
  (<>[](applied = "TELEOP" /\ torque /\ leader_ok /\ run)) => <>[](ramp = {})

=============================================================================

----------------------------- MODULE ArmProofs -----------------------------
(***************************************************************************)
(* The follower does not jump, starts softly, holds, and stays in its      *)
(* calibrated range, for every number of joints, every range of positions, *)
(* every calibration, every limit, and every sequence of modes that any    *)
(* supervisor may ask for.                                                 *)
(*                                                                         *)
(* That the servos do not jump is not a matter of the goal alone: what     *)
(* they hold can lag behind the goal while a cable is out.  WireInv says   *)
(* when it does not: a working descriptor and torque on mean that the      *)
(* registers hold the goal, because a port that was dead is only ever      *)
(* opened together with torque off.                                        *)
(*                                                                         *)
(* That TELEOP stays in the range of the follower is a matter of rounding: *)
(* the conversions divide in floats, and no rounding passes a whole number *)
(* because whole numbers are floats themselves (FloatBounds).              *)
(***************************************************************************)
EXTENDS Teleop, WellFoundedInduction, TLAPS

(* The leader moves as it likes: by hand (Arm) or as its calibration says  *)
(* (Teleop), which is all that tells the two specifications apart here.    *)
FreeNext ==
  \/ Sense /\ UNCHANGED caught
  \/ EnterMode \/ MoveGoal
  \/ (Start \/ Seal \/ Leave \/ Cable) /\ UNCHANGED caught
  \/ Supervise \/ Stop \/ Ended

FreeSpec == ArmInit /\ [][FreeNext]_armVars

(* What the proofs need of the types.                                      *)
ArmTypeOK ==
  /\ goal \in Pose /\ hold \in Pose /\ leader_map \in Pose
  /\ follower_pos \in Pose
  /\ fd \in [Arms -> {"open", "dead"}] /\ plugged \in [Arms -> BOOLEAN]
  /\ torque \in BOOLEAN /\ servo_torque \in BOOLEAN
  /\ servo_goal \in Pose

(* On a wire that loses no frame: what the registers of the follower hold. *)
WireInv ==
  /\ \A a \in Arms : fd[a] = "open" => plugged[a]
  /\ fd["follower"] = "open" =>
       /\ torque => servo_goal = goal
       /\ ~torque /\ ctl # "start" => ~servo_torque

(* Which joints have caught up.                                            *)
RampInv ==
  /\ torque => applied \in Powered
  /\ torque => Joints \ ramp \subseteq caught
  /\ fd["leader"] = "open" /\ plugged["leader"]
  /\ ctl \in {"transition", "move"} => leader_ok

-----------------------------------------------------------------------------

LEMMA TeleopSteps ==
  ASSUME [TeleopNext]_teleopVars
  PROVE  [FreeNext]_armVars
BY DEF TeleopNext, TeleopCycle, SenseBoth, FreeNext, teleopVars

(* Both specifications leave the leader free.                              *)
LEMMA LeadersAreFree == (ArmSpec => FreeSpec) /\ (TeleopSpec => FreeSpec)
<1>1. [ArmNext]_armVars => [FreeNext]_armVars
  BY DEF ArmNext, Cycle, SenseByHand, FreeNext
<1>2. TeleopInit => ArmInit
  BY DEF TeleopInit
<1> QED
  BY <1>1, <1>2, TeleopSteps, PTL DEF ArmSpec, TeleopSpec, FreeSpec

-----------------------------------------------------------------------------
(* The step of a joint.                                                    *)

(* A clipped step is bounded by the pace, and takes the goal no farther    *)
(* from its target.                                                        *)
LEMMA ClipBounds ==
  ASSUME NEW t \in Int, NEW g \in Int, NEW step \in Nat
  PROVE  /\ Abs((g + Clip(t - g, step)) - g) =< step
         /\ Abs(t - (g + Clip(t - g, step))) =< Abs(t - g)
BY DEF Clip, Abs

LEMMA TargetType ==
  ASSUME ArmTypeOK, NEW j \in Joints
  PROVE  Target(j) \in Ticks /\ goal[j] \in Ticks /\ Pace(j) \in Nat
<1>1. Target(j) \in Ticks /\ goal[j] \in Ticks
  BY DEF ArmTypeOK, Pose, Target
<1>2. Pace(j) \in Nat
  BY ControlAssumption DEF Pace
<1> QED
  BY <1>1, <1>2

(* The goal of a joint stays a servo position: a step does not overshoot.  *)
LEMMA SteppedInRange ==
  ASSUME ArmTypeOK, NEW j \in Joints
  PROVE  Stepped(j) \in Ticks
<1>1. Target(j) \in Ticks /\ goal[j] \in Ticks /\ Pace(j) \in Nat
  BY TargetType
<1> QED
  BY <1>1, ControlAssumption DEF Stepped, Clip, Ticks

LEMMA StepBounded ==
  ASSUME ArmTypeOK, NEW j \in Joints
  PROVE  /\ Abs(Stepped(j) - goal[j]) =< Pace(j)
         /\ Abs(Target(j) - Stepped(j)) =< Abs(Target(j) - goal[j])
<1>1. Target(j) \in Ticks /\ goal[j] \in Ticks /\ Pace(j) \in Nat
  BY TargetType
<1>2. Target(j) \in Int /\ goal[j] \in Int
  BY <1>1, ControlAssumption DEF Ticks
<1> QED
  BY <1>1, <1>2, ClipBounds DEF Stepped

(* The step of a torqued joint is at most that of the faster limit.        *)
LEMMA PaceBounded ==
  ASSUME NEW j \in Joints
  PROVE  Pace(j) =< Larger(max_step, ramp_step)
BY ControlAssumption DEF Pace, Larger

LEMMA NextGoalPose ==
  ASSUME ArmTypeOK
  PROVE  NextGoal \in Pose
<1>1. [j \in Joints |-> Stepped(j)] \in Pose
  BY SteppedInRange DEF Pose
<1>2. goal \in Pose /\ follower_pos \in Pose
  BY DEF ArmTypeOK
<1> QED
  BY <1>1, <1>2 DEF NextGoal

-----------------------------------------------------------------------------
(* Types.                                                                  *)

LEMMA HeardType ==
  ASSUME NEW a, NEW f
  PROVE  Arrives(a, f) \subseteq BOOLEAN
BY DEF Arrives

(* What Sense does to the follower's side of the wire.                     *)
LEMMA SenseEffect ==
  ASSUME Sense
  PROVE  \E lok \in Arrives("leader", fd), fok \in Arrives("follower", fd),
            port \in [Arms -> {fd["leader"], fd["follower"], "open", "dead"}] :
           /\ leader_ok' = lok /\ follower_ok' = fok
           /\ lok => leader_map' \in Pose
           /\ ~lok => leader_map' = leader_map
           /\ fok => follower_pos' \in Pose
           /\ ~fok => follower_pos' = follower_pos
           /\ fd' = port
           /\ port["leader"] =
                IF ~Reopens("leader", lok) THEN fd["leader"]
                ELSE IF plugged["leader"] THEN "open" ELSE "dead"
           /\ port["follower"] =
                IF ~Reopens("follower", fok) THEN fd["follower"]
                ELSE IF plugged["follower"] THEN "open" ELSE "dead"
           /\ Reopens("follower", fok) =>
                /\ torque' = FALSE
                /\ \E heard \in Arrives("follower", port) :
                     servo_torque' = set_torque(FALSE, heard)
           /\ ~Reopens("follower", fok) => UNCHANGED <<torque, servo_torque>>
<1> PICK lok \in Arrives("leader", fd), fok \in Arrives("follower", fd) :
       LET ok == [a \in Arms |-> IF a = "leader" THEN lok ELSE fok]
           port == [a \in Arms |-> IF ~Reopens(a, ok[a]) THEN fd[a]
                                   ELSE IF plugged[a] THEN "open" ELSE "dead"]
       IN /\ leader_ok' = lok
          /\ IF lok THEN leader_map' \in Pose ELSE UNCHANGED leader_map
          /\ follower_ok' = fok
          /\ IF fok THEN follower_pos' \in Pose /\ alarm' \in SUBSET AlarmSource
                    ELSE UNCHANGED <<follower_pos, alarm>>
          /\ fd' = port
          /\ IF Reopens("follower", fok)
               THEN /\ torque' = FALSE
                    /\ \E heard \in Arrives("follower", port) :
                         servo_torque' = ReopenTorque(heard)
               ELSE UNCHANGED <<torque, servo_torque>>
  BY DEF Sense
<1> DEFINE ok == [a \in Arms |-> IF a = "leader" THEN lok ELSE fok]
           port == [a \in Arms |-> IF ~Reopens(a, ok[a]) THEN fd[a]
                                   ELSE IF plugged[a] THEN "open" ELSE "dead"]
<1>1. ok["leader"] = lok /\ ok["follower"] = fok
  BY DEF Arms
<1>2. /\ port["leader"] = IF ~Reopens("leader", lok) THEN fd["leader"]
                          ELSE IF plugged["leader"] THEN "open" ELSE "dead"
      /\ port["follower"] = IF ~Reopens("follower", fok) THEN fd["follower"]
                            ELSE IF plugged["follower"] THEN "open" ELSE "dead"
  BY <1>1 DEF Arms
<1>3. port \in [Arms -> {fd["leader"], fd["follower"], "open", "dead"}]
  BY DEF Arms
<1>4. /\ fd' = port /\ leader_ok' = lok /\ follower_ok' = fok
      /\ IF lok THEN leader_map' \in Pose ELSE UNCHANGED leader_map
      /\ IF fok THEN follower_pos' \in Pose /\ alarm' \in SUBSET AlarmSource
                    ELSE UNCHANGED <<follower_pos, alarm>>
      /\ IF Reopens("follower", fok)
               THEN /\ torque' = FALSE
                    /\ \E heard \in Arrives("follower", port) :
                         servo_torque' = ReopenTorque(heard)
               ELSE UNCHANGED <<torque, servo_torque>>
  OBVIOUS
<1> HIDE DEF port, ok
<1> WITNESS lok \in Arrives("leader", fd), fok \in Arrives("follower", fd),
            port \in [Arms -> {fd["leader"], fd["follower"], "open", "dead"}]
<1> QED
  BY <1>2, <1>4 DEF ReopenTorque

(* The transitions of a mode.                                              *)
LEMMA TransitionArmType ==
  ASSUME ArmTypeOK, Transition
  PROVE  ArmTypeOK'
<1> USE HeardType
<1>0. UNCHANGED <<leader_map, follower_pos, fd, plugged>>
  BY DEF Transition, busVars
<1>1. CASE Refuse \/ Keep
  BY <1>0, <1>1 DEF Refuse, Keep, ArmTypeOK
<1>2. CASE Enable
  <2>1. servo_torque' \in BOOLEAN /\ servo_goal' \in Pose
    BY <1>2 DEF Enable, EnablePose, write_goal, set_torque, ArmTypeOK
  <2> QED
    BY <1>0, <1>2, <2>1 DEF Enable, EnablePose, ArmTypeOK
<1>3. CASE Switch
  BY <1>0, <1>3 DEF Switch, ArmTypeOK
<1>4. CASE Disable
  <2>1. servo_torque' \in BOOLEAN
    BY <1>4 DEF Disable, set_torque, ArmTypeOK
  <2> QED
    BY <1>0, <1>4, <2>1 DEF Disable, ArmTypeOK
<1> QED
  BY <1>1, <1>2, <1>3, <1>4 DEF Transition

LEMMA CableArm ==
  ASSUME ArmTypeOK, Cable
  PROVE  /\ ArmTypeOK'
         /\ \A a \in Arms : fd'[a] = "open" => fd[a] = "open"
         /\ \A a \in Arms : plugged[a] /\ a \notin Unpluggable => plugged'[a]
         /\ \A a \in Arms : fd[a] = "open" /\ a \notin Unpluggable => fd'[a] = "open"
         /\ (\A a \in Arms : fd[a] = "open" => plugged[a])
              => (\A a \in Arms : fd'[a] = "open" => plugged'[a])
<1> PICK a \in Arms : Unplug(a) \/ Plug(a)
  BY DEF Cable
<1>1. UNCHANGED <<goal, hold, leader_map, follower_pos, torque, servo_torque, servo_goal>>
  BY DEF Cable
<1>2. CASE Unplug(a)
  BY <1>1, <1>2 DEF Unplug, ArmTypeOK
<1>3. CASE Plug(a)
  BY <1>1, <1>3 DEF Plug, ArmTypeOK
<1> QED
  BY <1>2, <1>3

LEMMA ArmTypeNext ==
  ASSUME ArmTypeOK, [FreeNext]_armVars
  PROVE  ArmTypeOK'
<1> USE HeardType
<1>1. CASE Sense /\ UNCHANGED caught
  <2> PICK lok \in Arrives("leader", fd), fok \in Arrives("follower", fd),
           port \in [Arms -> {fd["leader"], fd["follower"], "open", "dead"}] :
           /\ lok => leader_map' \in Pose
           /\ ~lok => leader_map' = leader_map
           /\ fok => follower_pos' \in Pose
           /\ ~fok => follower_pos' = follower_pos
           /\ fd' = port
           /\ Reopens("follower", fok) =>
                /\ torque' = FALSE
                /\ \E heard \in Arrives("follower", port) :
                     servo_torque' = set_torque(FALSE, heard)
           /\ ~Reopens("follower", fok) => UNCHANGED <<torque, servo_torque>>
    BY <1>1, SenseEffect
  <2>1. leader_map' \in Pose /\ follower_pos' \in Pose
    BY DEF ArmTypeOK
  <2>2. fd' \in [Arms -> {"open", "dead"}]
    BY DEF ArmTypeOK, Arms
  <2>3. torque' \in BOOLEAN /\ servo_torque' \in BOOLEAN
    BY DEF ArmTypeOK, set_torque
  <2>4. UNCHANGED <<goal, hold, plugged, servo_goal>>
    BY <1>1 DEF Sense
  <2> QED
    BY <2>1, <2>2, <2>3, <2>4 DEF ArmTypeOK
<1>2. CASE EnterMode
  BY <1>2, TransitionArmType DEF EnterMode
<1>3. CASE MoveGoal
  <2>1. servo_goal' \in Pose
    BY <1>3, NextGoalPose DEF MoveGoal, Move, write_goal, ArmTypeOK
  <2> QED
    BY <1>3, <2>1, NextGoalPose DEF MoveGoal, Move, ArmTypeOK, busVars
<1>4. CASE Start \/ Leave
  <2>1. servo_torque' \in BOOLEAN
    BY <1>4 DEF Start, Leave, set_torque, ArmTypeOK
  <2> QED
    BY <1>4, <2>1 DEF Start, Leave, ArmTypeOK, busVars
<1>5. CASE Seal \/ Supervise \/ Stop \/ UNCHANGED armVars
  BY <1>5 DEF Seal, Supervise, Stop, armVars, ctlVars, ArmTypeOK, busVars
<1>6. CASE Cable
  BY <1>6, CableArm
<1> QED
  BY <1>1, <1>2, <1>3, <1>4, <1>5, <1>6 DEF FreeNext, Ended

(* The goal, the pose to hold and the target stay servo positions under    *)
(* any supervisor.                                                         *)
THEOREM ArmTypeCorrect == FreeSpec => []ArmTypeOK
<1>1. ArmInit => ArmTypeOK
  <2>1. [j \in Joints |-> 0] \in Pose
    BY ControlAssumption DEF Pose, Ticks
  <2> QED
    BY <2>1 DEF ArmInit, CtlInit, ArmTypeOK
<1> QED
  BY <1>1, ArmTypeNext, PTL DEF FreeSpec

-----------------------------------------------------------------------------
(* The wire.                                                               *)

(* Through a working descriptor every frame arrives on a clean wire, and   *)
(* through another none does.                                              *)
LEMMA CleanWire ==
  ASSUME NEW a, a \notin Noisy, NEW f, f[a] = "open" => plugged[a],
         NEW heard \in Arrives(a, f)
  PROVE  heard <=> f[a] = "open"
BY DEF Arrives

LEMMA FollowerIsArm == "follower" \in Arms /\ "leader" \in Arms
BY DEF Arms

LEMMA SenseWire ==
  ASSUME "follower" \notin Noisy, ArmTypeOK, WireInv, Sense
  PROVE  /\ WireInv'
         /\ UNCHANGED <<goal, servo_goal>>
         /\ servo_torque' => servo_torque
<1> PICK lok \in Arrives("leader", fd), fok \in Arrives("follower", fd),
         port \in [Arms -> {fd["leader"], fd["follower"], "open", "dead"}] :
         /\ fd' = port
         /\ port["leader"] =
              IF ~Reopens("leader", lok) THEN fd["leader"]
              ELSE IF plugged["leader"] THEN "open" ELSE "dead"
         /\ port["follower"] =
              IF ~Reopens("follower", fok) THEN fd["follower"]
              ELSE IF plugged["follower"] THEN "open" ELSE "dead"
         /\ Reopens("follower", fok) =>
              /\ torque' = FALSE
              /\ \E heard \in Arrives("follower", port) :
                   servo_torque' = set_torque(FALSE, heard)
         /\ ~Reopens("follower", fok) => UNCHANGED <<torque, servo_torque>>
  BY SenseEffect
<1>1. UNCHANGED <<goal, servo_goal, plugged>> /\ ctl = "sense" /\ ctl' = "transition"
  BY DEF Sense, At
<1>2. \A a \in Arms : fd'[a] = "open" => plugged[a]
  BY DEF WireInv, Arms
<1>3. CASE Reopens("follower", fok)
  <2> PICK heard \in Arrives("follower", port) : servo_torque' = set_torque(FALSE, heard)
    BY <1>3
  <2>1. heard <=> port["follower"] = "open"
    BY <1>2, CleanWire, FollowerIsArm
  <2> QED
    BY <1>1, <1>2, <1>3, <2>1 DEF WireInv, set_torque, ArmTypeOK
<1>4. CASE ~Reopens("follower", fok)
  BY <1>1, <1>2, <1>4 DEF WireInv
<1> QED
  BY <1>3, <1>4

(* A transition turns torque on only at the pose just read, and touches    *)
(* the goal registers only of an arm that is limp.                         *)
LEMMA TransitionWire ==
  ASSUME "follower" \notin Noisy, ArmTypeOK, WireInv, Transition
  PROVE  /\ WireInv'
         /\ servo_torque => servo_goal' = servo_goal
         /\ ~servo_torque /\ servo_torque' => servo_goal' = follower_pos
<1>1. UNCHANGED <<plugged, fd>> /\ ctl = "transition" /\ ctl' = "move"
  BY DEF Transition, At, busVars
<1>2. CASE Refuse \/ Keep \/ Switch
  BY <1>1, <1>2 DEF Refuse, Keep, Switch, WireInv
<1>3. CASE Enable
  <2> PICK h1 \in Arrives("follower", fd) : servo_goal' = write_goal(EnablePose, h1)
    BY <1>3 DEF Enable
  <2> PICK h2 \in Arrives("follower", fd) : servo_torque' = set_torque(TRUE, h2)
    BY <1>3 DEF Enable
  <2>1. /\ h1 <=> fd["follower"] = "open"
        /\ h2 <=> fd["follower"] = "open"
    BY CleanWire, FollowerIsArm DEF WireInv
  <2>2. ~torque /\ torque' /\ goal' = follower_pos
    BY <1>3 DEF Enable, EnablePose
  <2> QED
    BY <1>1, <2>1, <2>2 DEF WireInv, write_goal, set_torque, EnablePose
<1>4. CASE Disable
  <2>1. UNCHANGED <<goal, servo_goal>> /\ torque' = FALSE
    BY <1>4 DEF Disable
  <2>2. CASE torque
    <3> PICK heard \in Arrives("follower", fd) : servo_torque' = set_torque(FALSE, heard)
      BY <1>4, <2>2 DEF Disable
    <3>1. heard <=> fd["follower"] = "open"
      BY CleanWire, FollowerIsArm DEF WireInv
    <3> QED
      BY <1>1, <2>1, <3>1 DEF WireInv, set_torque
  <2>3. CASE ~torque
    BY <1>1, <1>4, <2>1, <2>3 DEF Disable, WireInv
  <2> QED
    BY <2>2, <2>3
<1> QED
  BY <1>2, <1>3, <1>4 DEF Transition

(* A cycle moves the registers to the goal it computed, or not at all.     *)
LEMMA MoveWire ==
  ASSUME "follower" \notin Noisy, ArmTypeOK, WireInv, Move
  PROVE  /\ WireInv'
         /\ UNCHANGED servo_torque
         /\ \/ servo_goal' = servo_goal
            \/ torque /\ servo_goal = goal /\ servo_goal' = [j \in Joints |-> Stepped(j)]
<1>1. UNCHANGED <<plugged, fd, torque, servo_torque>> /\ ctl = "move" /\ ctl' = "seal"
  BY DEF Move, At, busVars
<1> PICK heard \in Arrives("follower", fd) :
      servo_goal' = IF torque THEN write_goal(NextGoal, heard) ELSE servo_goal
  BY DEF Move
<1>2. heard <=> fd["follower"] = "open"
  BY CleanWire, FollowerIsArm DEF WireInv
<1>3. CASE torque
  <2>1. goal' = [j \in Joints |-> Stepped(j)] /\ NextGoal = [j \in Joints |-> Stepped(j)]
    BY <1>3 DEF Move, NextGoal
  <2>2. servo_goal' = IF heard THEN goal' ELSE servo_goal
    BY <1>3, <2>1 DEF write_goal
  <2> QED
    BY <1>1, <1>2, <1>3, <2>1, <2>2 DEF WireInv
<1>4. CASE ~torque
  BY <1>1, <1>4 DEF WireInv
<1> QED
  BY <1>3, <1>4

LEMMA StartLeaveWire ==
  ASSUME "follower" \notin Noisy, ArmTypeOK, WireInv, Start \/ Leave
  PROVE  /\ WireInv'
         /\ UNCHANGED servo_goal
         /\ servo_torque' => servo_torque
<1>1. UNCHANGED <<plugged, fd, torque, goal, servo_goal>>
  BY DEF Start, Leave, busVars
<1> PICK heard \in Arrives("follower", fd) : servo_torque' = set_torque(FALSE, heard)
  BY DEF Start, Leave
<1>2. heard <=> fd["follower"] = "open"
  BY CleanWire, FollowerIsArm DEF WireInv
<1> QED
  BY <1>1, <1>2 DEF WireInv, set_torque

LEMMA CableWire ==
  ASSUME ArmTypeOK, WireInv, Cable
  PROVE  WireInv' /\ UNCHANGED <<servo_goal, servo_torque>>
<1>1. UNCHANGED <<ctl, torque, goal, servo_goal, servo_torque>>
  BY DEF Cable
<1>2. /\ fd'["follower"] = "open" => fd["follower"] = "open"
      /\ \A a \in Arms : fd'[a] = "open" => plugged'[a]
  BY CableArm, FollowerIsArm DEF WireInv
<1> QED
  BY <1>1, <1>2 DEF WireInv

(* The steps that leave the wire alone.                                    *)
LEMMA IdleWire ==
  ASSUME WireInv, Seal \/ Supervise \/ Stop \/ UNCHANGED armVars
  PROVE  WireInv' /\ UNCHANGED <<servo_goal, servo_torque>>
<1>1. UNCHANGED <<torque, goal, servo_goal, servo_torque, plugged, fd>>
  BY DEF Seal, Supervise, Stop, ctlVars, armVars, busVars
<1>2. ctl' # "start" => ctl # "start"
  BY DEF Seal, At, Supervise, Stop, ctlVars, armVars
<1> QED
  BY <1>1, <1>2 DEF WireInv

LEMMA FreeSteps ==
  ASSUME [FreeNext]_armVars
  PROVE  Sense \/ Transition \/ Move \/ Start \/ Leave \/ Cable
           \/ Seal \/ Supervise \/ Stop \/ UNCHANGED armVars
BY DEF FreeNext, Ended, EnterMode, MoveGoal

(* What is on the wire, on a wire that loses no frame.                     *)
THEOREM WireInvariant ==
  ASSUME "follower" \notin Noisy
  PROVE  FreeSpec => [](ArmTypeOK /\ WireInv)
<1>1. ArmInit => WireInv
  BY DEF ArmInit, CtlInit, WireInv
<1>2. ASSUME ArmTypeOK, WireInv, [FreeNext]_armVars
      PROVE  WireInv'
  BY <1>2, FreeSteps, SenseWire, TransitionWire, MoveWire, StartLeaveWire, CableWire,
     IdleWire
<1> QED
  BY <1>1, <1>2, ArmTypeCorrect, PTL DEF FreeSpec

(* A torqued follower never jumps, whatever modes are asked for and        *)
(* whenever the cables go: on a wire that loses no frame its registers     *)
(* move by one clipped step at a time (control.c:135-155, 157-208).        *)
THEOREM FollowerNeverJumps ==
  ASSUME "follower" \notin Noisy
  PROVE  (ArmSpec => NoJump) /\ (TeleopSpec => NoJump)
<1>1. ASSUME ArmTypeOK, WireInv, [FreeNext]_armVars, servo_torque, servo_torque',
             NEW j \in Joints
      PROVE  Abs(servo_goal'[j] - servo_goal[j]) =< Larger(max_step, ramp_step)
  <2>0. Larger(max_step, ramp_step) \in Nat
    BY ControlAssumption DEF Larger
  <2>1. \/ servo_goal' = servo_goal
        \/ servo_goal = goal /\ servo_goal' = [i \in Joints |-> Stepped(i)]
    BY <1>1, FreeSteps, SenseWire, TransitionWire, MoveWire, StartLeaveWire, CableWire,
       IdleWire
  <2>2. CASE servo_goal = goal /\ servo_goal' = [i \in Joints |-> Stepped(i)]
    <3>1. servo_goal'[j] = Stepped(j)
      BY <2>2
    <3>2. Abs(Stepped(j) - goal[j]) =< Pace(j) /\ Pace(j) =< Larger(max_step, ramp_step)
      BY <1>1, StepBounded, PaceBounded
    <3>3. Stepped(j) \in Int /\ goal[j] \in Int /\ Pace(j) \in Int
      BY <1>1, SteppedInRange, TargetType, ControlAssumption DEF Ticks
    <3> QED
      BY <2>0, <2>2, <3>1, <3>2, <3>3 DEF Abs
  <2>3. CASE servo_goal' = servo_goal
    <3>1. servo_goal[j] \in Int
      BY <1>1, ControlAssumption DEF ArmTypeOK, Pose, Ticks
    <3> QED
      BY <2>0, <2>3, <3>1 DEF Abs
  <2> QED
    BY <2>1, <2>2, <2>3
<1>2. ASSUME ArmTypeOK, WireInv, [FreeNext]_armVars
      PROVE  [servo_torque /\ servo_torque' =>
                \A j \in Joints : Abs(servo_goal'[j] - servo_goal[j])
                                    =< Larger(max_step, ramp_step)]_armVars
  BY <1>1, <1>2
<1> QED
  BY <1>2, WireInvariant, LeadersAreFree, PTL DEF FreeSpec, NoJump

(* Torque comes on only with the pose just read in the goal registers      *)
(* (control.c:165-173).                                                    *)
THEOREM AlwaysEnabledAtPose ==
  ASSUME "follower" \notin Noisy
  PROVE  (ArmSpec => EnabledAtPose) /\ (TeleopSpec => EnabledAtPose)
<1>1. ASSUME ArmTypeOK, WireInv, [FreeNext]_armVars
      PROVE  [~servo_torque /\ servo_torque' => servo_goal' = follower_pos]_armVars
  BY <1>1, FreeSteps, SenseWire, TransitionWire, MoveWire, StartLeaveWire, CableWire,
     IdleWire
<1> QED
  BY <1>1, WireInvariant, LeadersAreFree, PTL DEF FreeSpec, EnabledAtPose

-----------------------------------------------------------------------------
(* The goal.                                                               *)

(* With torque on before and after a step, the goal changes only by the    *)
(* clipped step of a cycle.                                                *)
LEMMA GoalMoves ==
  ASSUME [FreeNext]_armVars, torque, torque'
  PROVE  \/ UNCHANGED goal
         \/ Move /\ goal' = [j \in Joints |-> Stepped(j)]
<1>1. CASE Transition
  BY <1>1 DEF Transition, Refuse, Enable, Switch, Disable, Keep
<1>2. CASE Move
  BY <1>2 DEF Move, NextGoal
<1>3. CASE \/ Sense \/ Start \/ Leave \/ Cable \/ Seal \/ Supervise \/ Stop
           \/ UNCHANGED armVars
  BY <1>3 DEF Sense, Start, Leave, Cable, Seal, Supervise, Stop, ctlVars, armVars
<1> QED
  BY <1>1, <1>2, <1>3, FreeSteps

(* HOLD holds, on any wire: as long as the mode stays and torque stays on, *)
(* the pose to hold does not change and the goal does not move away from   *)
(* it (control.c:174-180, 191-205).                                        *)
THEOREM HoldAlwaysHolds == (ArmSpec => HoldHolds) /\ (TeleopSpec => HoldHolds)
<1>1. ASSUME ArmTypeOK, [FreeNext]_armVars,
             applied = "HOLD", applied' = "HOLD", torque, torque'
      PROVE  /\ hold' = hold
             /\ \A j \in Joints : Abs(hold'[j] - goal'[j]) =< Abs(hold[j] - goal[j])
  <2>1. hold' = hold
    <3>1. CASE Transition
      BY <1>1, <3>1 DEF Transition, Refuse, Enable, Switch, Disable, Keep
    <3>2. CASE \/ Sense \/ Move \/ Start \/ Leave \/ Cable \/ Seal \/ Supervise \/ Stop
               \/ UNCHANGED armVars
      BY <3>2 DEF Sense, Move, Start, Leave, Cable, Seal, Supervise, Stop, ctlVars,
                  armVars
    <3> QED
      BY <1>1, <3>1, <3>2, FreeSteps
  <2>2. SUFFICES ASSUME NEW j \in Joints
                 PROVE  Abs(hold'[j] - goal'[j]) =< Abs(hold[j] - goal[j])
    BY <2>1
  <2>3. hold[j] \in Int /\ goal[j] \in Int
    BY <1>1, ControlAssumption DEF ArmTypeOK, Pose, Ticks
  <2>4. CASE UNCHANGED goal
    BY <2>1, <2>3, <2>4 DEF Abs
  <2>5. CASE goal' = [i \in Joints |-> Stepped(i)]
    <3>1. Target(j) = hold[j]
      BY <1>1 DEF Target
    <3>2. goal'[j] = Stepped(j)
      BY <2>5
    <3>3. Abs(Target(j) - Stepped(j)) =< Abs(Target(j) - goal[j])
      BY <1>1, StepBounded
    <3> QED
      BY <2>1, <3>1, <3>2, <3>3
  <2> QED
    BY <1>1, <2>4, <2>5, GoalMoves
<1>2. ASSUME ArmTypeOK, [FreeNext]_armVars
      PROVE  [applied = "HOLD" /\ applied' = "HOLD" /\ torque /\ torque' =>
                /\ hold' = hold
                /\ \A j \in Joints : Abs(hold'[j] - goal'[j])
                                       =< Abs(hold[j] - goal[j])]_armVars
  BY <1>1, <1>2
<1> QED
  BY <1>2, ArmTypeCorrect, LeadersAreFree, PTL DEF FreeSpec, HoldHolds

-----------------------------------------------------------------------------
(* The soft start.                                                         *)

(* With torque on, a joint that leaves the soft start is near its target,  *)
(* and the target is what the mode wants.                                  *)
LEMMA CaughtUp ==
  ASSUME ArmTypeOK, RampInv, torque, ctl = "move",
         NEW j \in Joints, j \notin StillRamping
  PROVE  j \in caught \/ Near(j)
<1>1. CASE j \notin ramp
  BY <1>1 DEF RampInv
<1>2. CASE j \in ramp
  <2>1. Target(j) \in Ticks /\ goal[j] \in Ticks
    BY TargetType
  <2>2. Abs(Target(j) - goal[j]) =< ramp_done
    BY <1>2, <2>1, ControlAssumption DEF StillRamping, Ticks, Abs
  <2>3. Wanted(j, Target(j))
    <3>1. applied \in {"TELEOP", "HOLD"} /\ leader_ok
      BY DEF RampInv, Powered
    <3> QED
      BY <3>1 DEF Wanted, Target
  <2> QED
    BY <2>1, <2>2, <2>3 DEF Near
<1> QED
  BY <1>1, <1>2

(* With a leader that always answers, RampInv is preserved.                *)
LEMMA RampNext ==
  ASSUME "leader" \notin Noisy \cup Unpluggable,
         ArmTypeOK, RampInv, [FreeNext]_armVars
  PROVE  RampInv'
<1>1. CASE Sense /\ UNCHANGED caught
  <2> PICK lok \in Arrives("leader", fd), fok \in Arrives("follower", fd),
           port \in [Arms -> {fd["leader"], fd["follower"], "open", "dead"}] :
           /\ leader_ok' = lok
           /\ fd' = port
           /\ port["leader"] =
                IF ~Reopens("leader", lok) THEN fd["leader"]
                ELSE IF plugged["leader"] THEN "open" ELSE "dead"
           /\ Reopens("follower", fok) => torque' = FALSE
           /\ ~Reopens("follower", fok) => UNCHANGED <<torque, servo_torque>>
    BY <1>1, SenseEffect
  <2>1. lok
    BY DEF RampInv, Arrives
  <2>2. fd'["leader"] = "open"
    BY DEF RampInv
  <2>3. torque' => torque
    OBVIOUS
  <2>4. UNCHANGED <<applied, ramp, caught, plugged>>
    BY <1>1 DEF Sense
  <2> QED
    BY <2>1, <2>2, <2>3, <2>4 DEF RampInv
<1>2. CASE EnterMode
  <2>1. UNCHANGED <<fd, plugged, leader_ok>> /\ ctl = "transition" /\ ctl' = "move"
    BY <1>2 DEF EnterMode, Transition, At, busVars
  <2>2. CASE Refuse \/ Keep
    BY <1>2, <2>1, <2>2 DEF EnterMode, Refuse, Keep, RampInv
  <2>3. CASE Enable \/ Switch
    <3>1. applied' \in Powered /\ ramp' = Joints
      BY <2>3 DEF Enable, Switch, EntryRamp
    <3> QED
      BY <2>1, <3>1 DEF RampInv
  <2>4. CASE Disable
    BY <2>1, <2>4 DEF Disable, RampInv
  <2> QED
    BY <1>2, <2>2, <2>3, <2>4 DEF EnterMode, Transition
<1>3. CASE MoveGoal
  <2>1. /\ UNCHANGED <<fd, plugged, leader_ok, torque, applied>>
        /\ ctl = "move" /\ ctl' = "seal"
        /\ torque => ramp' = StillRamping
        /\ torque => caught' = caught \cup {j \in Joints : Near(j)}
    BY <1>3 DEF MoveGoal, Move, At, busVars
  <2>2. torque => Joints \ StillRamping \subseteq caught \cup {j \in Joints : Near(j)}
    BY <2>1, CaughtUp
  <2> QED
    BY <2>1, <2>2 DEF RampInv
<1>4. CASE (Start \/ Seal \/ Leave) /\ UNCHANGED caught
  <2>1. UNCHANGED <<torque, applied, ramp, caught, fd, plugged, leader_ok>>
    BY <1>4 DEF Start, Seal, Leave, busVars
  <2>2. ctl' \in {"sense", "done"}
    BY <1>4 DEF Start, Seal, Leave
  <2> QED
    BY <2>1, <2>2 DEF RampInv
<1>5. CASE Supervise \/ Stop \/ UNCHANGED armVars
  BY <1>5 DEF Supervise, Stop, armVars, ctlVars, RampInv
<1>6. CASE Cable /\ UNCHANGED caught
  <2>1. UNCHANGED <<torque, applied, ramp, caught, ctl, leader_ok>>
    BY <1>6 DEF Cable
  <2>2. fd'["leader"] = "open" /\ plugged'["leader"]
    BY <1>6, CableArm, FollowerIsArm DEF RampInv
  <2> QED
    BY <2>1, <2>2 DEF RampInv
<1> QED
  BY <1>1, <1>2, <1>3, <1>4, <1>5, <1>6 DEF FreeNext, Ended

(* With a leader that always answers, a torqued joint moves faster than    *)
(* the ramp only after it has caught up with its target since the mode was *)
(* entered (control.c:179, 196-205).  The run ArmLeaderLost shows what     *)
(* becomes of this when the leader falls silent.                           *)
THEOREM SoftStartKept ==
  ASSUME "leader" \notin Noisy \cup Unpluggable
  PROVE  (ArmSpec => SoftStart) /\ (TeleopSpec => SoftStart)
<1>1. ArmInit => RampInv
  BY FollowerIsArm DEF ArmInit, CtlInit, RampInv
<1>2. ASSUME ArmTypeOK, RampInv, [FreeNext]_armVars, torque, torque',
             NEW j \in Joints, Abs(goal'[j] - goal[j]) > ramp_step
      PROVE  j \in caught'
  <2>1. goal[j] \in Int
    BY <1>2, ControlAssumption DEF ArmTypeOK, Pose, Ticks
  <2>2. goal' # goal
    BY <1>2, <2>1, ControlAssumption DEF Abs
  <2>3. Move /\ goal' = [i \in Joints |-> Stepped(i)]
    BY <1>2, <2>2, GoalMoves
  <2>4. MoveGoal
    BY <1>2, <2>3 DEF FreeNext, Ended, EnterMode, Sense, Transition,
       Move, At, Start, Seal, Leave, Supervise, Stop, Cable, armVars, ctlVars
  <2>5. j \notin StillRamping
    <3>1. goal'[j] = Stepped(j)
      BY <2>3
    <3>2. Abs(Stepped(j) - goal[j]) =< Pace(j) /\ Pace(j) \in Nat
      BY <1>2, StepBounded, TargetType
    <3>3. Stepped(j) \in Int
      BY <1>2, SteppedInRange, ControlAssumption DEF Ticks
    <3>4. Pace(j) # ramp_step
      BY <1>2, <2>1, <3>1, <3>2, <3>3, ControlAssumption DEF Abs
    <3> QED
      BY <3>4 DEF Pace
  <2>6. j \in caught \/ Near(j)
    BY <1>2, <2>3, <2>5, CaughtUp DEF Move, At
  <2> QED
    BY <1>2, <2>4, <2>6 DEF MoveGoal
<1>3. ASSUME ArmTypeOK, RampInv, [FreeNext]_armVars
      PROVE  [torque /\ torque' =>
                \A j \in Joints : Abs(goal'[j] - goal[j]) > ramp_step
                                    => j \in caught']_armVars
  BY <1>2, <1>3
<1>4. ArmTypeOK /\ RampInv /\ [FreeNext]_armVars => RampInv'
  BY RampNext
<1> QED
  BY <1>1, <1>3, <1>4, ArmTypeCorrect, LeadersAreFree, PTL DEF FreeSpec, SoftStart

-----------------------------------------------------------------------------
(* The conversions of calib.c.  Rounding to the nearest float, up or down, *)
(* never passes an integer, as integers are floats themselves; so what     *)
(* lies between two ends before an operation does so after it.             *)

(* Every set of naturals has a least element.                              *)
LEMMA Least ==
  ASSUME NEW S, S \subseteq Nat, S # {}
  PROVE  \E m \in S : \A k \in S : m =< k
<1>1. IsWellFoundedOn(OpToRel(<, Nat), Nat)
  BY NatLessThanWellFounded
<1>2. PICK m \in S : \A k \in S : <<k, m>> \notin OpToRel(<, Nat)
  BY <1>1, WFMin
<1>3. \A k \in S : ~(k < m)
  BY <1>2 DEF OpToRel
<1> QED
  BY <1>3

LEMMA Cancel ==
  ASSUME NEW x \in Int, NEW y \in Int, NEW D \in Nat \ {0}
  PROVE  /\ x * D < y * D => x < y
         /\ x * D =< y * D => x =< y
OBVIOUS

(* Rounding does not pass an integer.                                      *)
LEMMA NearestBounds ==
  ASSUME NEW n \in Int, NEW D \in Nat \ {0}, NEW a \in Int, NEW b \in Int,
         a * D =< n, n =< b * D
  PROVE  Nearest(n, D) \in a .. b
<1> DEFINE q == n \div D
           r == n % D
<1>1. q \in Int /\ r \in Int /\ n = q * D + r /\ 0 =< r /\ r < D
  OBVIOUS
<1> HIDE DEF q, r
<1>2. (q + 1) * D = q * D + D
  BY <1>1
<1>3. a =< q
  <2>1. a * D < (q + 1) * D
    BY <1>1, <1>2
  <2> QED
    BY <1>1, <2>1, Cancel
<1>4. q =< b
  BY <1>1, Cancel
<1>5. r > 0 => q + 1 =< b
  <2>1. r > 0 => q * D < b * D
    BY <1>1
  <2> QED
    BY <1>1, <2>1, Cancel
<1>6. Nearest(n, D) = IF 2 * r > D \/ (2 * r = D /\ q % 2 = 1) THEN q + 1 ELSE q
  BY DEF Nearest, q, r
<1> QED
  BY <1>1, <1>3, <1>4, <1>5, <1>6

LEMMA OneType == One \in Nat \ {0} /\ FRAC_BITS \in Nat /\ 2^(MANT_BITS + FRAC_BITS) \in Int
<1>1. FRAC_BITS \in Nat
  BY CalibAssumption
<1> QED
  BY <1>1, PowersAssumption, CalibAssumption DEF One

(* A float is a multiple of a unit that divides 1.                         *)
LEMMA FloatForm ==
  ASSUME NEW n \in Int, NEW d \in Nat \ {0},
         n < d * 2^(MANT_BITS + FRAC_BITS), -n < d * 2^(MANT_BITS + FRAC_BITS)
  PROVE  \E u \in Nat \ {0}, k \in Nat \ {0} :
           One = k * u /\ Float(n, d) = Nearest(n, d * u) * u
<1> DEFINE fits(i) == n < d * 2^(MANT_BITS + i) /\ -n < d * 2^(MANT_BITS + i)
           S == {i \in 0 .. FRAC_BITS : fits(i)}
           first == CHOOSE i \in 0 .. FRAC_BITS : fits(i) /\ \A k \in 0 .. i - 1 : ~fits(k)
<1>1. S \subseteq Nat /\ S # {}
  BY OneType
<1>2. \E i \in 0 .. FRAC_BITS : fits(i) /\ \A k \in 0 .. i - 1 : ~fits(k)
  <2>1. PICK m \in S : \A k \in S : m =< k
    BY <1>1, Least
  <2>2. m \in 0 .. FRAC_BITS /\ fits(m)
    BY <2>1
  <2>3. ASSUME NEW k \in 0 .. m - 1 PROVE ~fits(k)
    <3>1. k \in 0 .. FRAC_BITS /\ ~(m =< k)
      BY <2>2, <2>3, OneType
    <3>2. k \notin S
      BY <2>1, <3>1
    <3> QED
      BY <3>1, <3>2
  <2> QED
    BY <2>2, <2>3
<1>3. first \in 0 .. FRAC_BITS
  BY <1>2
<1>4. Float(n, d) = Nearest(n, d * 2^first) * 2^first
  BY DEF Float
<1> HIDE DEF first
<1>5. 2^first \in Nat \ {0}
  <2>1. 2^first > 0 /\ first \in Nat
    BY <1>3, PowersAssumption, OneType
  <2> QED
    BY <2>1
<1>6. PICK k \in 1 .. One : One = k * 2^first
  BY <1>3, PowersAssumption
<1> QED
  BY <1>4, <1>5, <1>6, OneType

(* Rounding to a float does not pass an integer.                           *)
LEMMA FloatBounds ==
  ASSUME NEW n \in Int, NEW d \in Nat \ {0}, NEW A \in Int, NEW B \in Int,
         n < d * 2^(MANT_BITS + FRAC_BITS), -n < d * 2^(MANT_BITS + FRAC_BITS),
         d * (A * One) =< n, n =< d * (B * One)
  PROVE  Float(n, d) \in A * One .. B * One
<1>1. PICK u \in Nat \ {0}, k \in Nat \ {0} :
         One = k * u /\ Float(n, d) = Nearest(n, d * u) * u
  BY FloatForm
<1>2. d * u \in Nat \ {0} /\ A * k \in Int /\ B * k \in Int
  OBVIOUS
<1>3. d * (A * One) = (A * k) * (d * u) /\ d * (B * One) = (B * k) * (d * u)
  BY <1>1
<1>4. Nearest(n, d * u) \in A * k .. B * k
  BY <1>2, <1>3, NearestBounds
<1>5. PICK m \in A * k .. B * k : m = Nearest(n, d * u)
  BY <1>4
<1>6. (A * k) * u =< m * u /\ m * u =< (B * k) * u
  BY <1>5
<1>7. (A * k) * u = A * One /\ (B * k) * u = B * One
  BY <1>1
<1> QED
  BY <1>1, <1>5, <1>6, <1>7

(* The operations of calib.c on floats that lie between two integers.      *)
LEMMA FloatOps ==
  ASSUME NEW x \in Int, NEW A \in Int, NEW B \in Int, A * One =< x, x =< B * One,
         -200 =< A, B =< 200
  PROVE  Float(x, 1) \in A * One .. B * One
<1>1. x < 2^(MANT_BITS + FRAC_BITS) /\ -x < 2^(MANT_BITS + FRAC_BITS)
  <2>1. -200 * One =< A * One /\ B * One =< 200 * One
    BY OneType
  <2>2. (-200) * One = -(200 * One)
    BY OneType
  <2> QED
    BY <2>1, <2>2, OneType, WidthAssumption
<1>2. 1 * (A * One) =< x /\ x =< 1 * (B * One)
  BY OneType
<1>3. x < 1 * 2^(MANT_BITS + FRAC_BITS) /\ -x < 1 * 2^(MANT_BITS + FRAC_BITS)
  BY <1>1, OneType
<1> QED
  BY <1>2, <1>3, FloatBounds

LEMMA TickOps ==
  ASSUME NEW x \in Int, NEW A \in Ticks, NEW B \in Ticks, A * One =< x, x =< B * One
  PROVE  Float(x, 1) \in A * One .. B * One
<1>0. A \in Nat /\ B \in Nat /\ B =< MaxTick /\ MaxTick \in Nat
  BY ControlAssumption DEF Ticks
<1>1. x < 2^(MANT_BITS + FRAC_BITS) /\ -x < 2^(MANT_BITS + FRAC_BITS)
  <2>1. 0 =< A * One /\ B * One =< MaxTick * One
    BY <1>0, OneType
  <2> QED
    BY <1>0, <2>1, OneType, WidthAssumption
<1>2. 1 * (A * One) =< x /\ x =< 1 * (B * One)
  BY <1>0, OneType
<1>3. x < 1 * 2^(MANT_BITS + FRAC_BITS) /\ -x < 1 * 2^(MANT_BITS + FRAC_BITS)
  BY <1>1, OneType
<1> QED
  BY <1>0, <1>2, <1>3, FloatBounds

(* A share of n, from 0 to 1.                                              *)
LEMMA OverOps ==
  ASSUME NEW n \in Nat \ {0}, NEW x \in Int, 0 =< x, x =< n * One
  PROVE  Over(x, n) \in 0 .. One
<1>1. x < n * 2^(MANT_BITS + FRAC_BITS) /\ -x < n * 2^(MANT_BITS + FRAC_BITS)
  <2>1. One < 2^(MANT_BITS + FRAC_BITS)
    BY OneType, WidthAssumption
  <2>2. n * One < n * 2^(MANT_BITS + FRAC_BITS)
    BY <2>1, OneType
  <2> QED
    BY <2>2, OneType
<1>2. n * (0 * One) =< x /\ x =< n * (1 * One)
  BY OneType
<1>3. Float(x, n) \in 0 * One .. 1 * One
  BY <1>1, <1>2, FloatBounds
<1> QED
  BY <1>3, OneType DEF Over

LEMMA SpanType ==
  ASSUME NEW j \in ValidJoints(Ticks)
  PROVE  /\ j.range_min \in Ticks /\ j.range_max \in Ticks /\ j.range_min < j.range_max
         /\ Span(j) \in Nat \ {0} /\ Span(j) \in Ticks
         /\ Span(j) = j.range_max - j.range_min
         /\ j.drive_mode \in BOOLEAN /\ j.is_gripper \in BOOLEAN
BY ControlAssumption DEF ValidJoints, Span, Ticks

(* A raw position becomes -100 to 100.                                     *)
LEMMA NormalizeRange ==
  ASSUME NEW j \in ValidJoints(Ticks), NEW raw \in Ticks
  PROVE  calib_normalize(j, raw) \in -(100 * One) .. 100 * One
<1>0. /\ j.range_min \in Int /\ j.range_max \in Int /\ j.range_min < j.range_max
      /\ Span(j) \in Nat \ {0} /\ Span(j) = j.range_max - j.range_min
      /\ j.drive_mode \in BOOLEAN /\ j.is_gripper \in BOOLEAN
      /\ raw \in Int
  BY SpanType, ControlAssumption DEF Ticks
<1> DEFINE v == Clamp(raw, j.range_min, j.range_max) - j.range_min
           u == Over(v * One, Span(j))
           n == IF j.is_gripper THEN Times(u, 100) ELSE Plus(Times(u, 200), -100)
<1>1. v \in Int /\ 0 =< v /\ v =< Span(j)
  BY <1>0 DEF Clamp
<1>2. calib_normalize(j, raw) =
        CASE ~j.drive_mode -> n
          [] j.drive_mode /\ j.is_gripper  -> Plus(-n, 100)
          [] j.drive_mode /\ ~j.is_gripper -> -n
  BY DEF calib_normalize
<1> HIDE DEF v
<1>3. u \in 0 .. One
  <2>1. v * One \in Int /\ 0 =< v * One /\ v * One =< Span(j) * One
    BY <1>0, <1>1, OneType
  <2> QED
    BY <1>0, <2>1, OverOps
<1> HIDE DEF u
<1>4. j.is_gripper => n \in 0 .. 100 * One
  <2>1. u * 100 \in Int /\ 0 * One =< u * 100 /\ u * 100 =< 100 * One
    BY <1>3, OneType
  <2>2. Float(u * 100, 1) \in 0 * One .. 100 * One
    BY <2>1, FloatOps
  <2> QED
    BY <2>2, OneType DEF Times
<1>5. ~j.is_gripper => n \in -(100 * One) .. 100 * One
  <2>1. u * 200 \in Int /\ 0 * One =< u * 200 /\ u * 200 =< 200 * One
    BY <1>3, OneType
  <2>2. Times(u, 200) \in 0 * One .. 200 * One
    BY <2>1, FloatOps DEF Times
  <2>3. PICK w \in 0 .. 200 * One : w = Times(u, 200)
    BY <2>2, OneType
  <2>4. /\ w + (-100) * One \in Int
        /\ (-100) * One =< w + (-100) * One /\ w + (-100) * One =< 100 * One
    BY <2>3, OneType
  <2>5. Float(w + (-100) * One, 1) \in (-100) * One .. 100 * One
    BY <2>4, FloatOps
  <2> QED
    BY <2>3, <2>5, OneType DEF Plus
<1> HIDE DEF n
<1>6. CASE ~j.drive_mode
  BY <1>0, <1>2, <1>4, <1>5, <1>6, OneType
<1>7. CASE j.drive_mode /\ ~j.is_gripper
  BY <1>0, <1>2, <1>5, <1>7, OneType
<1>8. CASE j.drive_mode /\ j.is_gripper
  <2>1. n \in 0 .. 100 * One
    BY <1>4, <1>8
  <2>2. /\ -n + 100 * One \in Int
        /\ 0 * One =< -n + 100 * One /\ -n + 100 * One =< 100 * One
    BY <2>1, OneType
  <2>3. Float(-n + 100 * One, 1) \in 0 * One .. 100 * One
    BY <2>2, FloatOps
  <2> QED
    BY <1>2, <1>8, <2>3, OneType DEF Plus
<1> QED
  BY <1>0, <1>6, <1>7, <1>8

(* And comes back as a position within the range of the joint.             *)
LEMMA UnnormalizeRange ==
  ASSUME NEW j \in ValidJoints(Ticks), NEW norm \in -(100 * One) .. 100 * One
  PROVE  calib_unnormalize(j, norm) \in j.range_min .. j.range_max
<1>0. /\ j.range_min \in Nat /\ j.range_max \in Nat /\ j.range_min < j.range_max
      /\ Span(j) \in Nat \ {0} /\ Span(j) = j.range_max - j.range_min
      /\ j.drive_mode \in BOOLEAN /\ j.is_gripper \in BOOLEAN
      /\ norm \in Int
  BY SpanType, ControlAssumption, OneType DEF Ticks
<1> DEFINE u == IF j.is_gripper
                  THEN Over(Clamp(IF j.drive_mode THEN Plus(-norm, 100) ELSE norm,
                                  0, 100 * One), 100)
                  ELSE Over(Plus(Clamp(IF j.drive_mode THEN -norm ELSE norm,
                                       -100 * One, 100 * One), 100), 200)
<1>1. calib_unnormalize(j, norm) = Truncated(Plus(Times(u, Span(j)), j.range_min))
  BY DEF calib_unnormalize
<1>2. ASSUME j.is_gripper PROVE u \in 0 .. One
  <2> DEFINE w == IF j.drive_mode THEN Plus(-norm, 100) ELSE norm
  <2>1. w \in Int
    <3>1. /\ -norm + 100 * One \in Int
          /\ 0 * One =< -norm + 100 * One /\ -norm + 100 * One =< 200 * One
      BY <1>0, OneType
    <3>2. Float(-norm + 100 * One, 1) \in 0 * One .. 200 * One
      BY <3>1, FloatOps
    <3> QED
      BY <1>0, <3>2, OneType DEF Plus
  <2>2. u = Over(Clamp(w, 0, 100 * One), 100)
    BY <1>2
  <2> HIDE DEF w
  <2>3. /\ Clamp(w, 0, 100 * One) \in Int
        /\ 0 =< Clamp(w, 0, 100 * One) /\ Clamp(w, 0, 100 * One) =< 100 * One
    BY <2>1, OneType DEF Clamp
  <2>4. Over(Clamp(w, 0, 100 * One), 100) \in 0 .. One
    BY <2>3, OverOps
  <2> QED
    BY <2>2, <2>4
<1>3. ASSUME ~j.is_gripper PROVE u \in 0 .. One
  <2> DEFINE w == Clamp(IF j.drive_mode THEN -norm ELSE norm, -100 * One, 100 * One)
  <2>1. w \in Int /\ -(100 * One) =< w /\ w =< 100 * One
    BY <1>0, OneType DEF Clamp
  <2>2. u = Over(Plus(w, 100), 200)
    BY <1>3
  <2> HIDE DEF w
  <2>3. /\ w + 100 * One \in Int
        /\ 0 * One =< w + 100 * One /\ w + 100 * One =< 200 * One
    BY <2>1, OneType
  <2>4. Plus(w, 100) \in 0 * One .. 200 * One
    BY <2>3, FloatOps DEF Plus
  <2>5. PICK y \in 0 .. 200 * One : y = Plus(w, 100)
    BY <2>4, OneType
  <2>6. Over(y, 200) \in 0 .. One
    BY <2>5, OneType, OverOps
  <2> QED
    BY <2>2, <2>5, <2>6
<1>4. u \in 0 .. One
  BY <1>0, <1>2, <1>3
<1> HIDE DEF u
<1>5. Times(u, Span(j)) \in 0 .. Span(j) * One
  <2>1. /\ u * Span(j) \in Int /\ 0 * One =< u * Span(j) /\ u * Span(j) =< Span(j) * One
        /\ 0 \in Ticks /\ Span(j) \in Ticks
    BY <1>0, <1>4, OneType, SpanType, ControlAssumption DEF Ticks
  <2>2. Float(u * Span(j), 1) \in 0 * One .. Span(j) * One
    BY <2>1, TickOps
  <2> QED
    BY <2>2, OneType DEF Times
<1>6. PICK y \in 0 .. Span(j) * One : y = Times(u, Span(j))
  BY <1>5
<1>7. Plus(y, j.range_min) \in j.range_min * One .. j.range_max * One
  <2>1. Span(j) * One = j.range_max * One - j.range_min * One
    BY <1>0, OneType
  <2>2. /\ y + j.range_min * One \in Int
        /\ j.range_min * One =< y + j.range_min * One
        /\ y + j.range_min * One =< j.range_max * One
    BY <1>0, <1>6, <2>1, OneType
  <2> QED
    BY <2>2, SpanType, TickOps DEF Plus
<1>8. ASSUME NEW z \in j.range_min * One .. j.range_max * One
      PROVE  Truncated(z) \in j.range_min .. j.range_max
  <2>1. z \in Int /\ z >= 0 /\ j.range_min * One =< z /\ z =< j.range_max * One
    BY <1>0, <1>8, OneType
  <2> DEFINE q == z \div One
             r == z % One
  <2>2. q \in Int /\ r \in Int /\ z = q * One + r /\ 0 =< r /\ r < One
    BY <2>1, OneType
  <2>3. Truncated(z) = q
    BY <2>1 DEF Truncated
  <2> HIDE DEF q, r
  <2>4. (q + 1) * One = q * One + One
    BY <2>2, OneType
  <2>5. j.range_min * One < (q + 1) * One /\ q * One =< j.range_max * One
    BY <1>0, <2>1, <2>2, <2>4, OneType
  <2>6. j.range_min < q + 1 /\ q =< j.range_max
    BY <1>0, <2>2, <2>5, OneType, Cancel
  <2> QED
    BY <1>0, <2>2, <2>3, <2>6
<1> QED
  BY <1>1, <1>6, <1>7, <1>8

(* Where a leader is becomes a position in the range of the follower.      *)
LEMMA MappedInRange ==
  ASSUME NEW c \in Calibrations, NEW raw \in Ticks
  PROVE  Mapped[c][raw] \in c.follower.range_min .. c.follower.range_max
<1>1. c.leader \in ValidJoints(Ticks) /\ c.follower \in ValidJoints(Ticks)
  BY TeleopAssumption
<1>2. calib_normalize(c.leader, raw) \in -(100 * One) .. 100 * One
  BY <1>1, NormalizeRange
<1>3. Mapped[c][raw] = calib_unnormalize(c.follower, calib_normalize(c.leader, raw))
  BY DEF Mapped
<1> QED
  BY <1>1, <1>2, <1>3, UnnormalizeRange

-----------------------------------------------------------------------------
(* TELEOP stays in the range of the follower.                              *)

(* A leader that has answered is somewhere in the range of the follower.   *)
LeaderInv ==
  /\ cal \in [Joints -> Calibrations]
  /\ leader_ok => \A j \in Joints : InRange(j, leader_map[j])

LEMMA LeaderNext ==
  ASSUME LeaderInv, [TeleopNext]_teleopVars
  PROVE  LeaderInv'
<1>1. CASE SenseBoth
  <2>0. cal' = cal
    BY <1>1 DEF SenseBoth
  <2>1. ASSUME leader_ok', NEW j \in Joints
        PROVE  leader_map'[j] \in cal[j].follower.range_min .. cal[j].follower.range_max
    <3>1. leader_map'[j] = Mapped[cal[j]][leader_raw'[j]] /\ leader_raw' \in Pose
      BY <1>1, <2>1 DEF SenseBoth
    <3>2. cal[j] \in Calibrations /\ leader_raw'[j] \in Ticks
      BY <3>1 DEF LeaderInv, Pose
    <3> QED
      BY <3>1, <3>2, MappedInRange
  <2> QED
    BY <2>0, <2>1 DEF LeaderInv, InRange
<1>2. CASE UNCHANGED <<cal, leader_ok, leader_map>>
  BY <1>2 DEF LeaderInv, InRange
<1>3. CASE EnterMode \/ MoveGoal \/ Start \/ Seal \/ Leave \/ Supervise \/ Stop
  <2>1. UNCHANGED <<leader_ok, leader_map>>
    BY <1>3 DEF EnterMode, Transition, MoveGoal, Move, Start, Seal, Leave, Supervise, Stop,
                ctlVars
  <2>2. SenseBoth \/ cal' = cal
    BY DEF TeleopNext, TeleopCycle, teleopVars
  <2> QED
    BY <1>1, <1>2, <2>1, <2>2
<1>4. CASE Ended /\ UNCHANGED cal
  BY <1>2, <1>4 DEF Ended, armVars, ctlVars
<1>5. CASE UNCHANGED teleopVars
  BY <1>2, <1>5 DEF teleopVars, armVars, ctlVars
<1> QED
  BY <1>1, <1>3, <1>4, <1>5 DEF TeleopNext, TeleopCycle

(* TELEOP never drives a joint out of the calibrated range of the follower *)
(* and takes one found outside no further (calib_normalize and             *)
(* calib_unnormalize in calib.c, control.c:182-205), for every calibration *)
(* of both arms, every position of the leader, and every width of a float  *)
(* that holds ticks and percents.                                          *)
THEOREM TeleopStaysInRange == TeleopSpec => GoalInRange
<1>1. TeleopInit => LeaderInv
  BY DEF TeleopInit, ArmInit, CtlInit, LeaderInv
<1>2. ASSUME ArmTypeOK, LeaderInv, [TeleopNext]_teleopVars,
             applied = "TELEOP", torque, torque', NEW j \in Joints, goal'[j] # goal[j]
      PROVE  \/ InRange(j, goal'[j])
             \/ ~InRange(j, goal[j]) /\ (goal[j] < goal'[j] <=> goal[j] < cal[j].follower.range_min)
  <2>1. goal'[j] = Stepped(j)
    BY <1>2, TeleopSteps, GoalMoves
  <2>2. goal[j] \in Int /\ Pace(j) \in Nat
    BY <1>2, TargetType, ControlAssumption DEF Ticks
  <2>3. leader_ok
    <3>1. ~leader_ok => Target(j) = goal[j]
      BY <1>2 DEF Target
    <3>2. Target(j) = goal[j] => Stepped(j) = goal[j]
      BY <2>2 DEF Stepped, Clip
    <3> QED
      BY <1>2, <2>1, <3>1, <3>2
  <2>4. Target(j) = leader_map[j]
    BY <1>2, <2>3 DEF Target
  <2>5. /\ cal[j].follower.range_min \in Int /\ cal[j].follower.range_max \in Int
        /\ Target(j) \in cal[j].follower.range_min .. cal[j].follower.range_max
    <3>1. cal[j].follower \in ValidJoints(Ticks)
      BY <1>2, TeleopAssumption DEF LeaderInv
    <3>2. cal[j].follower.range_min \in Int /\ cal[j].follower.range_max \in Int
      BY <3>1, SpanType, ControlAssumption DEF Ticks
    <3> QED
      BY <1>2, <2>3, <2>4, <3>2 DEF LeaderInv, InRange
  <2>6. goal'[j] = goal[j] + Clip(Target(j) - goal[j], Pace(j))
    BY <2>1 DEF Stepped
  <2>7. PICK lo \in Int, hi \in Int, g \in Int, step \in Nat :
          /\ lo = cal[j].follower.range_min /\ hi = cal[j].follower.range_max
          /\ g = goal[j] /\ step = Pace(j)
    BY <2>2, <2>5
  <2>8. PICK t \in lo .. hi : t = Target(j)
    BY <2>5, <2>7
  <2>9. PICK h : h = goal'[j]
    OBVIOUS
  <2>10. h = g + Clip(t - g, step) /\ h # g
    BY <1>2, <2>6, <2>7, <2>8, <2>9
  <2>11. h \in lo .. hi \/ (g \notin lo .. hi /\ (g < h <=> g < lo))
    BY <2>10 DEF Clip
  <2> QED
    BY <2>7, <2>9, <2>11 DEF InRange
<1>3. ASSUME ArmTypeOK, LeaderInv, [TeleopNext]_teleopVars
      PROVE  [applied = "TELEOP" /\ applied' = "TELEOP" /\ torque /\ torque' =>
                \A j \in Joints :
                  goal'[j] # goal[j] =>
                    \/ InRange(j, goal'[j])
                    \/ /\ ~InRange(j, goal[j])
                       /\ goal[j] < goal'[j] <=> goal[j] < cal[j].follower.range_min
             ]_teleopVars
  BY <1>2, <1>3
<1> QED
  BY <1>1, <1>3, LeaderNext, ArmTypeCorrect, LeadersAreFree, PTL DEF TeleopSpec, GoalInRange

=============================================================================

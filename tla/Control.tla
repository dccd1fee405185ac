------------------------------ MODULE Control ------------------------------
(***************************************************************************)
(* The control thread of so101d (daemon/src/control.c) and the two arms it *)
(* owns.  A cycle is four steps, cut where the thread touches state that   *)
(* another thread or the outside world can change in between:              *)
(*   Sense       read both buses, reopen dead ones, load mode_req          *)
(*   Transition  torque on, torque off, latch the hold pose                *)
(*   Move        compute and write the goal, begin to publish (seq odd)    *)
(*   Seal        end of the publication (seq even), next slot              *)
(*                                                                         *)
(* The arms are seen through their ports.  An unplugged USB adapter kills  *)
(* the open descriptor until the thread opens the port again.  A frame can *)
(* also be lost on the servo wire while the port is healthy (Noisy): the   *)
(* read then fails, but a SYNC_WRITE has no answer and its loss goes       *)
(* unseen.  servo_torque and servo_goal are the registers of the follower  *)
(* itself, which keeps its own power supply when the USB cable is pulled.  *)
(***************************************************************************)
EXTENDS SharedMem, Integers

CONSTANTS
  Joints,        \* the joints of an arm, SO101_NJ of them
  MaxTick,       \* highest raw position, 4095
  max_step,      \* goal change per cycle at full speed, 50
  ramp_step,     \* goal change per cycle during the soft start, 6
  ramp_done,     \* the soft start ends within this distance, 50
  REOPEN_AFTER,  \* failed cycles before a port is reopened, 50
  STREAK_MAX,    \* where the streak counters saturate, 0xFFFF
  Noisy,         \* the arms on whose wire frames can be lost
  Unpluggable,   \* the arms whose USB cable can be pulled
  AlarmSource,   \* the alarms the follower can report
  CanHang        \* the control thread can block for ever

Arms  == {"leader", "follower"}
Ticks == 0 .. MaxTick
Pose  == [Joints -> Ticks]

ASSUME ControlAssumption ==
  /\ MaxTick \in Nat
  /\ max_step \in Nat \ {0}
  /\ ramp_step \in Nat \ {0}
  /\ ramp_done \in Nat
  /\ REOPEN_AFTER \in Nat \ {0}
  /\ STREAK_MAX \in Nat
  /\ REOPEN_AFTER =< STREAK_MAX
  /\ Noisy \subseteq Arms
  /\ Unpluggable \subseteq Arms
  /\ AlarmSource \subseteq Alarms
  /\ CanHang \in BOOLEAN

VARIABLES
  ctl,            \* where the thread is in its cycle
  hung,           \* the thread is blocked and will not come back
  req,            \* mode_req as loaded in this cycle, "none" out of its scope
  applied,        \* the mode in force
  torque,         \* what the thread believes of the follower's torque
  ramp,           \* ramp_mask: the joints still in soft start
  goal, hold,     \* goal[] and hold[]
  leader_ok,      \* the leader answered in this cycle
  leader_map,     \* leader_norm, as follower ticks (calib_unnormalize)
  follower_ok,    \* the follower answered in this cycle
  follower_pos,   \* follower_pos[]: the last pose read
  alarm,          \* alarms in the last follower registers read
  streak,         \* consecutive failed reads, per arm
  retry,          \* cycles to wait before the next reopening, per arm
  plugged,        \* the USB cable is in, per arm
  fd,             \* the descriptor is "open" or "dead", per arm
  servo_torque,   \* the follower's Torque_Enable register
  servo_goal      \* the follower's Goal_Position registers

busVars == <<plugged, fd>>
ctlVars == <<ctl, hung, req, applied, torque, ramp, goal, hold, leader_ok,
             leader_map, follower_ok, follower_pos, alarm, streak, retry,
             plugged, fd, servo_torque, servo_goal>>

(* What the sample says before the first publication: shm_create zeroes it *)
EmptySample ==
  [mode |-> "IDLE", torque_on |-> FALSE, follower_ok |-> FALSE,
   leader_streak |-> 0, follower_streak |-> 0, alarm |-> {}]

CtlInit ==
  /\ ctl = "start"
  /\ hung = FALSE
  /\ req = "none" /\ applied = "IDLE"
  /\ torque = FALSE
  /\ ramp = {}
  /\ goal = [j \in Joints |-> 0] /\ hold = [j \in Joints |-> 0]
  /\ leader_ok = FALSE /\ leader_map = [j \in Joints |-> 0]
  /\ follower_ok = FALSE /\ follower_pos = [j \in Joints |-> 0]
  /\ alarm = {}
  /\ streak = [a \in Arms |-> 0]
  /\ retry = [a \in Arms |-> 0]
  /\ plugged = [a \in Arms |-> TRUE] /\ fd = [a \in Arms |-> "open"]
  /\ servo_torque \in BOOLEAN        \* a run that crashed may have left it on
  /\ servo_goal = [j \in Joints |-> 0]

-----------------------------------------------------------------------------
(* The ports.                                                              *)

(* Whether a frame sent through the descriptors f can come through.        *)
Arrives(a, f) ==
  IF f[a] = "open" /\ plugged[a]
    THEN IF a \in Noisy THEN BOOLEAN ELSE {TRUE}
    ELSE {FALSE}

(* The registers of the follower after a SYNC_WRITE of the goal, and of    *)
(* the torque.                                                             *)
write_goal(g, heard) == IF heard THEN g ELSE servo_goal
set_torque(on, heard) == IF heard THEN on ELSE servo_torque

Unplug(a) ==
  /\ a \in Unpluggable /\ plugged[a]
  /\ plugged' = [plugged EXCEPT ![a] = FALSE]
  /\ fd' = [fd EXCEPT ![a] = "dead"]

Plug(a) ==
  /\ ~plugged[a]
  /\ plugged' = [plugged EXCEPT ![a] = TRUE]
  /\ UNCHANGED fd

-----------------------------------------------------------------------------
(* The cycle.                                                              *)

At(pc) == ctl = pc /\ ~hung

(* Safe start: both arms are told to go limp before the first cycle.       *)
Start ==
  /\ At("start")
  /\ ctl' = "sense"
  /\ \E heard \in Arrives("follower", fd) :
       servo_torque' = set_torque(FALSE, heard)
  /\ UNCHANGED <<hung, req, applied, torque, ramp, goal, hold, leader_ok,
                 leader_map, follower_ok, follower_pos, alarm, streak, retry,
                 busVars, servo_goal, shmVars>>

(* [mutants of NextStreak] the counter does not saturate; it wraps         *)
NextStreakUncapped(a, ok) == IF ok THEN 0 ELSE streak[a] + 1
NextStreakWraps(a, ok) == IF ok THEN 0 ELSE (streak[a] + 1) % (STREAK_MAX + 1)

NextStreak(a, ok) ==
  IF ok THEN 0 ELSE IF streak[a] < STREAK_MAX THEN streak[a] + 1 ELSE streak[a]

(* [mutant of Wait] the pause between two attempts never ends              *)
WaitForever(a) == retry[a]

Wait(a) == IF retry[a] > 0 THEN retry[a] - 1 ELSE 0

(* A bus that failed REOPEN_AFTER cycles in a row is closed and opened     *)
(* again, at most once every REOPEN_AFTER cycles.                          *)
Reopens(a, ok) == NextStreak(a, ok) >= REOPEN_AFTER /\ Wait(a) = 0

(* [mutant of ReopenTorque] the servos are not told to go limp             *)
ReopenTorqueKept(heard) == servo_torque

(* Torque is unknown after a disconnect: it is made off on the servos.     *)
ReopenTorque(heard) == set_torque(FALSE, heard)

(* An unknown request counts as IDLE.                                      *)
Clamped(m) == IF m \in Modes THEN m ELSE "IDLE"

Sense ==
  /\ At("sense") /\ run
  /\ \E lok \in Arrives("leader", fd), fok \in Arrives("follower", fd) :
       LET ok == [a \in Arms |-> IF a = "leader" THEN lok ELSE fok]
           port == [a \in Arms |-> IF ~Reopens(a, ok[a]) THEN fd[a]
                                   ELSE IF plugged[a] THEN "open" ELSE "dead"]
       IN /\ leader_ok' = lok
          /\ IF lok THEN leader_map' \in Pose ELSE UNCHANGED leader_map
          /\ follower_ok' = fok
          /\ IF fok THEN follower_pos' \in Pose /\ alarm' \in SUBSET AlarmSource
                    ELSE UNCHANGED <<follower_pos, alarm>>
          /\ streak' = [a \in Arms |-> NextStreak(a, ok[a])]
          /\ retry' = [a \in Arms |-> IF Reopens(a, ok[a]) THEN REOPEN_AFTER
                                                           ELSE Wait(a)]
          /\ fd' = port
          /\ IF Reopens("follower", fok)
               THEN /\ torque' = FALSE
                    /\ \E heard \in Arrives("follower", port) :
                         servo_torque' = ReopenTorque(heard)
               ELSE UNCHANGED <<torque, servo_torque>>
  /\ req' = Clamped(mode_req)
  /\ ctl' = "transition"
  /\ UNCHANGED <<hung, applied, ramp, goal, hold, plugged, servo_goal, shmVars>>

(* Torque-on is refused while the pose of the follower is unknown; the     *)
(* request is then tried again in the next cycle.                          *)
Refuse ==
  /\ req # applied /\ req \in Powered /\ ~torque /\ ~follower_ok
  /\ faults' = faults \cup {"TORQUE_REFUSED"}
  /\ UNCHANGED <<applied, torque, ramp, goal, hold, servo_torque, servo_goal>>

(* [mutant of EnablePose] the goal of the last cycle is used as it is      *)
EnablePoseStale == goal

EnablePose == follower_pos

(* [mutant of EntryRamp] a mode is entered at full speed                   *)
EntryRampNone == {}

(* Soft start on every entry.                                              *)
EntryRamp == Joints

(* Torque-on: first the goal becomes the pose just read, then torque.      *)
(* Either write can be lost on its own.                                    *)
Enable ==
  /\ req # applied /\ req \in Powered /\ ~torque /\ follower_ok
  /\ goal' = EnablePose
  /\ \E heard \in Arrives("follower", fd) :
       servo_goal' = write_goal(EnablePose, heard)
  /\ \E heard \in Arrives("follower", fd) :
       servo_torque' = set_torque(TRUE, heard)
  /\ torque' = TRUE
  /\ faults' = faults \ {"TORQUE_REFUSED"}
  /\ hold' = IF req = "HOLD" THEN follower_pos ELSE hold
  /\ ramp' = EntryRamp
  /\ applied' = req

(* Between TELEOP and HOLD with torque already on.                         *)
Switch ==
  /\ req # applied /\ req \in Powered /\ torque
  /\ hold' = IF req # "HOLD" THEN hold
             ELSE IF follower_ok THEN follower_pos ELSE goal
  /\ ramp' = EntryRamp
  /\ applied' = req
  /\ UNCHANGED <<torque, goal, servo_torque, servo_goal, faults>>

(* [mutant of Disable] the flag is not taken down                          *)
DisableFlagKept ==
  /\ req # applied /\ req \notin Powered
  /\ IF torque THEN \E heard \in Arrives("follower", fd) :
                      servo_torque' = set_torque(FALSE, heard)
               ELSE UNCHANGED servo_torque
  /\ applied' = req
  /\ UNCHANGED <<torque, ramp, goal, hold, servo_goal, faults>>

(* Into IDLE or ESTOP.  The thread takes the torque for gone whether or    *)
(* not the frame arrived.                                                  *)
Disable ==
  /\ req # applied /\ req \notin Powered
  /\ IF torque THEN \E heard \in Arrives("follower", fd) :
                      servo_torque' = set_torque(FALSE, heard)
               ELSE UNCHANGED servo_torque
  /\ torque' = FALSE
  /\ applied' = req
  /\ UNCHANGED <<ramp, goal, hold, servo_goal, faults>>

Keep ==
  /\ req = applied
  /\ UNCHANGED <<applied, torque, ramp, goal, hold, servo_torque, servo_goal,
                 faults>>

Transition ==
  /\ At("transition")
  /\ Refuse \/ Enable \/ Switch \/ Disable \/ Keep
  /\ req' = "none"
  /\ ctl' = "move"
  /\ UNCHANGED <<hung, leader_ok, leader_map, follower_ok, follower_pos,
                 alarm, streak, retry, busVars,
                 mode_req, sample, writing, unseen, sup_beat, run>>

(* [mutants of Target] HOLD aims at where the arm sags to; at nothing      *)
TargetSagging(j) == CASE applied = "TELEOP" /\ leader_ok -> leader_map[j]
                      [] applied = "HOLD"                -> follower_pos[j]
                      [] OTHER                           -> goal[j]
TargetTeleopOnly(j) == IF applied = "TELEOP" /\ leader_ok THEN leader_map[j]
                                                          ELSE goal[j]

(* The goal.  With the leader silent TELEOP aims at the goal it has.       *)
Target(j) == CASE applied = "TELEOP" /\ leader_ok -> leader_map[j]
               [] applied = "HOLD"                -> hold[j]
               [] OTHER                           -> goal[j]

Abs(x) == IF x < 0 THEN -x ELSE x

(* [mutant of Clip] only one side is limited                               *)
ClipOneSided(d, step) == IF d > step THEN step ELSE d

Clip(d, step) == IF d > step THEN step ELSE IF d < -step THEN -step ELSE d

(* [mutant of StillRamping] ramp_done is ignored                           *)
StillRampingExact == {j \in ramp : Target(j) # goal[j]}

(* ramp_mask once the joints that caught up have left it.                  *)
StillRamping == {j \in ramp : Abs(Target(j) - goal[j]) > ramp_done}

Pace(j) == IF j \in StillRamping THEN ramp_step ELSE max_step

Stepped(j) == goal[j] + Clip(Target(j) - goal[j], Pace(j))

(* While torque is off the goal follows the arm, for a smooth enable.      *)
NextGoal == CASE torque                 -> [j \in Joints |-> Stepped(j)]
              [] ~torque /\ follower_ok -> follower_pos
              [] OTHER                  -> goal

Move ==
  /\ At("move")
  /\ goal' = NextGoal
  /\ ramp' = IF torque THEN StillRamping ELSE {}
  /\ \E heard \in Arrives("follower", fd) :
       servo_goal' = IF torque THEN write_goal(NextGoal, heard) ELSE servo_goal
  /\ writing' = TRUE
  /\ ctl' = "seal"
  /\ UNCHANGED <<hung, req, applied, torque, hold, leader_ok, leader_map,
                 follower_ok, follower_pos, alarm, streak, retry, busVars,
                 servo_torque, mode_req, faults, sample, unseen,
                 sup_beat, run>>

Seal ==
  /\ At("seal")
  /\ sample' = [mode |-> applied, torque_on |-> torque,
                follower_ok |-> follower_ok,
                leader_streak |-> streak["leader"],
                follower_streak |-> streak["follower"], alarm |-> alarm]
  /\ writing' = FALSE
  /\ unseen' = Readers
  /\ ctl' = "sense"
  /\ UNCHANGED <<hung, req, applied, torque, ramp, goal, hold, leader_ok,
                 leader_map, follower_ok, follower_pos, alarm, streak, retry,
                 busVars, servo_torque, servo_goal, mode_req, faults,
                 sup_beat, run>>

(* Shutdown leaves the follower limp, never holding a stale goal.          *)
Leave ==
  /\ At("sense") /\ ~run
  /\ \E heard \in Arrives("follower", fd) :
       servo_torque' = set_torque(FALSE, heard)
  /\ ctl' = "done"
  /\ UNCHANGED <<hung, req, applied, torque, ramp, goal, hold, leader_ok,
                 leader_map, follower_ok, follower_pos, alarm, streak, retry,
                 busVars, servo_goal, shmVars>>

(* The thread blocks in a system call, or is never scheduled again.        *)
Hang ==
  /\ CanHang /\ ~hung /\ ctl # "done"
  /\ hung' = TRUE
  /\ UNCHANGED <<ctl, req, applied, torque, ramp, goal, hold, leader_ok,
                 leader_map, follower_ok, follower_pos, alarm, streak, retry,
                 busVars, servo_torque, servo_goal, shmVars>>

(* A cable is pulled or put back.                                          *)
Cable ==
  /\ \E a \in Arms : Unplug(a) \/ Plug(a)
  /\ UNCHANGED <<ctl, hung, req, applied, torque, ramp, goal, hold, leader_ok,
                 leader_map, follower_ok, follower_pos, alarm, streak, retry,
                 servo_torque, servo_goal, shmVars>>

=============================================================================

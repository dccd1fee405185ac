---------------------------- MODULE DaemonProofs ----------------------------
(***************************************************************************)
(* Proofs about the daemon, for every number of joints, every range of     *)
(* positions, every limit, every set of clients and every interleaving of  *)
(* the threads: its types, then what a latched fault forbids, the latch of *)
(* the emergency stop, and what must be seen before power is given.        *)
(*                                                                         *)
(* The fault properties are not inductive: a command and a fault both      *)
(* change the fault word and the mode in two stores, and the control       *)
(* thread runs in between.  FaultInv says what holds between the stores.   *)
(***************************************************************************)
EXTENDS Daemon, TLAPS

-----------------------------------------------------------------------------
(* Type correctness.                                                       *)

(* The step of lines 198-205 of control.c keeps the goal a servo position: *)
(* a clipped step towards a position does not overshoot it.                *)
LEMMA SteppedType ==
  ASSUME CtlTypeOK, NEW j \in Joints
  PROVE  Stepped(j) \in Ticks
<1>1. goal[j] \in Ticks /\ Target(j) \in Ticks
  BY DEF CtlTypeOK, Pose, Target
<1>2. Pace(j) \in Nat
  BY ControlAssumption DEF Pace
<1> QED
  BY <1>1, <1>2, ControlAssumption DEF Stepped, Clip, Ticks

(* The goal of the next cycle is a pose, with torque on or off.            *)
LEMMA NextGoalType ==
  ASSUME CtlTypeOK
  PROVE  NextGoal \in Pose
<1>1. CASE torque
  <2>1. [j \in Joints |-> Stepped(j)] \in Pose
    BY SteppedType DEF Pose
  <2> QED
    BY <1>1, <2>1 DEF NextGoal
<1>2. CASE ~torque
  BY <1>2 DEF NextGoal, CtlTypeOK
<1> QED
  BY <1>1, <1>2

(* The streak counter of a bus saturates.                                  *)
LEMMA NextStreakType ==
  ASSUME CtlTypeOK, NEW a \in Arms, NEW ok \in BOOLEAN
  PROVE  NextStreak(a, ok) \in 0 .. STREAK_MAX
BY ControlAssumption DEF CtlTypeOK, NextStreak

(* The pause before the next reopening stays in its range.                 *)
LEMMA WaitType ==
  ASSUME CtlTypeOK, NEW a \in Arms
  PROVE  Wait(a) \in 0 .. REOPEN_AFTER
BY ControlAssumption DEF CtlTypeOK, Wait

(* A frame arrives or does not.                                            *)
LEMMA ArrivesType ==
  ASSUME NEW a, NEW f
  PROVE  Arrives(a, f) \subseteq BOOLEAN
BY DEF Arrives

LEMMA InitType == Init => TypeOK
<1> SUFFICES ASSUME Init PROVE TypeOK
  OBVIOUS
<1>1. ShmTypeOK
  <2>1. EmptySample \in Samples
    BY ControlAssumption DEF EmptySample, Samples, Modes
  <2> QED
    BY <2>1 DEF Init, ShmInit, ShmTypeOK, Modes
<1>2. CtlTypeOK
  <2>1. [j \in Joints |-> 0] \in Pose
    BY ControlAssumption DEF Pose, Ticks
  <2>2. streak \in [Arms -> 0 .. STREAK_MAX] /\ retry \in [Arms -> 0 .. REOPEN_AFTER]
    BY ControlAssumption DEF Init, CtlInit
  <2>3. plugged \in [Arms -> BOOLEAN] /\ fd \in [Arms -> {"open", "dead"}]
    BY DEF Init, CtlInit
  <2> QED
    BY <2>1, <2>2, <2>3 DEF Init, CtlInit, CtlTypeOK, Modes
<1>3. SupTypeOK
  BY SupervisorAssumption DEF Init, SupInit, SupTypeOK
<1>4. HistTypeOK
  BY DaemonAssumption DEF Init, HistTypeOK
<1> QED
  BY <1>1, <1>2, <1>3, <1>4 DEF TypeOK

LEMMA SenseType ==
  ASSUME TypeOK, Sense
  PROVE  CtlTypeOK'
<1> USE DEF TypeOK
<1> PICK lok \in Arrives("leader", fd), fok \in Arrives("follower", fd) :
       LET ok == [a \in Arms |-> IF a = "leader" THEN lok ELSE fok]
           port == [a \in Arms |-> IF ~Reopens(a, ok[a]) THEN fd[a]
                                   ELSE IF plugged[a] THEN "open" ELSE "dead"]
       IN /\ leader_ok' = lok
          /\ IF lok THEN leader_map' \in Pose ELSE UNCHANGED leader_map
          /\ follower_ok' = fok
          /\ IF fok THEN follower_pos' \in Pose /\ alarm' \in SUBSET AlarmSource
                    ELSE UNCHANGED <<follower_pos, alarm>>
          /\ streak' = [a \in Arms |-> NextStreak(a, ok[a])]
          /\ retry' = [a \in Arms |-> IF Reopens(a, ok[a]) THEN REOPEN_AFTER
                                                           ELSE Wait(a)]
          /\ fd' = port
          /\ IF Reopens("follower", fok)
               THEN /\ torque' = FALSE
                    /\ \E heard \in Arrives("follower", port) :
                         servo_torque' = ReopenTorque(heard)
               ELSE UNCHANGED <<torque, servo_torque>>
  BY DEF Sense
<1> DEFINE ok == [a \in Arms |-> IF a = "leader" THEN lok ELSE fok]
           port == [a \in Arms |-> IF ~Reopens(a, ok[a]) THEN fd[a]
                                   ELSE IF plugged[a] THEN "open" ELSE "dead"]
<1>1. lok \in BOOLEAN /\ fok \in BOOLEAN /\ \A a \in Arms : ok[a] \in BOOLEAN
  BY ArrivesType
<1>2. streak' \in [Arms -> 0 .. STREAK_MAX]
  BY <1>1, NextStreakType
<1>3. retry' \in [Arms -> 0 .. REOPEN_AFTER]
  BY WaitType, ControlAssumption
<1>4. fd' \in [Arms -> {"open", "dead"}]
  BY DEF CtlTypeOK
<1>5. leader_map' \in Pose /\ follower_pos' \in Pose /\ alarm' \in SUBSET Alarms
  BY ControlAssumption DEF CtlTypeOK
<1>6. torque' \in BOOLEAN /\ servo_torque' \in BOOLEAN
  <2>1. CASE Reopens("follower", fok)
    BY <2>1, ArrivesType DEF ReopenTorque, set_torque, CtlTypeOK
  <2>2. CASE ~Reopens("follower", fok)
    BY <2>2 DEF CtlTypeOK
  <2> QED
    BY <2>1, <2>2
<1>7. req' \in Modes /\ ctl' = "transition"
  BY DEF Sense, Clamped, Modes
<1>8. leader_ok' \in BOOLEAN /\ follower_ok' \in BOOLEAN
  BY <1>1
<1>9. UNCHANGED <<hung, applied, ramp, goal, hold, plugged, servo_goal>>
  BY DEF Sense
<1> QED
  BY <1>2, <1>3, <1>4, <1>5, <1>6, <1>7, <1>8, <1>9 DEF CtlTypeOK

LEMMA TransitionType ==
  ASSUME TypeOK, Transition
  PROVE  CtlTypeOK' /\ faults' \in SUBSET Faults
<1> USE DEF TypeOK
<1> USE ArrivesType
<1>0. UNCHANGED <<hung, leader_ok, leader_map, follower_ok, follower_pos, alarm,
                  streak, retry, busVars>> /\ req' = "none" /\ ctl' = "move"
  BY DEF Transition
<1>1. CASE Refuse
  BY <1>0, <1>1 DEF Refuse, CtlTypeOK, ShmTypeOK, busVars, Faults
<1>2. CASE Enable
  <2>1. servo_goal' \in Pose /\ servo_torque' \in BOOLEAN
    BY <1>2 DEF Enable, EnablePose, write_goal, set_torque, CtlTypeOK
  <2>2. req \in Modes /\ hold' \in Pose
    BY <1>2 DEF Enable, CtlTypeOK, Powered, Modes
  <2> QED
    BY <1>0, <1>2, <2>1, <2>2
       DEF Enable, EnablePose, EntryRamp, CtlTypeOK, ShmTypeOK, busVars
<1>3. CASE Switch
  <2>1. req \in Modes /\ hold' \in Pose
    BY <1>3 DEF Switch, CtlTypeOK, Powered, Modes
  <2> QED
    BY <1>0, <1>3, <2>1 DEF Switch, EntryRamp, CtlTypeOK, ShmTypeOK, busVars
<1>4. CASE Disable
  <2>1. servo_torque' \in BOOLEAN
    BY <1>4 DEF Disable, set_torque, CtlTypeOK
  <2> QED
    BY <1>0, <1>4, <2>1 DEF Transition, At, Disable, CtlTypeOK, ShmTypeOK, busVars
<1>5. CASE Keep
  BY <1>0, <1>5 DEF Keep, CtlTypeOK, ShmTypeOK, busVars
<1> QED
  BY <1>1, <1>2, <1>3, <1>4, <1>5 DEF Transition

(* A step of the control thread.                                           *)
LEMMA ControlType ==
  ASSUME TypeOK, ControlThread
  PROVE  TypeOK'
<1> USE DEF TypeOK
<1> USE ArrivesType
<1>0. SupTypeOK'
  BY DEF ControlThread, SupTypeOK, supVars
<1>1. CASE CycleStarts
  <2>1. CtlTypeOK'
    BY <1>1, SenseType DEF CycleStarts
  <2>2. ShmTypeOK'
    BY <1>1 DEF CycleStarts, Sense, shmVars, ShmTypeOK
  <2>3. HistTypeOK'
    BY <1>1, DaemonAssumption DEF CycleStarts, HistTypeOK
  <2> QED
    BY <1>0, <2>1, <2>2, <2>3
<1>2. CASE CycleEnds
  <2>1. sample' \in Samples
    BY <1>2 DEF CycleEnds, Seal, CtlTypeOK, Samples, Arms
  <2>2. CtlTypeOK' /\ ShmTypeOK'
    BY <1>2, <2>1 DEF CycleEnds, Seal, CtlTypeOK, ShmTypeOK, busVars
  <2>3. HistTypeOK'
    BY <1>2 DEF CycleEnds, HistTypeOK
  <2> QED
    BY <1>0, <2>2, <2>3
<1>3. CASE (Start \/ Transition \/ Move \/ Leave) /\ UNCHANGED histVars
  <2>0. HistTypeOK'
    BY <1>3 DEF histVars, HistTypeOK
  <2>1. CASE Start
    <3>1. servo_torque' \in BOOLEAN
      BY <2>1 DEF Start, set_torque, CtlTypeOK
    <3> QED
      BY <1>0, <2>0, <2>1, <3>1 DEF Start, CtlTypeOK, ShmTypeOK, busVars, shmVars
  <2>2. CASE Transition
    BY <1>0, <2>0, <2>2, TransitionType DEF Transition, ShmTypeOK
  <2>3. CASE Move
    <3>1. goal' \in Pose /\ servo_goal' \in Pose
      BY <2>3, NextGoalType DEF Move, write_goal, CtlTypeOK
    <3>2. ramp' \in SUBSET Joints
      BY <2>3 DEF Move, StillRamping, CtlTypeOK
    <3> QED
      BY <1>0, <2>0, <2>3, <3>1, <3>2 DEF Move, CtlTypeOK, ShmTypeOK, busVars
  <2>4. CASE Leave
    <3>1. servo_torque' \in BOOLEAN
      BY <2>4 DEF Leave, set_torque, CtlTypeOK
    <3> QED
      BY <1>0, <2>0, <2>4, <3>1 DEF Leave, CtlTypeOK, ShmTypeOK, busVars, shmVars
  <2> QED
    BY <1>3, <2>1, <2>2, <2>3, <2>4
<1> QED
  BY <1>1, <1>2, <1>3 DEF ControlThread

(* The supervisor only asks for and only forces modes that exist.          *)
LEMMA SafeType ==
  ASSUME NEW f
  PROVE  Safe(f) \in Modes
BY DEF Safe, Modes

(* temp_ticks and volt_ticks stop at PERSIST_TICKS.                        *)
LEMMA NextTicksType ==
  ASSUME SupTypeOK
  PROVE  NextTicks \in [Alarms -> 0 .. PERSIST_TICKS]
BY SupervisorAssumption DEF SupTypeOK, NextTicks

(* A step of the supervisor.                                               *)
LEMMA SupervisorType ==
  ASSUME TypeOK, SupervisorThread
  PROVE  TypeOK'
<1> USE DEF TypeOK
<1>0. CtlTypeOK'
  BY DEF SupervisorThread, CtlTypeOK, ctlVars
<1>1. CASE Snapshot
  <2>1. todo' \in SUBSET Faults
    BY <1>1 DEF Snapshot, Check, Shown, Faults
  <2>2. ticks' \in [Alarms -> 0 .. PERSIST_TICKS]
    BY <1>1, NextTicksType DEF Snapshot, Check
  <2>3. SupTypeOK'
    BY <1>1, <2>1, <2>2, SupervisorAssumption DEF Snapshot, Check, SupTypeOK
  <2>4. ShmTypeOK'
    BY <1>1 DEF Snapshot, Check, ShmTypeOK
  <2>5. HistTypeOK'
    BY <1>1, DaemonAssumption DEF Snapshot, HistTypeOK, Faults
  <2> QED
    BY <1>0, <2>3, <2>4, <2>5
<1>2. CASE /\ \/ Tick \/ StoreMode \/ Raise \/ ForceMode \/ Beat \/ Return
              \/ GiveUp /\ (Preemptible \/ hung)
           /\ CountCut
           /\ UNCHANGED <<lag, shown>>
  <2>0. HistTypeOK'
    BY <1>2 DEF CountCut, HistTypeOK
  <2>1. CASE Tick
    BY <1>0, <2>0, <2>1, SupervisorAssumption
       DEF Tick, Passing, shmVars, ShmTypeOK, SupTypeOK
  <2>2. CASE StoreMode
    BY <1>0, <2>0, <2>2 DEF StoreMode, ShmTypeOK, SupTypeOK
  <2>3. CASE Raise
    BY <1>0, <2>0, <2>3 DEF Raise, ShmTypeOK, SupTypeOK
  <2>4. CASE ForceMode
    <3>1. mode_req' \in Modes
      BY <2>4, SafeType DEF ForceMode, ShmTypeOK
    <3> QED
      BY <1>0, <2>0, <2>4, <3>1 DEF ForceMode, ShmTypeOK, SupTypeOK
  <2>5. CASE Beat
    BY <1>0, <2>0, <2>5 DEF Beat, ShmTypeOK, SupTypeOK
  <2>6. CASE Return
    BY <1>0, <2>0, <2>6 DEF Return, shmVars, ShmTypeOK, SupTypeOK
  <2>7. CASE GiveUp
    BY <1>0, <2>0, <2>7 DEF GiveUp, shmVars, ShmTypeOK, SupTypeOK
  <2> QED
    BY <1>2, <2>1, <2>2, <2>3, <2>4, <2>5, <2>6, <2>7
<1> QED
  BY <1>1, <1>2 DEF SupervisorThread

(* A command of a client.                                                  *)
LEMMA ClientType ==
  ASSUME TypeOK, Client
  PROVE  TypeOK'
<1> USE DEF TypeOK
<1> PICK c \in Requests : Serve(c)
  BY DEF Client
<1>1. c \in Commands /\ c.arg \in Modes
  BY SupervisorAssumption DEF Commands, Modes
<1>2. CtlTypeOK' /\ HistTypeOK'
  BY DEF Client, ctlVars, histVars, CtlTypeOK, HistTypeOK
<1>3. ShmTypeOK'
  BY DEF Serve, ShmTypeOK, Faults
<1>4. quiet' \in 0 .. STALL_TICKS + 1
  BY SupervisorAssumption DEF Serve, Passing, SupTypeOK
<1>5. to_store' \in Modes \cup {"none"} /\ (sup' = "store" => to_store' \in Modes)
  BY <1>1 DEF Serve, SupTypeOK, Modes
<1> QED
  BY <1>2, <1>3, <1>4, <1>5 DEF Serve, SupTypeOK

(* The type invariant of the daemon: the counters of control.c and         *)
(* supervisor.c saturate, and every goal stays a servo position.           *)
THEOREM TypeCorrect == Spec => []TypeOK
<1>1. ASSUME TypeOK, [Next]_vars
      PROVE  TypeOK'
  <2>1. CASE ControlThread
    BY <1>1, <2>1, ControlType
  <2>2. CASE SupervisorThread
    BY <1>1, <2>2, SupervisorType
  <2>3. CASE Client
    BY <1>1, <2>3, ClientType
  <2>4. CASE Signal
    <3>1. CtlTypeOK'
      BY <1>1, <2>4 DEF Signal, TypeOK, CtlTypeOK, ctlVars
    <3>2. SupTypeOK' /\ HistTypeOK'
      BY <1>1, <2>4 DEF Signal, TypeOK, SupTypeOK, HistTypeOK, supVars, histVars
    <3> QED
      BY <1>1, <2>4, <3>1, <3>2 DEF Signal, TypeOK, ShmTypeOK
  <2>5. CASE World
    <3>1. SupTypeOK' /\ HistTypeOK'
      BY <1>1, <2>5 DEF World, TypeOK, SupTypeOK, HistTypeOK, supVars, histVars
    <3>2. CASE Cable
      <4>1. plugged' \in [Arms -> BOOLEAN] /\ fd' \in [Arms -> {"open", "dead"}]
        BY <1>1, <3>2 DEF Cable, Unplug, Plug, TypeOK, CtlTypeOK
      <4> QED
        BY <1>1, <3>1, <3>2, <4>1 DEF Cable, TypeOK, CtlTypeOK, ShmTypeOK, shmVars
    <3>3. CASE Hang
      BY <1>1, <3>1, <3>3 DEF Hang, TypeOK, CtlTypeOK, ShmTypeOK, shmVars, busVars
    <3> QED
      BY <2>5, <3>2, <3>3 DEF World
  <2>6. CASE UNCHANGED vars
    BY <1>1, <2>6 DEF vars, shmVars, ctlVars, supVars, histVars,
                      TypeOK, ShmTypeOK, CtlTypeOK, SupTypeOK, HistTypeOK
  <2> QED
    BY <1>1, <2>1, <2>2, <2>3, <2>4, <2>5, <2>6 DEF Next, Terminated
<1> QED
  BY <1>1, InitType, PTL DEF Spec

-----------------------------------------------------------------------------
(* Faults and modes.                                                       *)

(* The fault word fs and the mode m can stand together.                    *)
Compatible(fs, m) ==
  /\ fs \cap Forbids(m) = {}
  /\ m = "ESTOP" <=> fs \cap {"STALL", "ESTOP"} # {}

(* The faults a snapshot can show: neither the one a client raises nor the *)
(* one the control thread raises.                                          *)
Checked == Faults \ {"ESTOP", "TORQUE_REFUSED"}

FaultInv ==
  /\ todo \subseteq Checked
  /\ Settled => Compatible(faults, mode_req)
  /\ sup = "store" => Compatible(faults, to_store)
  /\ sup = "force" => /\ raising \in Checked \cap faults /\ Forces(raising)
                      /\ \/ Compatible(faults, mode_req)
                         \/ Compatible(faults \ {raising}, mode_req)

-----------------------------------------------------------------------------
(* TORQUE_REFUSED and OVERRUN, the two faults that force no mode, can come *)
(* and go under any mode.                                                  *)
LEMMA HarmlessFaults ==
  ASSUME NEW fs, NEW gs, NEW m,
         fs \ {"TORQUE_REFUSED", "OVERRUN"} = gs \ {"TORQUE_REFUSED", "OVERRUN"},
         Compatible(fs, m)
  PROVE  Compatible(gs, m)
BY DEF Compatible, Forbids

(* The control thread touches no fault but TORQUE_REFUSED.                 *)
LEMMA ControlKeepsFaults ==
  ASSUME ControlThread
  PROVE  /\ faults' \ {"TORQUE_REFUSED"} = faults \ {"TORQUE_REFUSED"}
         /\ UNCHANGED <<mode_req, supVars>>
<1>1. CASE Transition
  BY <1>1 DEF ControlThread, Transition, Refuse, Enable, Switch, Disable, Keep
<1>2. CASE CycleStarts \/ CycleEnds \/ Start \/ Move \/ Leave
  BY <1>2 DEF ControlThread, CycleStarts, CycleEnds, Start, Move, Leave, Sense,
              Seal, shmVars
<1> QED
  BY <1>1, <1>2 DEF ControlThread

LEMMA InitFaults == Init => FaultInv
BY DEF Init, ShmInit, SupInit, FaultInv, Compatible, Forbids, Settled

LEMMA ControlFaults ==
  ASSUME FaultInv, ControlThread
  PROVE  FaultInv'
<1>1. /\ faults' \ {"TORQUE_REFUSED"} = faults \ {"TORQUE_REFUSED"}
      /\ UNCHANGED <<mode_req, sup, to_store, todo, raising>>
  BY ControlKeepsFaults DEF supVars
<1>2. \A m : Compatible(faults, m) => Compatible(faults', m)
  BY <1>1, HarmlessFaults
<1>3. \A m : raising # "TORQUE_REFUSED" /\ Compatible(faults \ {raising}, m)
               => Compatible(faults' \ {raising}, m)
  BY <1>1, HarmlessFaults
<1> QED
  BY <1>1, <1>2, <1>3 DEF FaultInv, Settled, Checked

(* A command: the mode it stores is allowed by the faults it leaves.       *)
LEMMA ClientFaults ==
  ASSUME TypeOK, FaultInv, Client
  PROVE  FaultInv'
<1> PICK c \in Requests : Serve(c)
  BY DEF Client
<1>1. sup = "wait" /\ Compatible(faults, mode_req) /\ todo \subseteq Checked
  BY DEF Serve, FaultInv, Settled
<1>2. UNCHANGED <<mode_req, todo, raising>> /\ sup' \in {"store", "check"}
  BY DEF Serve
<1>3. c.arg \in Modes
  BY SupervisorAssumption DEF Commands, Modes
<1>4. CASE c.cmd = "ESTOP"
  <2>1. faults' = faults \cup {"ESTOP"} /\ to_store' = "ESTOP" /\ sup' = "store"
    BY <1>4 DEF Serve, Result
  <2> QED
    BY <1>1, <1>2, <2>1 DEF FaultInv, Settled, Compatible, Forbids
<1>5. CASE c.cmd = "RESET"
  <2>1. faults' = {} /\ to_store' = "IDLE" /\ sup' = "store"
    BY <1>5 DEF Serve, Result
  <2> QED
    BY <1>1, <1>2, <2>1 DEF FaultInv, Settled, Compatible, Forbids
<1>6. CASE c.cmd \notin {"ESTOP", "RESET"} /\ sup' = "check"
  <2>1. faults' = faults
    BY <1>6 DEF Serve
  <2> QED
    BY <1>1, <1>2, <1>6, <2>1 DEF FaultInv, Settled
<1>7. CASE c.cmd \notin {"ESTOP", "RESET"} /\ sup' = "store"
  <2>1. faults' = faults /\ to_store' = c.arg /\ c.cmd # "PING" /\ Result(c) = "OK"
    BY <1>7 DEF Serve
  <2>2. Compatible(faults, c.arg)
    <3>1. CASE c.arg = "IDLE"
      BY <1>1, <1>7, <2>1, <3>1 DEF Result, Compatible, Forbids
    <3>2. CASE c.arg = "TELEOP"
      BY <1>7, <2>1, <3>2
         DEF Result, Compatible, Forbids, F_BLOCK_ALL, F_BLOCK_TELEOP, Faults
    <3>3. CASE c.arg = "HOLD"
      BY <1>7, <2>1, <3>3 DEF Result, Compatible, Forbids, F_BLOCK_ALL, Faults
    <3>4. CASE c.arg = "ESTOP"
      BY <1>7, <2>1, <3>4 DEF Result
    <3> QED
      BY <1>3, <3>1, <3>2, <3>3, <3>4 DEF Modes
  <2> QED
    BY <1>1, <1>2, <1>7, <2>1, <2>2 DEF FaultInv, Settled
<1> QED
  BY <1>2, <1>4, <1>5, <1>6, <1>7

(* Forcing the mode down restores what setting the bit disturbed.          *)
LEMMA ForceRestores ==
  ASSUME NEW fs \in SUBSET Faults, NEW m \in Modes, NEW f \in Checked \cap fs, Forces(f),
         Compatible(fs, m) \/ Compatible(fs \ {f}, m)
  PROVE  Compatible(fs, IF Lower(m, Safe(f)) THEN Safe(f) ELSE m)
<1>1. CASE f = "STALL"
  BY <1>1 DEF Safe, Lower, Compatible, Forbids
<1>2. CASE f = "LEADER_COMM"
  BY <1>2 DEF Safe, Lower, Compatible, Forbids, Modes
<1>3. CASE f \in {"FOLLOWER_COMM", "OVERTEMP", "VOLTAGE"}
  BY <1>3 DEF Safe, Lower, Compatible, Forbids, Modes
<1> QED
  BY <1>1, <1>2, <1>3 DEF Checked, Forces, Faults

LEMMA SupervisorFaults ==
  ASSUME TypeOK, FaultInv, SupervisorThread
  PROVE  FaultInv'
<1>1. CASE Snapshot
  <2>1. todo' \subseteq Checked
    BY <1>1 DEF Snapshot, Check, Shown, Checked, Faults
  <2> QED
    BY <1>1, <2>1 DEF Snapshot, Check, FaultInv, Settled
<1>2. CASE Tick \/ GiveUp \/ Beat \/ Return
  BY <1>2 DEF Tick, GiveUp, Beat, Return, shmVars, FaultInv, Settled
<1>3. CASE StoreMode
  BY <1>3 DEF StoreMode, FaultInv, Settled
<1>4. CASE Raise
  <2> PICK f \in todo :
         /\ faults' = faults \cup {f}
         /\ todo' = todo \ {f}
         /\ IF Forces(f) THEN raising' = f /\ sup' = "force"
                         ELSE UNCHANGED <<raising, sup>>
    BY <1>4 DEF Raise
  <2>1. f \in Checked /\ Compatible(faults, mode_req) /\ UNCHANGED mode_req
    BY <1>4 DEF Raise, FaultInv, Settled
  <2>2. CASE Forces(f)
    <3>1. CASE f \in faults
      <4>1. faults' = faults
        BY <3>1
      <4> QED
        BY <2>1, <2>2, <3>1, <4>1 DEF FaultInv, Settled
    <3>2. CASE f \notin faults
      <4>1. faults' \ {f} = faults
        BY <3>2
      <4> QED
        BY <2>1, <2>2, <4>1 DEF FaultInv, Settled
    <3> QED
      BY <3>1, <3>2
  <2>3. CASE ~Forces(f)
    <3>1. Compatible(faults', mode_req')
      BY <2>1, <2>3, HarmlessFaults DEF Forces
    <3> QED
      BY <1>4, <2>3, <3>1 DEF Raise, FaultInv, Settled
  <2> QED
    BY <2>2, <2>3
<1>5. CASE ForceMode
  <2>1. Compatible(faults, mode_req')
    BY <1>5, ForceRestores DEF ForceMode, FaultInv, TypeOK, ShmTypeOK
  <2> QED
    BY <1>5, <2>1 DEF ForceMode, FaultInv, Settled
<1> QED
  BY <1>1, <1>2, <1>3, <1>4, <1>5 DEF SupervisorThread

(* FaultInv is an invariant of the daemon.                                 *)
THEOREM FaultsInvariant == Spec => []FaultInv
<1>1. ASSUME TypeOK, FaultInv, [Next]_vars
      PROVE  FaultInv'
  <2>1. CASE ControlThread
    BY <1>1, <2>1, ControlFaults
  <2>2. CASE SupervisorThread
    BY <1>1, <2>2, SupervisorFaults
  <2>3. CASE Client
    BY <1>1, <2>3, ClientFaults
  <2>4. CASE Signal \/ World \/ UNCHANGED vars
    <3>1. UNCHANGED <<faults, mode_req, sup, to_store, todo, raising>>
      BY <2>4 DEF Signal, World, Cable, Hang, shmVars, supVars, vars
    <3> QED
      BY <1>1, <3>1 DEF FaultInv, Settled
  <2> QED
    BY <1>1, <2>1, <2>2, <2>3, <2>4 DEF Next, Terminated
<1> QED
  BY <1>1, InitFaults, TypeCorrect, PTL DEF Spec

(* Once a command or a fault has been dealt with, no latched fault stands  *)
(* beside a mode it forbids (serve_command, raise_fault).                  *)
THEOREM FaultsAlwaysForce == Spec => []FaultsForceSafeMode
<1>1. FaultInv => FaultsForceSafeMode
  BY DEF FaultInv, Compatible, FaultsForceSafeMode
<1> QED
  BY <1>1, FaultsInvariant, PTL

(* mode_req is ESTOP exactly as long as STALL or ESTOP is latched: no      *)
(* fault and no SET_MODE leads out of the emergency stop.                  *)
THEOREM EstopAlwaysLatched == Spec => []EstopLatched
<1>1. FaultInv => EstopLatched
  BY DEF FaultInv, Compatible, EstopLatched
<1> QED
  BY <1>1, FaultsInvariant, PTL

-----------------------------------------------------------------------------
(* What the last snapshot showed.                                          *)
(*                                                                         *)
(* RESET empties the fault word and not the buses, so the word alone does  *)
(* not say what the snapshot said.  ShownInv follows a silent bus through  *)
(* a turn: it is latched when the supervisor waits; while a command is     *)
(* served and before the next snapshot a silent follower keeps the mode    *)
(* down; and after the snapshot it is latched or about to be.  A turn      *)
(* without a snapshot breaks this, which takes a publication that never    *)
(* ends: a control thread that hung, or was preempted for 100 tries.       *)

ShownInv ==
  /\ shown \subseteq {"LEADER_COMM", "FOLLOWER_COMM"}
  /\ \/ hung
     \/ /\ sup \in {"wait", "done"} => shown \subseteq faults
        /\ sup \in {"raise", "force"} => shown \subseteq faults \cup todo
        /\ sup \in {"store", "check"} /\ "FOLLOWER_COMM" \in shown =>
             /\ mode_req \notin Powered
             /\ sup = "store" => to_store \notin Powered

(* A follower that is latched as silent forbids both powered modes.        *)
LEMMA SilentFollowerForbids ==
  ASSUME NEW fs, NEW m \in Modes, "FOLLOWER_COMM" \in fs, Compatible(fs, m)
  PROVE  m \notin Powered
BY DEF Compatible, Forbids, Powered, Modes, Faults

LEMMA ClientShown ==
  ASSUME TypeOK, FaultInv, FaultInv', ShownInv, Client
  PROVE  ShownInv'
<1> PICK c \in Requests : Serve(c)
  BY DEF Client
<1>1. sup = "wait" /\ sup' \in {"store", "check"} /\ UNCHANGED <<mode_req, hung, shown>>
  BY DEF Client, Serve, ctlVars, histVars
<1>2. SUFFICES ASSUME ~hung, "FOLLOWER_COMM" \in shown
               PROVE  /\ mode_req \notin Powered
                      /\ sup' = "store" => to_store' \notin Powered
  BY <1>1 DEF ShownInv
<1>3. "FOLLOWER_COMM" \in faults /\ mode_req \notin Powered
  BY <1>1, <1>2, SilentFollowerForbids DEF ShownInv, FaultInv, Settled, TypeOK, ShmTypeOK
<1>4. CASE c.cmd \in {"ESTOP", "RESET"}
  BY <1>3, <1>4 DEF Serve, Result, Powered
<1>5. CASE c.cmd \notin {"ESTOP", "RESET"}
  <2>1. faults' = faults
    BY <1>5 DEF Serve
  <2>2. sup' = "store" => to_store' \in Modes /\ Compatible(faults, to_store')
    BY <2>1, ClientType DEF FaultInv, TypeOK, SupTypeOK
  <2> QED
    BY <1>3, <2>2, SilentFollowerForbids
<1> QED
  BY <1>4, <1>5

(* The faults of the buses that the history variable shows are among those *)
(* that the turn is going to raise.                                        *)
LEMMA SnapshotShown ==
  ASSUME TypeOK, Snapshot
  PROVE  shown' \subseteq todo' /\ shown' \subseteq {"LEADER_COMM", "FOLLOWER_COMM"}
BY DEF Snapshot, Check, Shown, Silent, Faults

LEMMA SupervisorShown ==
  ASSUME ~Preemptible, TypeOK, FaultInv, ShownInv, SupervisorThread
  PROVE  ShownInv'
<1>0. UNCHANGED hung
  BY DEF SupervisorThread, ctlVars
<1>1. CASE Snapshot
  <2>1. sup' = "raise"
    BY <1>1 DEF Snapshot, Check
  <2> QED
    BY <1>1, <2>1, SnapshotShown DEF ShownInv
<1>2. CASE GiveUp /\ (Preemptible \/ hung) /\ UNCHANGED shown
  BY <1>0, <1>2 DEF ShownInv
<1>3. CASE Tick /\ UNCHANGED shown
  <2>1. sup = "wait" /\ sup' = "check" /\ UNCHANGED <<faults, mode_req>>
    BY <1>3 DEF Tick, shmVars
  <2>2. ~hung /\ "FOLLOWER_COMM" \in shown => mode_req \notin Powered
    BY <2>1, SilentFollowerForbids DEF ShownInv, FaultInv, Settled, TypeOK, ShmTypeOK
  <2> QED
    BY <1>0, <1>3, <2>1, <2>2 DEF ShownInv
<1>4. CASE StoreMode /\ UNCHANGED shown
  BY <1>0, <1>4 DEF StoreMode, ShownInv
<1>5. CASE Raise /\ UNCHANGED shown
  <2>1. sup = "raise" /\ sup' \in {"raise", "force"}
        /\ faults \cup todo \subseteq faults' \cup todo'
    BY <1>5 DEF Raise
  <2> QED
    BY <1>0, <1>5, <2>1 DEF ShownInv
<1>6. CASE ForceMode /\ UNCHANGED shown
  BY <1>0, <1>6 DEF ForceMode, ShownInv
<1>7. CASE (Beat \/ Return) /\ UNCHANGED shown
  BY <1>0, <1>7 DEF Beat, Return, shmVars, ShownInv
<1> QED
  BY <1>1, <1>2, <1>3, <1>4, <1>5, <1>6, <1>7 DEF SupervisorThread

(* Unless a reader of the snapshot can starve, ShownInv is an invariant.   *)
THEOREM ShownInvariant ==
  ASSUME ~Preemptible
  PROVE  Spec => []ShownInv
<1>1. Init => ShownInv
  BY DEF Init, SupInit, ShownInv
<1>2. ASSUME TypeOK, FaultInv, FaultInv', ShownInv, [Next]_vars
      PROVE  ShownInv'
  <2>1. CASE ControlThread
    <3>1. /\ faults' \ {"TORQUE_REFUSED"} = faults \ {"TORQUE_REFUSED"}
          /\ UNCHANGED <<mode_req, sup, to_store, todo>>
      BY <2>1, ControlKeepsFaults DEF supVars
    <3>2. UNCHANGED <<shown, hung>>
      BY <2>1 DEF ControlThread, CycleStarts, CycleEnds, Start, Transition, Move, Leave,
                  Sense, Seal, histVars
    <3> QED
      BY <1>2, <3>1, <3>2 DEF ShownInv
  <2>2. CASE SupervisorThread
    BY <1>2, <2>2, SupervisorShown
  <2>3. CASE Client
    BY <1>2, <2>3, ClientShown
  <2>4. CASE Signal \/ UNCHANGED vars
    <3>1. UNCHANGED <<shown, hung, faults, mode_req, sup, to_store, todo>>
      BY <2>4 DEF Signal, shmVars, ctlVars, supVars, histVars, vars
    <3> QED
      BY <1>2, <3>1 DEF ShownInv
  <2>5. CASE World
    <3>1. UNCHANGED <<shown, faults, mode_req, sup, to_store, todo>>
      BY <2>5 DEF World, Cable, Hang, shmVars, supVars, histVars
    <3>2. hung' = hung \/ hung' = TRUE
      BY <2>5 DEF World, Cable, Hang
    <3> QED
      BY <1>2, <3>1, <3>2 DEF ShownInv
  <2> QED
    BY <1>2, <2>1, <2>2, <2>3, <2>4, <2>5 DEF Next, Terminated
<1> QED
  BY <1>1, <1>2, TypeCorrect, FaultsInvariant, PTL DEF Spec

(* A RESET cannot power the arm over a fault that is still there: as long  *)
(* as no reader of the snapshot starves, the mode that stands when the     *)
(* supervisor waits is allowed by every bus its last snapshot found silent *)
(* (serve_command and the checks of supervisor_thread).                    *)
THEOREM PowerAlwaysNeedsCleanSnapshot ==
  ASSUME ~Preemptible, ~CanHang
  PROVE  Spec => []PowerNeedsCleanSnapshot
<1>1. Init => ~hung
  BY DEF Init, CtlInit
<1>2. ~hung /\ [Next]_vars => ~hung'
  BY DEF Next, ControlThread, CycleStarts, CycleEnds, Start, Transition, Move, Leave,
         Sense, Seal, SupervisorThread, Client, Signal, World, Cable, Hang, Terminated,
         ctlVars, vars
<1>3. FaultInv /\ ShownInv /\ ~hung => PowerNeedsCleanSnapshot
  BY DEF FaultInv, ShownInv, Settled, Compatible, PowerNeedsCleanSnapshot
<1> QED
  BY <1>1, <1>2, <1>3, FaultsInvariant, ShownInvariant, PTL DEF Spec

=============================================================================

------------------------------- MODULE Daemon -------------------------------
(***************************************************************************)
(* The process so101d: the control thread and the supervisor thread, the   *)
(* signal that makes main stop them (daemon/src/so101d.c), the clients     *)
(* that send commands and the hands that pull cables.                      *)
(*                                                                         *)
(* Nothing synchronises the threads but the shared words, so their steps   *)
(* interleave freely.  One bound on their relative speed is a parameter:   *)
(* between two snapshots of the supervisor (20 ms apart, or less) the      *)
(* control thread starts at most MaxLag cycles (10 ms each).               *)
(***************************************************************************)
EXTENDS Control, Supervisor

CONSTANTS
  MaxLag,       \* control cycles between two snapshots of the supervisor
  Preemptible   \* a publication can outlast the 100 tries of a reader

ASSUME DaemonAssumption ==
  /\ MaxLag \in Nat \ {0}
  /\ Preemptible \in BOOLEAN

VARIABLES
  lag,    \* history: cycles started since the last snapshot of the supervisor
  cut,    \* history: cycles ended since mode_req left Powered, up to 2
  shown   \* history: the buses the last snapshot showed silent, as faults

histVars == <<lag, cut, shown>>
vars == <<shmVars, ctlVars, supVars, histVars>>

(* shm_create and the option -m.                                           *)
ShmInit ==
  /\ mode_req \in {"IDLE", "TELEOP", "HOLD"}
  /\ faults = {}
  /\ sample = EmptySample
  /\ writing = FALSE
  /\ unseen = {}
  /\ sup_beat = FALSE
  /\ run = TRUE

Init ==
  /\ ShmInit /\ CtlInit /\ SupInit
  /\ lag = 0
  /\ cut = IF mode_req \in Powered THEN 0 ELSE 2
  /\ shown = {}

-----------------------------------------------------------------------------
(* The threads.                                                            *)

CycleStarts ==
  /\ Sense
  /\ lag < MaxLag
  /\ lag' = lag + 1
  /\ UNCHANGED <<cut, shown>>

CycleEnds ==
  /\ Seal
  /\ cut' = IF mode_req \notin Powered /\ cut < 2 THEN cut + 1 ELSE cut
  /\ UNCHANGED <<lag, shown>>

ControlThread ==
  /\ \/ CycleStarts
     \/ CycleEnds
     \/ (Start \/ Transition \/ Move \/ Leave) /\ UNCHANGED histVars
  /\ UNCHANGED supVars

(* Keeps `cut' when mode_req can change.                                   *)
CountCut == cut' = IF mode_req' \in Powered THEN 0 ELSE cut

Snapshot ==
  /\ Check
  /\ lag' = 0
  /\ shown' = {f \in {"LEADER_COMM", "FOLLOWER_COMM"} :
                 comm_streak =< IF f = "LEADER_COMM" THEN sample.leader_streak
                                                     ELSE sample.follower_streak}
  /\ UNCHANGED cut

SupervisorThread ==
  /\ \/ Snapshot
     \/ /\ \/ Tick \/ StoreMode \/ Raise \/ ForceMode \/ Beat \/ Return
           \/ GiveUp /\ (Preemptible \/ hung)
        /\ CountCut
        /\ UNCHANGED <<lag, shown>>
  /\ UNCHANGED ctlVars

(* A client has left a command in the mailbox.                             *)
Client ==
  /\ \E c \in Requests : Serve(c)
  /\ UNCHANGED <<ctlVars, histVars>>

(* SIGINT or SIGTERM: main leaves its loop and asks the threads to stop.   *)
Signal ==
  /\ run
  /\ run' = FALSE
  /\ UNCHANGED <<mode_req, faults, sample, writing, unseen, sup_beat,
                 ctlVars, supVars, histVars>>

World == (Cable \/ Hang) /\ UNCHANGED <<supVars, histVars>>

(* main has joined both threads.                                           *)
Terminated == ctl = "done" /\ sup = "done" /\ UNCHANGED vars

Next ==
  \/ ControlThread \/ SupervisorThread
  \/ Client \/ Signal \/ World \/ Terminated

Spec == Init /\ [][Next]_vars

(* The scheduler runs every thread that can run; nobody owes a command, a  *)
(* signal, a cable or a fault.                                             *)
FairSpec ==
  /\ Spec
  /\ WF_vars(ControlThread)
  /\ WF_vars(SupervisorThread)

-----------------------------------------------------------------------------
(* Properties.                                                             *)

Samples ==
  [mode : Modes, torque_on : BOOLEAN, follower_ok : BOOLEAN,
   leader_streak : 0 .. STREAK_MAX, follower_streak : 0 .. STREAK_MAX,
   alarm : SUBSET Alarms]

ShmTypeOK ==
  /\ mode_req \in Modes
  /\ faults \in SUBSET Faults
  /\ sample \in Samples
  /\ writing \in BOOLEAN /\ sup_beat \in BOOLEAN /\ run \in BOOLEAN
  /\ unseen \in SUBSET Readers

CtlTypeOK ==
  /\ ctl \in {"start", "sense", "transition", "move", "seal", "done"}
  /\ hung \in BOOLEAN
  /\ req \in Modes \cup {"none"} /\ (ctl = "transition" => req \in Modes)
  /\ applied \in Modes
  /\ torque \in BOOLEAN /\ servo_torque \in BOOLEAN
  /\ ramp \in SUBSET Joints
  /\ goal \in Pose /\ hold \in Pose /\ servo_goal \in Pose
  /\ leader_ok \in BOOLEAN /\ leader_map \in Pose
  /\ follower_ok \in BOOLEAN /\ follower_pos \in Pose
  /\ alarm \in SUBSET Alarms
  /\ streak \in [Arms -> 0 .. STREAK_MAX]
  /\ retry \in [Arms -> 0 .. REOPEN_AFTER]
  /\ plugged \in [Arms -> BOOLEAN]
  /\ fd \in [Arms -> {"open", "dead"}]

SupTypeOK ==
  /\ sup \in {"wait", "store", "check", "raise", "force", "done"}
  /\ to_store \in Modes \cup {"none"} /\ (sup = "store" => to_store \in Modes)
  /\ todo \in SUBSET Faults
  /\ raising \in Faults \cup {"none"}
  /\ quiet \in 0 .. STALL_TICKS + 1
  /\ ticks \in [Alarms -> 0 .. PERSIST_TICKS]

HistTypeOK ==
  /\ lag \in 0 .. MaxLag
  /\ cut \in 0 .. 2
  /\ shown \in SUBSET Faults

(* Every variable keeps its type: the streak counters saturate and do not  *)
(* wrap, the waits and tick counters stay in their ranges, and the goal,   *)
(* the hold pose and what is written to the servos stay servo positions.   *)
TypeOK == ShmTypeOK /\ CtlTypeOK /\ SupTypeOK /\ HistTypeOK

(* The faults that forbid mode m.                                          *)
Forbids(m) ==
  CASE m = "TELEOP" -> Faults \ {"OVERRUN", "TORQUE_REFUSED"}
    [] m = "HOLD"   -> Faults \ {"OVERRUN", "TORQUE_REFUSED", "LEADER_COMM"}
    [] OTHER        -> {}

(* Between its two stores the supervisor has promised and not yet done.    *)
Settled == sup \notin {"store", "force"}

(* A latched fault and the mode it forbids never stand together once the   *)
(* supervisor has finished a command or a fault, whatever the control      *)
(* thread does to the fault word in between (serve_command, raise_fault).  *)
FaultsForceSafeMode ==
  Settled => faults \cap Forbids(mode_req) = {}

(* The emergency stop is latched: mode_req is ESTOP exactly as long as one *)
(* of the faults that demand it is, whatever other faults and commands     *)
(* arrive meanwhile; only RESET ends both.                                 *)
EstopLatched ==
  Settled => (mode_req = "ESTOP" <=> faults \cap {"STALL", "ESTOP"} # {})

(* A RESET cannot be used to power the arm over a fault that is still      *)
(* there: when the supervisor waits for the next command, the mode it asks *)
(* for is allowed by the buses its last snapshot found silent (comment in  *)
(* serve_command: "faults whose cause persists re-latch next tick").       *)
PowerNeedsCleanSnapshot ==
  sup = "wait" => shown \cap Forbids(mode_req) = {}

(* The control thread never sits in a powered mode with its torque flag    *)
(* down: the reopening of the follower's port clears the flag and leaves   *)
(* the mode alone, counting on the supervisor having forced IDLE before.   *)
PoweredMeansTorque ==
  applied \in Powered <=> torque

(* The second cycle that ends after mode_req left the powered modes, and   *)
(* every one after it, ends with torque off and says so.                   *)
CutWithinTwoCycles ==
  cut = 2 => ~torque /\ ~sample.torque_on

(* As long as the follower's descriptor works, an arm the control thread   *)
(* takes for limp is limp, through crashes of an earlier run, unplugging,  *)
(* reopening and shutdown.                                                 *)
LimpUnlessLost ==
  /\ ctl # "start"
  /\ ~torque \/ ctl = "done"
  /\ fd["follower"] = "open"
  => ~servo_torque

(* A follower that stays unplugged ends the power as far as the daemon     *)
(* goes, for good: the supervisor asks for none and the torque flag of the *)
(* control thread is down, however often clients reset the fault and ask   *)
(* for power again and however long the silence lasts.  The servos keep    *)
(* their registers meanwhile, as no frame reaches them.                    *)
LossEndsPower ==
  (<>[]~plugged["follower"]) =>
    <>[](/\ ~torque \/ ctl = "done"
         /\ mode_req \notin Powered \/ ~run)

(* An arm that is plugged in for good answers again, without a restart.    *)
Reconnects ==
  \A a \in Unpluggable : (<>[](plugged[a] /\ run)) => <>[](streak[a] = 0)

(* After a signal both threads come to their end.                          *)
StopsOnSignal == ~run ~> (ctl = "done" /\ sup = "done")

=============================================================================

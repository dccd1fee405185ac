---------------------------- MODULE TorqueProofs ----------------------------
(***************************************************************************)
(* Torque goes off when it should: in the thread's own view within two     *)
(* cycles of the request, and on the servos themselves for as long as the  *)
(* wire loses no frame.                                                    *)
(***************************************************************************)
EXTENDS DaemonProofs

(* The second cycle to end after mode_req left the powered modes ends with *)
(* torque off because the first one to start after that loads a request    *)
(* that is not powered.                                                    *)
CutInv ==
  /\ torque => applied \in Powered
  /\ cut > 0 => /\ mode_req \notin Powered
                /\ ctl = "transition" => req \notin Powered
                /\ ctl \in {"move", "seal"} => ~torque
  /\ CutWithinTwoCycles

LEMMA InitCut == Init => CutInv
BY DEF Init, ShmInit, CtlInit, EmptySample, CutInv, CutWithinTwoCycles, Powered

LEMMA ControlCut ==
  ASSUME TypeOK, CutInv, ControlThread
  PROVE  CutInv'
<1> USE DEF CutInv, CutWithinTwoCycles
<1>0. cut \in 0 .. 2
  BY DEF TypeOK, HistTypeOK
<1>1. CASE CycleStarts
  <2>1. UNCHANGED <<cut, mode_req, sample, applied>> /\ ctl' = "transition"
    BY <1>1 DEF CycleStarts, Sense, shmVars
  <2>2. req' = mode_req
    BY <1>1 DEF CycleStarts, Sense, Clamped, TypeOK, ShmTypeOK
  <2>3. torque' => torque
    BY <1>1 DEF CycleStarts, Sense
  <2> QED
    BY <2>1, <2>2, <2>3
<1>2. CASE CycleEnds
  <2>1. UNCHANGED <<mode_req, torque, applied>> /\ ctl' = "sense" /\ ctl = "seal"
    BY <1>2 DEF CycleEnds, Seal, At
  <2>2. sample'.torque_on = torque
    BY <1>2 DEF CycleEnds, Seal
  <2>3. cut' = IF mode_req \notin Powered /\ cut < 2 THEN cut + 1 ELSE cut
    BY <1>2 DEF CycleEnds
  <2> QED
    BY <1>0, <2>1, <2>2, <2>3
<1>3. CASE Transition /\ UNCHANGED histVars
  <2>1. UNCHANGED <<cut, mode_req, sample>> /\ ctl = "transition" /\ ctl' = "move"
    BY <1>3 DEF Transition, At, histVars
  <2>2. CASE Refuse \/ Keep
    BY <2>1, <2>2 DEF Refuse, Keep
  <2>3. CASE Enable \/ Switch
    <3>1. req \in Powered /\ applied' = req
      BY <2>3 DEF Enable, Switch
    <3> QED
      BY <1>0, <2>1, <3>1
  <2>4. CASE Disable
    BY <2>1, <2>4 DEF Disable
  <2> QED
    BY <1>3, <2>2, <2>3, <2>4 DEF Transition
<1>4. CASE Move /\ UNCHANGED histVars
  BY <1>4 DEF Move, At, histVars
<1>5. CASE (Start \/ Leave) /\ UNCHANGED histVars
  <2>1. UNCHANGED <<cut, mode_req, sample, torque, applied>> /\ ctl' \in {"sense", "done"}
    BY <1>5 DEF Start, Leave, shmVars, histVars
  <2> QED
    BY <2>1
<1> QED
  BY <1>1, <1>2, <1>3, <1>4, <1>5 DEF ControlThread

LEMMA SupervisorCut ==
  ASSUME TypeOK, CutInv, SupervisorThread
  PROVE  CutInv'
<1> USE DEF CutInv, CutWithinTwoCycles
<1>1. UNCHANGED <<ctl, req, applied, torque>>
  BY DEF SupervisorThread, ctlVars
<1>2. UNCHANGED sample
  BY DEF SupervisorThread, Snapshot, Check, Tick, StoreMode, Raise, ForceMode, Beat,
         Return, GiveUp, shmVars
<1>3. CASE Snapshot
  BY <1>1, <1>2, <1>3 DEF Snapshot, Check
<1>4. CASE CountCut
  BY <1>1, <1>2, <1>4 DEF CountCut
<1> QED
  BY <1>3, <1>4 DEF SupervisorThread

(* CutInv is an invariant of the daemon.                                   *)
THEOREM CutInvariant == Spec => []CutInv
<1>1. ASSUME TypeOK, CutInv, [Next]_vars
      PROVE  CutInv'
  <2>1. CASE ControlThread
    BY <1>1, <2>1, ControlCut
  <2>2. CASE SupervisorThread
    BY <1>1, <2>2, SupervisorCut
  <2>3. CASE Client \/ Signal \/ World \/ UNCHANGED vars
    <3>1. UNCHANGED <<cut, mode_req, sample, ctl, req, applied, torque>>
      BY <2>3 DEF Client, Serve, Signal, World, Cable, Hang,
                  shmVars, ctlVars, histVars, vars
    <3> QED
      BY <1>1, <3>1 DEF CutInv, CutWithinTwoCycles
  <2> QED
    BY <1>1, <2>1, <2>2, <2>3 DEF Next, Terminated
<1> QED
  BY <1>1, InitCut, TypeCorrect, PTL DEF Spec

(* Whatever the arms, the cables and the clients do, the second cycle that *)
(* ends after the supervisor asked for IDLE or ESTOP, and every later one, *)
(* ends with the torque flag down and publishes it (control.c:157-219).    *)
THEOREM TorqueCutInTime == Spec => []CutWithinTwoCycles
<1>1. CutInv => CutWithinTwoCycles
  BY DEF CutInv
<1> QED
  BY <1>1, CutInvariant, PTL

-----------------------------------------------------------------------------
(* On the servos.                                                          *)

(* A descriptor that works belongs to a cable that is in.                  *)
LimpInv ==
  /\ \A a \in Arms : fd[a] = "open" => plugged[a]
  /\ LimpUnlessLost

(* Through a working descriptor every frame arrives on a clean wire.       *)
LEMMA CleanWire ==
  ASSUME NEW a \in Arms, a \notin Noisy, NEW f, f[a] = "open" => plugged[a],
         NEW heard \in Arrives(a, f)
  PROVE  f[a] = "open" => heard
BY DEF Arrives

(* What Sense does to the ports.                                           *)
LEMMA SensePorts ==
  ASSUME Sense
  PROVE  \E lok, fok, port :
         /\ port = [a \in Arms |->
                      IF ~Reopens(a, [b \in Arms |-> IF b = "leader" THEN lok
                                                     ELSE fok][a]) THEN fd[a]
                      ELSE IF plugged[a] THEN "open" ELSE "dead"]
         /\ fd' = port
         /\ IF Reopens("follower", fok)
              THEN /\ torque' = FALSE
                   /\ \E heard \in Arrives("follower", port) :
                        servo_torque' = ReopenTorque(heard)
              ELSE UNCHANGED <<torque, servo_torque>>
BY DEF Sense

LEMMA ControlLimp ==
  ASSUME "follower" \notin Noisy, TypeOK, LimpInv, ControlThread
  PROVE  LimpInv'
<1> USE DEF LimpInv, LimpUnlessLost
<1>0. "follower" \in Arms /\ "leader" \in Arms
  BY DEF Arms
<1>1. CASE CycleStarts
  <2> PICK lok, fok, port :
         /\ port = [a \in Arms |->
                      IF ~Reopens(a, [b \in Arms |-> IF b = "leader" THEN lok
                                                     ELSE fok][a]) THEN fd[a]
                      ELSE IF plugged[a] THEN "open" ELSE "dead"]
         /\ fd' = port
         /\ IF Reopens("follower", fok)
              THEN /\ torque' = FALSE
                   /\ \E heard \in Arrives("follower", port) :
                        servo_torque' = ReopenTorque(heard)
              ELSE UNCHANGED <<torque, servo_torque>>
    BY <1>1, SensePorts DEF CycleStarts
  <2>1. ctl = "sense" /\ ctl' = "transition" /\ UNCHANGED plugged
    BY <1>1 DEF CycleStarts, Sense, At
  <2>2. \A a \in Arms : fd'[a] = "open" => plugged[a]
    OBVIOUS
  <2>3. CASE Reopens("follower", fok)
    <3> PICK heard \in Arrives("follower", port) : servo_torque' = ReopenTorque(heard)
      BY <2>3
    <3>1. port["follower"] = "open" => heard
      BY <1>0, <2>2, CleanWire
    <3> QED
      BY <2>1, <2>2, <3>1 DEF ReopenTorque, set_torque
  <2>4. CASE ~Reopens("follower", fok)
    <3>1. fd'["follower"] = fd["follower"]
      BY <1>0, <2>4
    <3> QED
      BY <2>1, <2>2, <2>4, <3>1
  <2> QED
    BY <2>3, <2>4
<1>2. CASE CycleEnds
  BY <1>2 DEF CycleEnds, Seal, At, busVars
<1>3. CASE Transition
  <2>1. UNCHANGED <<plugged, fd>> /\ ctl = "transition" /\ ctl' = "move"
    BY <1>3 DEF Transition, At, busVars
  <2>2. CASE Refuse \/ Keep \/ Switch
    BY <2>1, <2>2 DEF Refuse, Keep, Switch
  <2>3. CASE Enable
    BY <2>1, <2>3 DEF Enable
  <2>4. CASE Disable /\ torque
    <3> PICK heard \in Arrives("follower", fd) : servo_torque' = set_torque(FALSE, heard)
      BY <2>4 DEF Disable
    <3>1. fd["follower"] = "open" => heard
      BY <1>0, CleanWire
    <3> QED
      BY <2>1, <3>1 DEF set_torque
  <2>5. CASE Disable /\ ~torque
    BY <2>1, <2>5 DEF Disable
  <2> QED
    BY <1>3, <2>2, <2>3, <2>4, <2>5 DEF Transition
<1>4. CASE Move
  BY <1>4 DEF Move, At, busVars
<1>5. CASE Start \/ Leave
  <2>1. UNCHANGED <<plugged, fd>>
    BY <1>5 DEF Start, Leave, busVars
  <2> PICK heard \in Arrives("follower", fd) : servo_torque' = set_torque(FALSE, heard)
    BY <1>5 DEF Start, Leave
  <2>2. fd["follower"] = "open" => heard
    BY <1>0, CleanWire
  <2> QED
    BY <2>1, <2>2 DEF set_torque
<1> QED
  BY <1>1, <1>2, <1>3, <1>4, <1>5 DEF ControlThread

(* On a wire that loses no frame, an arm the control thread takes for limp *)
(* is limp whenever its descriptor works: after the start-up, after a      *)
(* reconnection and after the shutdown (control.c:95, 151-155, 181-187,    *)
(* 242-244).                                                               *)
THEOREM LimpOnCleanWire ==
  ASSUME "follower" \notin Noisy
  PROVE  Spec => []LimpUnlessLost
<1>1. Init => LimpInv
  BY DEF Init, CtlInit, LimpInv, LimpUnlessLost
<1>2. ASSUME TypeOK, LimpInv, [Next]_vars
      PROVE  LimpInv'
  <2>1. CASE ControlThread
    BY <1>2, <2>1, ControlLimp
  <2>2. CASE SupervisorThread \/ Client \/ Signal \/ Hang \/ UNCHANGED vars
    <3>1. UNCHANGED <<ctl, torque, servo_torque, plugged, fd>>
      BY <2>2 DEF SupervisorThread, Client, Signal, Hang, ctlVars, busVars, vars
    <3> QED
      BY <1>2, <3>1 DEF LimpInv, LimpUnlessLost
  <2>3. CASE Cable
    <3>1. PICK a \in Arms : Unplug(a) \/ Plug(a)
      BY <2>3 DEF Cable
    <3>2. UNCHANGED <<ctl, torque, servo_torque>>
      BY <2>3 DEF Cable
    <3>3. \A b \in Arms : /\ fd'[b] = "open" => fd[b] = "open"
                          /\ fd'[b] = "open" /\ plugged[b] => plugged'[b]
      BY <1>2, <3>1 DEF Unplug, Plug, TypeOK, CtlTypeOK
    <3> QED
      BY <1>2, <3>2, <3>3 DEF LimpInv, LimpUnlessLost, Arms
  <2> QED
    BY <1>2, <2>1, <2>2, <2>3 DEF Next, World, Terminated
<1>3. LimpInv => LimpUnlessLost
  BY DEF LimpInv
<1> QED
  BY <1>1, <1>2, <1>3, TypeCorrect, PTL DEF Spec

-----------------------------------------------------------------------------
(* The torque flag and the mode.                                           *)
(*                                                                         *)
(* Only the reopening of the follower's port takes the flag down without   *)
(* the mode.  That it never does so in a powered mode is a race between    *)
(* the streak, which grows by one in a cycle, and the supervisor, which    *)
(* must see it reach comm_streak, force IDLE and be heard by the control   *)
(* thread before it reaches REOPEN_AFTER.  StreakInv follows the streak    *)
(* along that chain: the last snapshot, the mode asked for, the request    *)
(* loaded, the mode in force.  Each link costs at most MaxLag cycles.      *)

Streak == streak["follower"]

StreakInv ==
  /\ Streak =< sample.follower_streak + 1
  /\ ctl \in {"start", "sense"} => Streak =< sample.follower_streak
  /\ "FOLLOWER_COMM" \notin shown => Streak =< comm_streak + lag
  /\ mode_req \in Powered => Streak =< comm_streak + MaxLag + lag
  /\ ctl = "transition" /\ req \in Powered => Streak =< comm_streak + 2 * MaxLag
  /\ applied \in Powered /\ ctl = "transition" => Streak =< comm_streak + 2 * MaxLag + 1
  /\ applied \in Powered /\ ctl # "transition" => Streak =< comm_streak + 2 * MaxLag

FlagInv ==
  /\ PoweredMeansTorque
  /\ hung \/ StreakInv

LEMMA StreakType ==
  ASSUME TypeOK
  PROVE  /\ Streak \in Nat /\ sample.follower_streak \in Nat
         /\ lag \in 0 .. MaxLag
         /\ MaxLag \in Nat \ {0} /\ comm_streak \in Nat \ {0} /\ REOPEN_AFTER \in Nat
BY ControlAssumption, SupervisorAssumption, DaemonAssumption
   DEF TypeOK, CtlTypeOK, ShmTypeOK, HistTypeOK, Samples, Arms, Streak

(* A cycle makes the streak longer by at most one, and reopens the port    *)
(* only of a bus whose streak has become REOPEN_AFTER.                     *)
LEMMA SenseStreak ==
  ASSUME TypeOK, Sense
  PROVE  /\ Streak' \in Nat /\ Streak' =< Streak + 1
         /\ torque' = torque \/ (torque' = FALSE /\ Streak' >= REOPEN_AFTER)
<1> PICK fok \in BOOLEAN, ok \in [Arms -> BOOLEAN] :
         /\ ok["follower"] = fok
         /\ streak' = [a \in Arms |-> NextStreak(a, ok[a])]
         /\ IF Reopens("follower", fok) THEN torque' = FALSE
                                        ELSE UNCHANGED <<torque, servo_torque>>
  <2> PICK lok \in Arrives("leader", fd), fok \in Arrives("follower", fd) :
         LET ok == [a \in Arms |-> IF a = "leader" THEN lok ELSE fok]
         IN  /\ streak' = [a \in Arms |-> NextStreak(a, ok[a])]
             /\ IF Reopens("follower", fok) THEN torque' = FALSE
                                            ELSE UNCHANGED <<torque, servo_torque>>
    BY DEF Sense
  <2>1. lok \in BOOLEAN /\ fok \in BOOLEAN
    BY ArrivesType
  <2> DEFINE ok == [a \in Arms |-> IF a = "leader" THEN lok ELSE fok]
  <2>2. ok \in [Arms -> BOOLEAN] /\ ok["follower"] = fok
    BY <2>1 DEF Arms
  <2> QED
    BY <2>1, <2>2
<1>1. Streak' = NextStreak("follower", fok)
  BY DEF Streak, Arms
<1>2. Streak \in Nat
  BY StreakType
<1>3. Streak' \in Nat /\ Streak' =< Streak + 1
  BY <1>1, <1>2, ControlAssumption DEF NextStreak, Streak
<1>4. Reopens("follower", fok) => Streak' >= REOPEN_AFTER
  BY <1>1 DEF Reopens
<1> QED
  BY <1>3, <1>4

LEMMA ControlFlag ==
  ASSUME comm_streak + 2 * MaxLag + 1 < REOPEN_AFTER,
         TypeOK, FlagInv, ControlThread, ~hung
  PROVE  PoweredMeansTorque' /\ StreakInv'
<1> USE DEF FlagInv, StreakInv, PoweredMeansTorque
<1>0. /\ Streak \in Nat /\ sample.follower_streak \in Nat /\ lag \in 0 .. MaxLag
      /\ MaxLag \in Nat \ {0} /\ comm_streak \in Nat \ {0} /\ REOPEN_AFTER \in Nat
  BY StreakType
<1>1. CASE CycleStarts
  <2>1. /\ UNCHANGED <<shown, mode_req, applied, sample>> /\ lag' = lag + 1 /\ lag < MaxLag
        /\ ctl = "sense" /\ ctl' = "transition"
    BY <1>1 DEF CycleStarts, Sense, At, shmVars
  <2>2. req' = mode_req
    BY <1>1 DEF CycleStarts, Sense, Clamped, TypeOK, ShmTypeOK
  <2>3. /\ Streak' \in Nat /\ Streak' =< Streak + 1
        /\ torque' = torque \/ (torque' = FALSE /\ Streak' >= REOPEN_AFTER)
    BY <1>1, SenseStreak DEF CycleStarts
  <2>4. applied \in Powered => Streak' =< comm_streak + 2 * MaxLag + 1
    BY <1>0, <2>1, <2>3
  <2>5. StreakInv'
    BY <1>0, <2>1, <2>2, <2>3, <2>4
  <2>6. PoweredMeansTorque'
    <3>1. CASE torque' = torque
      BY <2>1, <3>1
    <3>2. CASE torque' = FALSE /\ Streak' >= REOPEN_AFTER
      <4>1. applied \notin Powered
        BY <1>0, <2>3, <2>4, <3>2
      <4> QED
        BY <2>1, <3>2, <4>1
    <3> QED
      BY <2>3, <3>1, <3>2
  <2> QED
    BY <2>5, <2>6
<1>2. CASE CycleEnds
  <2>1. /\ UNCHANGED <<shown, mode_req, applied, torque, streak, lag>>
        /\ sample'.follower_streak = streak["follower"]
        /\ ctl = "seal" /\ ctl' = "sense"
    BY <1>2 DEF CycleEnds, Seal, At
  <2> QED
    BY <1>0, <2>1 DEF Streak
<1>3. CASE Transition /\ UNCHANGED histVars
  <2>1. /\ UNCHANGED <<shown, mode_req, sample, streak, lag>>
        /\ ctl = "transition" /\ ctl' = "move"
    BY <1>3 DEF Transition, At, histVars
  <2>2. applied' \in Powered => req \in Powered
    BY <1>3 DEF Transition, Refuse, Enable, Switch, Disable, Keep
  <2>3. PoweredMeansTorque'
    <3>1. CASE Refuse \/ Keep
      BY <3>1 DEF Refuse, Keep
    <3>2. CASE Enable \/ Switch
      BY <3>2 DEF Enable, Switch
    <3>3. CASE Disable
      BY <3>3 DEF Disable
    <3> QED
      BY <1>3, <3>1, <3>2, <3>3 DEF Transition
  <2> QED
    BY <1>0, <2>1, <2>2, <2>3 DEF Streak
<1>4. CASE (Start \/ Move \/ Leave) /\ UNCHANGED histVars
  <2>1. /\ UNCHANGED <<shown, mode_req, applied, torque, streak, lag, sample>>
        /\ ctl' \in {"sense", "seal", "done"} /\ ctl # "transition"
        /\ ctl' = "sense" => ctl = "start"
    BY <1>4 DEF Start, Move, Leave, At, histVars, shmVars
  <2> QED
    BY <1>0, <2>1 DEF Streak
<1> QED
  BY <1>1, <1>2, <1>3, <1>4 DEF ControlThread

(* The supervisor takes the mode down before it reads the next snapshot.   *)
LEMMA SupervisorFlag ==
  ASSUME TypeOK, TypeOK', ShownInv, StreakInv, ~hung, SupervisorThread
  PROVE  StreakInv'
<1>0. /\ Streak \in Nat /\ sample.follower_streak \in Nat /\ lag \in 0 .. MaxLag
      /\ MaxLag \in Nat \ {0} /\ comm_streak \in Nat \ {0} /\ REOPEN_AFTER \in Nat
  BY StreakType
<1>1. UNCHANGED <<ctl, req, applied, streak>>
  BY DEF SupervisorThread, ctlVars
<1>2. UNCHANGED sample
  BY DEF SupervisorThread, Snapshot, Check, Tick, StoreMode, Raise, ForceMode, Beat,
         Return, GiveUp, shmVars
<1>3. CASE Snapshot
  <2>1. lag' = 0 /\ sup = "check" /\ UNCHANGED mode_req
    BY <1>3 DEF Snapshot, Check
  <2>2. "FOLLOWER_COMM" \notin shown' => sample.follower_streak < comm_streak
    BY <1>0, <1>3 DEF Snapshot
  <2>3. mode_req \in Powered => Streak =< comm_streak + MaxLag
    BY <1>0, <2>1 DEF ShownInv, StreakInv
  <2> QED
    BY <1>0, <1>1, <1>2, <2>1, <2>2, <2>3 DEF StreakInv, Streak
<1>4. CASE UNCHANGED <<lag, shown>>
  <2>1. CASE mode_req' \in Powered => mode_req \in Powered
    BY <1>0, <1>1, <1>2, <1>4, <2>1 DEF StreakInv, Streak
  <2>2. CASE mode_req' \in Powered /\ mode_req \notin Powered
    <3>1. CASE StoreMode
      <4>1. "FOLLOWER_COMM" \notin shown
        BY <2>2, <3>1 DEF StoreMode, ShownInv
      <4> QED
        BY <1>0, <1>1, <1>2, <1>4, <4>1 DEF StreakInv, Streak
    <3>2. CASE ~StoreMode
      <4>1. mode_req' = mode_req \/ ForceMode
        BY <3>2 DEF SupervisorThread, Snapshot, Check, Tick, Raise, Beat, Return, GiveUp,
                    shmVars
      <4>2. ForceMode => (mode_req' \in Powered => mode_req \in Powered)
        BY DEF ForceMode, Safe, Lower, Powered
      <4> QED
        BY <2>2, <4>1, <4>2
    <3> QED
      BY <3>1, <3>2
  <2> QED
    BY <2>1, <2>2
<1> QED
  BY <1>3, <1>4 DEF SupervisorThread

(* The thread never sits in a powered mode with its flag down, nor with    *)
(* the flag up in another: as long as no reader of the snapshot starves,   *)
(* and the streak at which a port is reopened leaves the supervisor two    *)
(* of its periods and a cycle, the follower is reopened only after IDLE    *)
(* has been forced (control.c:135-155 and supervisor.c's comm_streak).     *)
THEOREM FlagFollowsMode ==
  ASSUME ~Preemptible, comm_streak + 2 * MaxLag + 1 < REOPEN_AFTER
  PROVE  Spec => []PoweredMeansTorque
<1>1. Init => FlagInv
  <2> SUFFICES ASSUME Init PROVE FlagInv
    OBVIOUS
  <2>1. Streak = 0 /\ lag = 0 /\ sample.follower_streak = 0
    BY DEF Init, ShmInit, CtlInit, EmptySample, Streak, Arms
  <2>2. applied = "IDLE" /\ ~torque
    BY DEF Init, CtlInit
  <2> QED
    BY <2>1, <2>2, SupervisorAssumption, DaemonAssumption
       DEF FlagInv, StreakInv, PoweredMeansTorque, Powered
<1>2. ASSUME TypeOK, TypeOK', ShownInv, FlagInv, [Next]_vars
      PROVE  FlagInv'
  <2>1. CASE ControlThread
    <3>1. ~hung
      BY <2>1 DEF ControlThread, CycleStarts, CycleEnds, Start, Transition, Move, Leave,
                  Sense, Seal, At
    <3> QED
      BY <1>2, <2>1, <3>1, ControlFlag DEF FlagInv
  <2>2. CASE SupervisorThread
    <3>1. UNCHANGED <<applied, torque, hung>>
      BY <2>2 DEF SupervisorThread, ctlVars
    <3> QED
      BY <1>2, <2>2, <3>1, SupervisorFlag DEF FlagInv, PoweredMeansTorque
  <2>3. CASE Client \/ Signal \/ World \/ UNCHANGED vars
    <3>1. UNCHANGED <<lag, shown, mode_req, sample, ctl, req, applied, torque, streak>>
      BY <2>3 DEF Client, Serve, Signal, World, Cable, Hang,
                  shmVars, ctlVars, histVars, vars
    <3>2. hung => hung'
      BY <2>3 DEF Client, Signal, World, Cable, Hang, ctlVars, vars
    <3>3. PoweredMeansTorque'
      BY <1>2, <3>1 DEF FlagInv, PoweredMeansTorque
    <3>4. StreakInv => StreakInv'
      BY <3>1 DEF StreakInv, Streak
    <3> QED
      BY <1>2, <3>2, <3>3, <3>4 DEF FlagInv
  <2> QED
    BY <1>2, <2>1, <2>2, <2>3 DEF Next, Terminated
<1>3. FlagInv => PoweredMeansTorque
  BY DEF FlagInv
<1> QED
  BY <1>1, <1>2, <1>3, TypeCorrect, ShownInvariant, PTL DEF Spec

=============================================================================

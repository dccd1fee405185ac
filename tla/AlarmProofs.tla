---------------------------- MODULE AlarmProofs ----------------------------
(***************************************************************************)
(* An alarm becomes a fault only after it has lasted, but for one tick for *)
(* each command, whatever the control thread publishes, whatever the       *)
(* clients ask for and whatever the number of ticks it takes.              *)
(*                                                                         *)
(* The supervisor counts turns (ticks), the property is about time         *)
(* (elapsed) and commands (cuts): CountInv says that the count never gets  *)
(* ahead of their sum, and is behind it between the wait and the look at   *)
(* the snapshot.                                                           *)
(***************************************************************************)
EXTENDS Alarm, TLAPS

AlarmTypeOK ==
  /\ sup \in {"wait", "store", "check", "raise", "force"}
  /\ ticks \in [Alarms -> 0 .. PERSIST_TICKS]
  /\ elapsed \in [Alarms -> Nat]
  /\ cuts \in [Alarms -> Nat]

(* The turns the alarm has lasted, those of no time included.              *)
Age(a) == elapsed[a] + cuts[a]

Lasted(a) == Age(a) >= PERSIST_TICKS

CountInv ==
  \A a \in Alarms :
    \/ Lasted(a)
    \/ ticks[a] = 0
    \/ ticks[a] < Age(a)
    \/ ticks[a] = Age(a) /\ sup \notin {"store", "check"}

(* Before the first sample with the alarm nothing is counted.              *)
FreshInv == \A a \in Alarms : elapsed[a] = 0 => ticks[a] = 0 /\ cuts[a] = 0

(* The alarms among the faults to be raised have lasted.                   *)
TodoInv == \A a \in Alarms : FaultOf(a) \in todo => Lasted(a)

AlarmInv == AlarmTypeOK /\ CountInv /\ FreshInv /\ TodoInv

AlarmNext == Publication \/ Turn

LEMMA WakeUpInv ==
  ASSUME AlarmInv, WakeUp
  PROVE  AlarmInv'
<1>1. PICK dt \in 0 .. 1 : Later(dt)
  BY DEF WakeUp
<1>2. sup = "wait" /\ sup' \in {"store", "check"} /\ ticks' = ticks /\ todo' = todo
  BY DEF WakeUp, Tick, Serve
<1>3. \A a \in Alarms :
        elapsed[a] \in Nat /\ cuts[a] \in Nat /\ ticks[a] \in 0 .. PERSIST_TICKS
  BY DEF AlarmInv, AlarmTypeOK
<1>4. \A a \in Alarms :
        /\ elapsed'[a] = IF elapsed[a] \in 1 .. PERSIST_TICKS THEN elapsed[a] + dt
                                                              ELSE elapsed[a]
        /\ cuts'[a] = IF elapsed[a] > 0 /\ elapsed[a] + cuts[a] < PERSIST_TICKS
                        THEN cuts[a] + (1 - dt) ELSE cuts[a]
  BY <1>1 DEF Later
<1>5. \A a \in Alarms : elapsed'[a] \in Nat /\ cuts'[a] \in Nat
  BY <1>3, <1>4
<1>6. AlarmTypeOK'
  <2>1. elapsed' \in [Alarms -> Nat] /\ cuts' \in [Alarms -> Nat]
    BY <1>1, <1>5 DEF Later
  <2> QED
    BY <1>2, <2>1 DEF AlarmInv, AlarmTypeOK
<1>7. \A a \in Alarms : elapsed[a] = 0 => elapsed'[a] = 0 /\ cuts'[a] = cuts[a]
  BY <1>4
<1>8. \A a \in Alarms : elapsed'[a] = 0 => elapsed[a] = 0
  BY <1>3, <1>4
<1>9. \A a \in Alarms : Lasted(a) => Lasted(a)'
  BY <1>3, <1>4, SupervisorAssumption DEF Lasted, Age
<1>10. CountInv'
  <2> SUFFICES ASSUME NEW a \in Alarms, ~Lasted(a)', ticks[a] # 0
               PROVE  ticks[a] < elapsed'[a] + cuts'[a]
    BY <1>2 DEF CountInv, Age
  <2>1. ~Lasted(a) /\ ticks[a] =< Age(a)
    BY <1>2, <1>3, <1>9 DEF AlarmInv, CountInv, Age
  <2>2. elapsed[a] \in 1 .. PERSIST_TICKS /\ elapsed[a] + cuts[a] < PERSIST_TICKS
    BY <1>3, <2>1, SupervisorAssumption DEF AlarmInv, FreshInv, Lasted, Age
  <2> QED
    BY <1>3, <1>4, <2>1, <2>2 DEF Age
<1>11. FreshInv'
  BY <1>2, <1>7, <1>8 DEF AlarmInv, FreshInv
<1>12. TodoInv'
  BY <1>2, <1>9 DEF AlarmInv, TodoInv
<1> QED
  BY <1>6, <1>10, <1>11, <1>12 DEF AlarmInv

LEMMA LookInv ==
  ASSUME AlarmInv, LookAtSample
  PROVE  AlarmInv'
<1>1. sup = "check" /\ sup' = "raise" /\ ticks' = NextTicks
  BY DEF LookAtSample, Check
<1>2. \A a \in Alarms :
        elapsed[a] \in Nat /\ cuts[a] \in Nat /\ ticks[a] \in 0 .. PERSIST_TICKS
  BY DEF AlarmInv, AlarmTypeOK
<1>3. \A a \in Alarms :
        /\ elapsed'[a] = IF ~sample.follower_ok \/ (a \in sample.alarm /\ elapsed[a] > 0)
                           THEN elapsed[a]
                           ELSE IF a \in sample.alarm THEN 1 ELSE 0
        /\ cuts'[a] = IF ~sample.follower_ok \/ a \in sample.alarm THEN cuts[a] ELSE 0
  BY DEF LookAtSample
<1>4. \A a \in Alarms :
        ticks'[a] = IF ~sample.follower_ok THEN ticks[a]
                    ELSE IF a \notin sample.alarm THEN 0
                    ELSE IF ticks[a] < PERSIST_TICKS THEN ticks[a] + 1
                    ELSE ticks[a]
  BY <1>1 DEF NextTicks
<1>5. AlarmTypeOK'
  <2>1. elapsed' \in [Alarms -> Nat] /\ cuts' \in [Alarms -> Nat]
    BY <1>2 DEF LookAtSample
  <2>2. ticks' \in [Alarms -> 0 .. PERSIST_TICKS]
    BY <1>1, <1>2, SupervisorAssumption DEF NextTicks
  <2> QED
    BY <1>1, <2>1, <2>2 DEF AlarmTypeOK
<1>6. CountInv'
  <2> SUFFICES ASSUME NEW a \in Alarms, ~Lasted(a)', ticks'[a] # 0
               PROVE  ticks'[a] =< elapsed'[a] + cuts'[a]
    BY <1>1, <1>2, <1>3, <1>5 DEF CountInv, AlarmTypeOK, Age
  <2>1. ~sample.follower_ok \/ a \in sample.alarm
    BY <1>4
  <2>2. elapsed'[a] >= elapsed[a] /\ cuts'[a] = cuts[a] /\ elapsed'[a] \in Nat
    BY <1>2, <1>3, <2>1
  <2>3. ~Lasted(a)
    BY <1>2, <2>2, SupervisorAssumption DEF Lasted, Age
  <2>4. ticks[a] = 0 \/ ticks[a] < elapsed[a] + cuts[a]
    BY <1>1, <2>3 DEF AlarmInv, CountInv, Age
  <2>5. ticks'[a] =< ticks[a] + 1 /\ (~sample.follower_ok => ticks'[a] = ticks[a])
    BY <1>2, <1>4
  <2>6. sample.follower_ok => elapsed'[a] > 0
    BY <1>2, <1>3, <2>1
  <2> QED
    BY <1>2, <1>5, <2>2, <2>4, <2>5, <2>6 DEF AlarmTypeOK
<1>7. FreshInv'
  BY <1>2, <1>3, <1>4 DEF AlarmInv, FreshInv
<1>8. TodoInv'
  <2> SUFFICES ASSUME NEW a \in Alarms, FaultOf(a) \in todo'
               PROVE  Lasted(a)'
    BY DEF TodoInv
  <2>1. FaultOf(a) \in Shown
    BY DEF LookAtSample, Check, FaultOf
  <2>2. Persists(a)
    BY <2>1 DEF Shown, FaultOf, Alarms
  <2>3. ticks'[a] >= PERSIST_TICKS
    BY <1>1, <2>2 DEF Persists
  <2>4. ticks'[a] \in Nat /\ elapsed'[a] \in Nat /\ cuts'[a] \in Nat
    BY <1>5 DEF AlarmTypeOK
  <2> QED
    BY <1>6, <2>3, <2>4, SupervisorAssumption DEF CountInv, Lasted, Age
<1> QED
  BY <1>5, <1>6, <1>7, <1>8 DEF AlarmInv

LEMMA AlarmStep ==
  ASSUME AlarmInv, [AlarmNext]_alarmVars
  PROVE  AlarmInv'
<1>1. CASE UNCHANGED <<ticks, elapsed, cuts, sup>> /\ todo' \subseteq todo
  BY <1>1 DEF AlarmInv, AlarmTypeOK, CountInv, FreshInv, TodoInv, Lasted, Age
<1>2. CASE Publication \/ UNCHANGED alarmVars
  BY <1>1, <1>2 DEF Publication, alarmVars, alarmHist, supVars
<1>3. CASE (StoreMode \/ Raise \/ ForceMode \/ Beat) /\ UNCHANGED alarmHist
  <2>1. UNCHANGED <<ticks, elapsed, cuts>> /\ todo' \subseteq todo
    BY <1>3 DEF StoreMode, Raise, ForceMode, Beat, alarmHist
  <2>2. \/ sup = "store" /\ sup' = "check"
        \/ sup \notin {"store", "check"} /\ sup' \in {"wait", "raise", "force"}
    BY <1>3 DEF StoreMode, Raise, ForceMode, Beat
  <2> QED
    BY <2>1, <2>2 DEF AlarmInv, AlarmTypeOK, CountInv, FreshInv, TodoInv, Lasted, Age
<1> QED
  BY <1>2, <1>3, WakeUpInv, LookInv DEF AlarmNext, Turn

(* An alarm of the follower's registers has been in every answer for       *)
(* PERSIST_TICKS - 1 ticks when supervisor_thread makes a fault of it,     *)
(* less at most one for each turn that a command has cut short.            *)
THEOREM AlarmAlwaysPersists == AlarmSpec => AlarmPersists
<1> DEFINE A == \A a \in Alarms : Becomes(a) => elapsed[a] + cuts[a] >= PERSIST_TICKS
<1>1. AlarmInit => AlarmInv
  BY SupervisorAssumption
  DEF AlarmInit, SupInit, AlarmInv, AlarmTypeOK, CountInv, FreshInv, TodoInv
<1>2. AlarmInv /\ [AlarmNext]_alarmVars => AlarmInv'
  BY AlarmStep
<1>3. AlarmInv /\ [AlarmNext]_alarmVars => [A]_alarmVars
  <2> SUFFICES ASSUME AlarmInv, AlarmNext, NEW a \in Alarms,
                      FaultOf(a) \in faults' \ faults
               PROVE  Lasted(a)
    BY DEF Lasted, Age, Becomes
  <2>1. FaultOf(a) # "ESTOP"
    BY DEF FaultOf
  <2>2. CASE Raise
    BY <2>2 DEF Raise, AlarmInv, TodoInv
  <2>3. CASE ~Raise
    BY <2>1, <2>3 DEF AlarmNext, Publication, Turn, WakeUp, LookAtSample, Tick, Serve,
       Check, StoreMode, ForceMode, Beat, shmVars
  <2> QED
    BY <2>2, <2>3
<1> QED
  BY <1>1, <1>2, <1>3, PTL DEF AlarmSpec, AlarmPersists, AlarmNext

=============================================================================

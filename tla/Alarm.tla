------------------------------- MODULE Alarm -------------------------------
(***************************************************************************)
(* The supervisor under any control thread at all: when does it make a     *)
(* fault of the alarms it reads?  The control thread publishes whatever    *)
(* the registers of the follower can show, at any time, with buses that    *)
(* may miss an answer now and then but do not fail.                        *)
(***************************************************************************)
EXTENDS Supervisor

(* history: for each alarm 0 if the last answer of the follower was free   *)
(* of it, else 1 plus the ticks since it has been in every answer, and how *)
(* many turns since were cut short by a command, each as far as it matters *)
VARIABLES elapsed, cuts

alarmHist == <<elapsed, cuts>>
alarmVars == <<shmVars, supVars, alarmHist>>

Samples ==
  [mode : {"TELEOP"}, torque_on : {TRUE}, follower_ok : BOOLEAN,
   leader_streak : {0}, follower_streak : {0}, alarm : SUBSET Alarms]

AlarmInit ==
  /\ SupInit
  /\ mode_req = "TELEOP"
  /\ faults = {}
  /\ sample \in Samples
  /\ writing = FALSE
  /\ unseen = {}
  /\ sup_beat = FALSE
  /\ run = TRUE
  /\ elapsed = [a \in Alarms |-> 0]
  /\ cuts = [a \in Alarms |-> 0]

Publication ==
  /\ sample' \in Samples
  /\ unseen' = Readers
  /\ UNCHANGED <<mode_req, faults, writing, sup_beat, run, supVars, alarmHist>>

(* A turn later, dt ticks: an alarm that is there has lasted longer.       *)
Later(dt) ==
  /\ elapsed' = [a \in Alarms |-> IF elapsed[a] \in 1 .. PERSIST_TICKS
                                   THEN elapsed[a] + dt ELSE elapsed[a]]
  /\ cuts' = [a \in Alarms |-> IF /\ elapsed[a] > 0
                                   /\ elapsed[a] + cuts[a] < PERSIST_TICKS
                                THEN cuts[a] + (1 - dt) ELSE cuts[a]]

WakeUp ==
  \/ Tick /\ Later(1)
  \/ \E c \in Requests, dt \in 0 .. 1 : Serve(c) /\ Passing(dt) /\ Later(dt)

LookAtSample ==
  /\ Check
  /\ elapsed' = [a \in Alarms |->
                   IF ~sample.follower_ok \/ (a \in sample.alarm /\ elapsed[a] > 0)
                     THEN elapsed[a]
                     ELSE IF a \in sample.alarm THEN 1 ELSE 0]
  /\ cuts' = [a \in Alarms |-> IF ~sample.follower_ok \/ a \in sample.alarm
                                THEN cuts[a] ELSE 0]

Turn ==
  \/ WakeUp \/ LookAtSample
  \/ (StoreMode \/ Raise \/ ForceMode \/ Beat) /\ UNCHANGED alarmHist

AlarmSpec ==
  /\ AlarmInit /\ [][Publication \/ Turn]_alarmVars
  /\ WF_alarmVars(Turn)

-----------------------------------------------------------------------------
(* Properties.                                                             *)

FaultOf(a) == IF a = "temp" THEN "OVERTEMP" ELSE "VOLTAGE"

Becomes(a) == FaultOf(a) \in faults' \ faults

(* How long an alarm lasts before it becomes a fault: PERSIST_TICKS - 1    *)
(* supervision ticks pass from the first sample that shows it to the one   *)
(* that makes it a fault, and every command that ends a turn in the        *)
(* meantime takes at most one tick off, as supervisor_thread counts turns  *)
(* and not time.  This is what the code does: 80 ms, less with commands,   *)
(* where the comment at PERSIST_TICKS promises 100 ms.                     *)
AlarmPersists ==
  [][\A a \in Alarms : Becomes(a) => elapsed[a] + cuts[a] >= PERSIST_TICKS]_alarmVars

(* An alarm that stays becomes a fault and ends the power, however many    *)
(* samples without an answer of the follower the supervisor reads between  *)
(* those with one (the counts survive the samples without an answer).      *)
AlarmNoticed ==
  \A a \in Alarms :
    /\ <>[](sample.follower_ok => a \in sample.alarm)
    /\ []<><<LookAtSample /\ sample.follower_ok>>_alarmVars
    => <>(FaultOf(a) \in faults /\ mode_req \notin Powered)

=============================================================================

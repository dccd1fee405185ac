----------------------------- MODULE Supervisor -----------------------------
(***************************************************************************)
(* The supervisor thread of so101d (daemon/src/supervisor.c): it serves    *)
(* one client command per turn, checks the newest snapshot, latches faults *)
(* and forces the mode down.  The control thread runs all the while, so a  *)
(* turn is cut at every access to a shared word:                           *)
(*   Tick, Serve     wake up; a command changes `faults' first             *)
(*   StoreMode       and `mode_req' in a second store                      *)
(*   Check, GiveUp   copy the snapshot and decide what is wrong with it    *)
(*   Raise, ForceMode  one fault at a time: the bit, then the mode         *)
(*   Beat            the heartbeat main watches                            *)
(*                                                                         *)
(* How a command reaches the supervisor is the subject of module Mailbox.  *)
(* Time is counted in supervision ticks of SUP_TICK_MS: a turn that ends   *)
(* by timeout takes one, a turn cut short by a command none or one.        *)
(***************************************************************************)
EXTENDS SharedMem, Naturals

CONSTANTS
  comm_streak,    \* failed reads in a row that make a bus faulty, 10
  STALL_TICKS,    \* STALL_MS / SUP_TICK_MS, 10
  PERSIST_TICKS,  \* turns an alarm must persist, 5
  CanOverrun,     \* the control loop can miss many deadlines in a second
  Requests        \* the commands the clients send

ASSUME SupervisorAssumption ==
  /\ comm_streak \in Nat \ {0}
  /\ STALL_TICKS \in Nat
  /\ PERSIST_TICKS \in Nat \ {0}
  /\ CanOverrun \in BOOLEAN
  /\ Requests \subseteq Commands

VARIABLES
  sup,       \* where the thread is in its turn
  to_store,  \* the mode serve_command is about to store, or "none"
  todo,      \* the faults of this snapshot still to be raised
  raising,   \* the fault whose bit is set and whose mode is not forced yet
  quiet,     \* now - last_advance in ticks, up to STALL_TICKS + 1
  ticks      \* temp_ticks and volt_ticks, up to PERSIST_TICKS

supVars == <<sup, to_store, todo, raising, quiet, ticks>>

SupInit ==
  /\ sup = "wait"
  /\ to_store = "none"
  /\ todo = {}
  /\ raising = "none"
  /\ quiet = 0
  /\ ticks = [a \in Alarms |-> 0]

-----------------------------------------------------------------------------
(* The rules.                                                              *)

F_BLOCK_ALL    == {"FOLLOWER_COMM", "OVERTEMP", "VOLTAGE", "STALL", "ESTOP"}
F_BLOCK_TELEOP == F_BLOCK_ALL \cup {"LEADER_COMM"}

(* The answer of serve_command.                                            *)
Result(c) ==
  CASE c.cmd \in {"ESTOP", "RESET", "PING"} -> "OK"
    [] c.cmd = "SET_MODE" /\ c.arg = "IDLE" ->
         IF mode_req = "ESTOP" THEN "REFUSED" ELSE "OK"
    [] c.cmd = "SET_MODE" /\ c.arg = "TELEOP" ->
         IF faults \cap F_BLOCK_TELEOP # {} THEN "REFUSED" ELSE "OK"
    [] c.cmd = "SET_MODE" /\ c.arg = "HOLD" ->
         IF faults \cap F_BLOCK_ALL # {} THEN "REFUSED" ELSE "OK"
    [] OTHER -> "BAD_CMD"

(* [mutant of Safe] a stalled loop is taken for any other fault            *)
SafeNoEstop(f) == IF f = "LEADER_COMM" THEN "HOLD" ELSE "IDLE"

(* The mode a fault forces.                                                *)
Safe(f) == CASE f = "STALL"       -> "ESTOP"
             [] f = "LEADER_COMM" -> "HOLD"
             [] OTHER             -> "IDLE"

Forces(f) == f # "OVERRUN"

(* [mutants of Lower] TELEOP is not taken down to IDLE; ESTOP is taken     *)
(* "down" to IDLE                                                          *)
LowerSkipsTeleop(m, safe) ==
  \/ safe = "ESTOP"
  \/ safe = "IDLE" /\ m = "HOLD"
  \/ safe = "HOLD" /\ m = "TELEOP"
LowerFromEstop(m, safe) ==
  \/ safe \in {"ESTOP", "IDLE"}
  \/ safe = "HOLD" /\ m = "TELEOP"

(* Only ever go down: TELEOP, HOLD, IDLE, ESTOP.                           *)
Lower(m, safe) ==
  \/ safe = "ESTOP"
  \/ safe = "IDLE" /\ m # "ESTOP"
  \/ safe = "HOLD" /\ m = "TELEOP"

(* The order in which a turn raises its faults.                            *)
Rank == [f \in Faults |->
           CASE f = "STALL"         -> 1
             [] f = "LEADER_COMM"   -> 2
             [] f = "FOLLOWER_COMM" -> 3
             [] f = "OVERTEMP"      -> 4
             [] f = "VOLTAGE"       -> 5
             [] OTHER               -> 6]

-----------------------------------------------------------------------------
(* A turn.                                                                 *)

Passing(dt) == quiet' = IF quiet > STALL_TICKS THEN quiet ELSE quiet + dt

(* sem_timedwait timed out.                                                *)
Tick ==
  /\ sup = "wait" /\ run
  /\ sup' = "check"
  /\ Passing(1)
  /\ UNCHANGED <<to_store, todo, raising, ticks, shmVars>>

(* sem_timedwait returned a command: everything up to its last store.      *)
Serve(c) ==
  /\ sup = "wait" /\ run
  /\ \E dt \in 0 .. 1 : Passing(dt)
  /\ faults' = CASE c.cmd = "ESTOP" -> faults \cup {"ESTOP"}
                 [] c.cmd = "RESET" -> {}
                 [] OTHER           -> faults
  /\ IF Result(c) = "OK" /\ c.cmd # "PING"
       THEN /\ to_store' = CASE c.cmd = "ESTOP" -> "ESTOP"
                             [] c.cmd = "RESET" -> "IDLE"
                             [] OTHER           -> c.arg
            /\ sup' = "store"
       ELSE UNCHANGED to_store /\ sup' = "check"
  /\ UNCHANGED <<todo, raising, ticks,
                 mode_req, sample, writing, unseen, sup_beat, run>>

StoreMode ==
  /\ sup = "store"
  /\ mode_req' = to_store
  /\ to_store' = "none"
  /\ sup' = "check"
  /\ UNCHANGED <<todo, raising, quiet, ticks,
                 faults, sample, writing, unseen, sup_beat, run>>

(* so101_shm_read used up its tries on a publication in progress: the turn *)
(* ends here, without a check and without a heartbeat.                     *)
GiveUp ==
  /\ sup = "check" /\ writing
  /\ sup' = "wait"
  /\ UNCHANGED <<to_store, todo, raising, quiet, ticks, shmVars>>

(* [mutants of NextTicks] a good sample does not restart the count; a      *)
(* sample without an answer does                                           *)
NextTicksSticky ==
  [a \in Alarms |-> IF sample.follower_ok /\ a \in sample.alarm
                         /\ ticks[a] < PERSIST_TICKS
                      THEN ticks[a] + 1 ELSE ticks[a]]
NextTicksForgetful ==
  [a \in Alarms |-> IF ~sample.follower_ok \/ a \notin sample.alarm THEN 0
                    ELSE IF ticks[a] < PERSIST_TICKS THEN ticks[a] + 1
                    ELSE ticks[a]]

(* temp_ticks and volt_ticks after this snapshot; without an answer of the *)
(* follower they keep their value.                                         *)
NextTicks ==
  [a \in Alarms |-> IF ~sample.follower_ok THEN ticks[a]
                    ELSE IF a \notin sample.alarm THEN 0
                    ELSE IF ticks[a] < PERSIST_TICKS THEN ticks[a] + 1
                    ELSE ticks[a]]

Persists(a) == sample.follower_ok /\ NextTicks[a] >= PERSIST_TICKS

(* The snapshot is the one of the previous turn.                           *)
Seen == "supervisor" \notin unseen

(* [mutants of Silent] one failed read too many; only the read that makes  *)
(* the streak counts                                                       *)
SilentLate(n) == n > comm_streak
SilentOnce(n) == n = comm_streak

(* A bus with n failed reads in a row is silent.                           *)
Silent(n) == n >= comm_streak

(* The faults a snapshot shows.                                            *)
Shown ==
  {f \in Faults :
     \/ f = "STALL"         /\ Seen /\ quiet > STALL_TICKS
     \/ f = "LEADER_COMM"   /\ Silent(sample.leader_streak)
     \/ f = "FOLLOWER_COMM" /\ Silent(sample.follower_streak)
     \/ f = "OVERTEMP"      /\ Persists("temp")
     \/ f = "VOLTAGE"       /\ Persists("volt")}

Check ==
  /\ sup = "check" /\ ~writing
  /\ quiet' = IF Seen THEN quiet ELSE 0
  /\ unseen' = unseen \ {"supervisor"}
  /\ ticks' = NextTicks
  /\ \E late \in IF CanOverrun THEN {{}, {"OVERRUN"}} ELSE {{}} :
       todo' = Shown \cup late
  /\ sup' = "raise"
  /\ UNCHANGED <<to_store, raising,
                 mode_req, faults, sample, writing, sup_beat, run>>

Raise ==
  /\ sup = "raise"
  /\ \E f \in todo :
       /\ \A g \in todo : Rank[f] =< Rank[g]
       /\ faults' = faults \cup {f}
       /\ todo' = todo \ {f}
       /\ IF Forces(f) THEN raising' = f /\ sup' = "force"
                       ELSE UNCHANGED <<raising, sup>>
  /\ UNCHANGED <<to_store, quiet, ticks,
                 mode_req, sample, writing, unseen, sup_beat, run>>

ForceMode ==
  /\ sup = "force"
  /\ mode_req' = IF Lower(mode_req, Safe(raising)) THEN Safe(raising)
                                                   ELSE mode_req
  /\ raising' = "none"
  /\ sup' = "raise"
  /\ UNCHANGED <<to_store, todo, quiet, ticks,
                 faults, sample, writing, unseen, sup_beat, run>>

Beat ==
  /\ sup = "raise" /\ todo = {}
  /\ sup_beat' = TRUE
  /\ sup' = "wait"
  /\ UNCHANGED <<to_store, todo, raising, quiet, ticks,
                 mode_req, faults, sample, writing, unseen, run>>

(* [mutant of Return] the thread stays while a fault is latched            *)
ReturnWhenClean ==
  /\ sup = "wait" /\ ~run /\ faults = {}
  /\ sup' = "done"
  /\ UNCHANGED <<to_store, todo, raising, quiet, ticks, shmVars>>

Return ==
  /\ sup = "wait" /\ ~run
  /\ sup' = "done"
  /\ UNCHANGED <<to_store, todo, raising, quiet, ticks, shmVars>>

=============================================================================

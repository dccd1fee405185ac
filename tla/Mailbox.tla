------------------------------ MODULE Mailbox ------------------------------
(***************************************************************************)
(* The command path of the shared segment: clients (send_cmd of so101ctl,  *)
(* command() of the Python class) put commands into the mailbox under two  *)
(* POSIX semaphores, the supervisor takes them out, answers, and frees a   *)
(* lock whose holder has died.                                             *)
(*                                                                         *)
(* Each client makes one call.  A field of cmd, and of the answer, is the  *)
(* client whose command it belongs to: a command is whole when its fields  *)
(* agree.  The fields of cmd are written in any order.                     *)
(*                                                                         *)
(* Time is counted in ticks.  As long as the supervisor is on time, a tick *)
(* is one sem_timedwait that times out; a live client that is on time      *)
(* spends at most WRITE_TICKS ticks from the lock to the post and at most  *)
(* POLL_TICKS polling.  Delay is time that passes while the supervisor has *)
(* something to do, at most DELAY_TICKS in all; Stoppable lifts the bounds *)
(* on the clients.                                                         *)
(***************************************************************************)
EXTENDS Naturals, FiniteSets

CONSTANTS
  Clients,      \* the calls of send_cmd
  WRITE_TICKS,  \* the longest a client takes from the lock to the post
  POLL_TICKS,   \* how long it polls for the answer, 1 s
  STUCK_TICKS,  \* LOCK_STUCK_MS, 2 s
  DELAY_TICKS,  \* bound: the ticks the supervisor is late, in all
  Mortal,       \* the clients that can be killed
  Stoppable     \* the clients that can be kept from running at will

ASSUME MailboxAssumption ==
  /\ WRITE_TICKS \in Nat /\ POLL_TICKS \in Nat /\ STUCK_TICKS \in Nat
  /\ DELAY_TICKS \in Nat
  /\ Mortal \subseteq Clients /\ Stoppable \subseteq Clients
  /\ "nobody" \notin Clients

Fields == {"id", "cmd", "arg"}
Nobody == "nobody"

VARIABLES
  lock, ready,   \* the semaphores CMD_LOCK and CMD_READY
  cmd,           \* the mailbox: each field and the client it comes from
  ack,           \* the answer: its id, and the command its result is about
  pc,            \* where each client is in send_cmd
  unwritten,     \* the fields it has still to write
  age,           \* ticks since it took the lock, or since it posted
  answer,        \* the result it read
  sup,           \* where the supervisor is
  taken,         \* its copy of the command
  zero,          \* ticks since lock_zero_since, 0 for -1
  served,        \* history: how often each client's command was served
  late           \* history: ticks the supervisor has been late

mbVars == <<lock, ready, cmd, ack, pc, unwritten, age, answer, sup, taken, zero,
            served, late>>
clVars == <<pc, unwritten, age, answer>>
spVars == <<sup, taken, zero, served, late>>

WholeOf(c) == [f \in Fields |-> c]

MbInit ==
  /\ lock = 1 /\ ready = 0
  /\ cmd = WholeOf(Nobody)
  /\ ack = [id |-> Nobody, result |-> WholeOf(Nobody)]
  /\ pc = [c \in Clients |-> "start"]
  /\ unwritten = [c \in Clients |-> {}]
  /\ age = [c \in Clients |-> 0]
  /\ answer = [c \in Clients |-> WholeOf(Nobody)]
  /\ sup = "wait"
  /\ taken = WholeOf(Nobody)
  /\ zero = 0
  /\ served = [c \in Clients |-> 0]
  /\ late = 0

-----------------------------------------------------------------------------
(* A client.                                                               *)

Go(c, from, to) == pc[c] = from /\ pc' = [pc EXCEPT ![c] = to]

Acquire(c) ==
  /\ Go(c, "start", "write")
  /\ lock > 0 /\ lock' = lock - 1
  /\ unwritten' = [unwritten EXCEPT ![c] = Fields]
  /\ age' = [age EXCEPT ![c] = 0]
  /\ UNCHANGED <<ready, cmd, ack, answer, spVars>>

(* "mailbox busy"                                                          *)
Busy(c) ==
  /\ Go(c, "start", "failed")
  /\ UNCHANGED <<lock, ready, cmd, ack, unwritten, age, answer, spVars>>

WriteField(c, f) ==
  /\ pc[c] = "write" /\ f \in unwritten[c]
  /\ cmd' = [cmd EXCEPT ![f] = c]
  /\ unwritten' = [unwritten EXCEPT ![c] = @ \ {f}]
  /\ UNCHANGED <<lock, ready, ack, pc, age, answer, spVars>>

(* [mutant of Written] the semaphore is posted before the last field       *)
WrittenAlmost(c) == unwritten[c] # Fields

Written(c) == unwritten[c] = {}

Post(c) ==
  /\ Go(c, "write", "poll")
  /\ Written(c)
  /\ ready' = ready + 1
  /\ age' = [age EXCEPT ![c] = 0]
  /\ UNCHANGED <<lock, cmd, ack, unwritten, answer, spVars>>

(* [mutant of Answered] any answer will do                                 *)
AnsweredAnyone(c) == ack.id # Nobody

Answered(c) == ack.id = c

(* ack.id is ours: read the result.                                        *)
ReadAck(c) ==
  /\ Go(c, "poll", "release")
  /\ Answered(c)
  /\ answer' = [answer EXCEPT ![c] = ack.result]
  /\ UNCHANGED <<lock, ready, cmd, ack, unwritten, age, spVars>>

(* [mutant of NoAnswer] a command that was not taken is waited for         *)
NoAnswerIfTaken(c) ==
  /\ Go(c, "poll", "failed")
  /\ age[c] >= POLL_TICKS /\ ready = 0
  /\ lock' = lock + 1
  /\ UNCHANGED <<ready, cmd, ack, unwritten, age, answer, spVars>>

(* "no answer from supervisor", though one may have come in the last sleep *)
(* of the poll: the lock is released all the same.                         *)
NoAnswer(c) ==
  /\ Go(c, "poll", "failed")
  /\ age[c] >= POLL_TICKS
  /\ lock' = lock + 1
  /\ UNCHANGED <<ready, cmd, ack, unwritten, age, answer, spVars>>

Release(c) ==
  /\ Go(c, "release", "done")
  /\ lock' = lock + 1
  /\ UNCHANGED <<ready, cmd, ack, unwritten, age, answer, spVars>>

Die(c) ==
  /\ c \in Mortal /\ pc[c] \in {"write", "poll", "release"}
  /\ pc' = [pc EXCEPT ![c] = "dead"]
  /\ UNCHANGED <<lock, ready, cmd, ack, unwritten, age, answer, spVars>>

ClientStep(c) ==
  \/ Acquire(c) \/ Post(c) \/ ReadAck(c) \/ NoAnswer(c) \/ Release(c)
  \/ \E f \in Fields : WriteField(c, f)

-----------------------------------------------------------------------------
(* The supervisor.                                                         *)

(* Everybody who is awake is older by a tick.                              *)
Aged == [c \in Clients |-> IF pc[c] \in {"write", "poll"} /\ age[c] < POLL_TICKS
                             THEN age[c] + 1 ELSE age[c]]

(* A client that would have to act before another tick passes.             *)
Due(c) ==
  /\ c \notin Stoppable
  /\ \/ pc[c] = "write" /\ age[c] >= WRITE_TICKS
     \/ pc[c] = "poll" /\ (age[c] >= POLL_TICKS \/ Answered(c))
     \/ pc[c] = "release"

(* [mutant of Stuck] a held lock is taken for stuck at once                *)
StuckEarly == lock = 0

(* The mailbox has been held for too long without a command.               *)
Stuck == lock = 0 /\ zero > STUCK_TICKS

(* [mutant of NextZero] lock_zero_since is set anew in every turn          *)
NextZeroRestart == IF lock > 0 THEN 0 ELSE 1

NextZero == IF lock > 0 \/ Stuck THEN 0 ELSE zero + 1

(* sem_timedwait times out: look for a lock whose holder has died.         *)
Tick ==
  /\ sup = "wait" /\ ready = 0
  /\ \A c \in Clients : ~Due(c)
  /\ age' = Aged
  /\ zero' = NextZero
  /\ lock' = IF Stuck THEN lock + 1 ELSE lock
  /\ UNCHANGED <<ready, cmd, ack, pc, unwritten, answer, sup, taken, served, late>>

(* Time passes and the supervisor does not run.                            *)
Delay ==
  /\ sup # "done" /\ (sup = "wait" => ready > 0)
  /\ late < DELAY_TICKS
  /\ \A c \in Clients : ~Due(c)
  /\ age' = Aged
  /\ late' = late + 1
  /\ UNCHANGED <<lock, ready, cmd, ack, pc, unwritten, answer, sup, taken, zero,
                 served>>

Take ==
  /\ sup = "wait" /\ ready > 0
  /\ ready' = ready - 1
  /\ taken' = cmd
  /\ sup' = "serve"
  /\ UNCHANGED <<lock, cmd, ack, clVars, zero, served, late>>

(* serve_command, and the first half of the answer.                        *)
Serve ==
  /\ sup = "serve"
  /\ ack' = [ack EXCEPT !.result = taken]
  /\ served' = [c \in Clients |-> IF taken["cmd"] = c THEN served[c] + 1
                                                      ELSE served[c]]
  /\ sup' = "ack"
  /\ UNCHANGED <<lock, ready, cmd, clVars, taken, zero, late>>

Acknowledge ==
  /\ sup = "ack"
  /\ ack' = [ack EXCEPT !.id = taken["id"]]
  /\ zero' = 0
  /\ sup' = "wait"
  /\ UNCHANGED <<lock, ready, cmd, clVars, taken, served, late>>

(* run is FALSE: the thread leaves its loop.                               *)
Return ==
  /\ sup = "wait" /\ sup' = "done"
  /\ UNCHANGED <<lock, ready, cmd, ack, clVars, taken, zero, served, late>>

(* Time passes and there is no supervisor any more.                        *)
Unserved ==
  /\ sup = "done"
  /\ \A c \in Clients : ~Due(c)
  /\ age' = Aged /\ age' # age
  /\ UNCHANGED <<lock, ready, cmd, ack, pc, unwritten, answer, spVars>>

SupervisorStep == Tick \/ Take \/ Serve \/ Acknowledge

AllEnded ==
  /\ sup = "done" /\ \A c \in Clients : pc[c] \in {"done", "failed", "dead"}
  /\ UNCHANGED mbVars

MbNext ==
  \/ SupervisorStep \/ Return \/ Delay \/ Unserved \/ AllEnded
  \/ \E c \in Clients : ClientStep(c) \/ Busy(c) \/ Die(c)

MbSpec == MbInit /\ [][MbNext]_mbVars

(* The supervisor runs until it returns, time passes, and the clients that *)
(* are alive go on.                                                        *)
MbFairSpec ==
  /\ MbSpec
  /\ WF_mbVars(SupervisorStep) /\ WF_mbVars(Unserved)
  /\ \A c \in Clients : WF_mbVars(ClientStep(c))

-----------------------------------------------------------------------------
(* Properties.                                                             *)

Inside(c) == pc[c] \in {"write", "poll", "release"}

(* The mailbox has one writer at a time, and the lock stays binary, though *)
(* the supervisor may release it in place of a dead client.                *)
OneWriter ==
  /\ lock =< 1
  /\ Cardinality({c \in Clients : Inside(c)}) =< 1 - lock

OnTime == late < POLL_TICKS

(* The supervisor only ever serves commands that a client has sent whole,  *)
(* as long as it is never late by as much as a client polls.               *)
ServedAsSent ==
  sup = "serve" /\ OnTime => \E c \in Clients : taken = WholeOf(c)

(* A client that reports an answer reports that of its own command, which  *)
(* was served exactly once; no command is served twice.  Same condition.   *)
OwnAnswerOnce ==
  OnTime => \A c \in Clients :
    /\ served[c] =< 1
    /\ pc[c] \in {"release", "done"} => answer[c] = WholeOf(c) /\ served[c] = 1

(* A client that died with the mailbox in its hands does not keep it: the  *)
(* lock becomes free again and again, as long as there is a supervisor.    *)
LockRecovered == []<>(lock > 0 \/ sup = "done")

(* No call gets stuck in the mailbox, even one whose command the daemon    *)
(* leaves unserved when it stops (the bounded poll of send_cmd).           *)
CallReturns == \A c \in Clients : Inside(c) ~> ~Inside(c)

=============================================================================

--------------------------- MODULE MailboxProofs ---------------------------
(***************************************************************************)
(* Proofs about the command path, for any number of calls.                 *)
(*                                                                         *)
(* OneWriter rests on time: the supervisor frees the lock by its own clock *)
(* (zero), each client is bounded by its own (age), and TimeInv relates    *)
(* the two, so that the supervisor's clock runs out only on a dead client. *)
(* ServedAsSent and OwnAnswerOnce rest on HandInv: the command that the    *)
(* supervisor has before it belongs to the one client that may still be    *)
(* inside, and that client has not polled for longer than the supervisor   *)
(* has been late.                                                          *)
(***************************************************************************)
EXTENDS Mailbox, TLAPS, FiniteSetTheorems

Places == {"start", "write", "poll", "release", "done", "failed", "dead"}
Whose == Clients \cup {Nobody}
Command == [Fields -> Whose]

MbTypeOK ==
  /\ lock \in Nat /\ ready \in Nat /\ zero \in Nat /\ late \in Nat
  /\ cmd \in Command /\ taken \in Command
  /\ ack \in [id : Whose, result : Command]
  /\ pc \in [Clients -> Places]
  /\ unwritten \in [Clients -> SUBSET Fields]
  /\ age \in [Clients -> Nat]
  /\ answer \in [Clients -> Command]
  /\ sup \in {"wait", "serve", "ack", "done"}
  /\ served \in [Clients -> Nat]

(* What the code's timeouts have to satisfy: a client that is slow to      *)
(* write, after a supervisor that has seen the lock held for as long as    *)
(* the previous client polled, is still within LOCK_STUCK_MS.              *)
Timeouts ==
  /\ Stoppable = {}
  /\ WRITE_TICKS =< POLL_TICKS
  /\ WRITE_TICKS + POLL_TICKS =< STUCK_TICKS

-----------------------------------------------------------------------------
(* The lock and the clocks.                                                *)

Pending == ready > 0 \/ sup \in {"serve", "ack"}

LockInv ==
  /\ lock \in {0, 1}
  /\ \A c \in Clients : Inside(c) => lock = 0
  /\ \A c, d \in Clients : Inside(c) /\ Inside(d) => c = d

AgeInv ==
  \A c \in Clients :
    /\ pc[c] = "write" => age[c] =< WRITE_TICKS
    /\ pc[c] = "poll" => age[c] =< POLL_TICKS

(* How far lock_zero_since can be back while no command is pending.        *)
TimeInv ==
  \/ Pending
  \/ /\ lock > 0 => zero =< POLL_TICKS
     /\ \A c \in Clients :
          /\ pc[c] = "write" => zero =< POLL_TICKS + age[c]
          /\ pc[c] = "poll" => zero =< age[c]
          /\ pc[c] = "release" => zero =< POLL_TICKS

MbInv == MbTypeOK /\ LockInv /\ AgeInv /\ TimeInv

-----------------------------------------------------------------------------
(* The command in the supervisor's hands.                                  *)

(* Nobody but c can be inside, and c has not given up yet.                 *)
Owner(c) ==
  /\ lock = 0
  /\ pc[c] \in {"poll", "dead"}
  /\ pc[c] = "poll" => age[c] =< late
  /\ ack.id # c
  /\ \A d \in Clients : Inside(d) => d = c

HandInv ==
  /\ sup = "wait" /\ ready > 0 =>
       ready = 1 /\ \E c \in Clients : Owner(c) /\ cmd = WholeOf(c) /\ served[c] = 0
  /\ sup = "serve" =>
       ready = 0 /\ \E c \in Clients : Owner(c) /\ taken = WholeOf(c) /\ served[c] = 0
  /\ sup = "ack" =>
       ready = 0 /\ \E c \in Clients :
         Owner(c) /\ taken = WholeOf(c) /\ ack.result = WholeOf(c) /\ served[c] = 1

(* What has become of each call.                                           *)
CallInv ==
  \A c \in Clients :
    /\ pc[c] \in {"start", "write"} => served[c] = 0 /\ ack.id # c
    /\ pc[c] = "write" => \A f \in Fields \ unwritten[c] : cmd[f] = c
    /\ pc[c] = "poll" /\ ack.id = c => ack.result = WholeOf(c) /\ served[c] = 1
    /\ pc[c] \in {"release", "done"} => answer[c] = WholeOf(c) /\ served[c] = 1
    /\ served[c] =< 1

AnswerInv == OnTime => HandInv /\ CallInv

-----------------------------------------------------------------------------
(* Types.                                                                  *)

LEMMA AgedType ==
  ASSUME MbTypeOK
  PROVE  Aged \in [Clients -> Nat]
BY DEF MbTypeOK, Aged

LEMMA NextZeroType ==
  ASSUME MbTypeOK
  PROVE  NextZero \in Nat
BY DEF MbTypeOK, NextZero

LEMMA WholeType ==
  /\ WholeOf(Nobody) \in Command
  /\ \A c \in Clients : WholeOf(c) \in Command
BY DEF WholeOf, Command, Whose

LEMMA TypeInit == MbInit => MbTypeOK
<1> SUFFICES ASSUME MbInit PROVE MbTypeOK
  OBVIOUS
<1>1. ack \in [id : Whose, result : Command]
  BY WholeType DEF MbInit, Whose
<1> QED
  BY <1>1, WholeType DEF MbInit, MbTypeOK, Places

LEMMA TypeStep == MbTypeOK /\ [MbNext]_mbVars => MbTypeOK'
<1> SUFFICES ASSUME MbTypeOK, [MbNext]_mbVars PROVE MbTypeOK'
  OBVIOUS
<1> USE DEF MbTypeOK, clVars, spVars
<1>1. CASE Tick
  BY <1>1, AgedType, NextZeroType DEF Tick
<1>2. CASE Take
  BY <1>2 DEF Take
<1>3. CASE Serve
  <2>1. ack' \in [id : Whose, result : Command]
    BY <1>3 DEF Serve
  <2>2. served' \in [Clients -> Nat]
    BY <1>3 DEF Serve
  <2> QED
    BY <1>3, <2>1, <2>2 DEF Serve
<1>4. CASE Acknowledge
  <2>1. taken["id"] \in Whose
    BY DEF Command, Fields
  <2>2. ack' \in [id : Whose, result : Command]
    BY <1>4, <2>1 DEF Acknowledge
  <2> QED
    BY <1>4, <2>2 DEF Acknowledge
<1>5. CASE Return
  BY <1>5 DEF Return
<1>6. CASE Delay
  BY <1>6, AgedType DEF Delay
<1>7. CASE Unserved
  BY <1>7, AgedType DEF Unserved
<1>8. ASSUME NEW c \in Clients, Acquire(c) PROVE MbTypeOK'
  BY <1>8 DEF Acquire, Go, Places
<1>9. ASSUME NEW c \in Clients, Busy(c) PROVE MbTypeOK'
  BY <1>9 DEF Busy, Go, Places
<1>10. ASSUME NEW c \in Clients, NEW f \in Fields, WriteField(c, f) PROVE MbTypeOK'
  <2>1. cmd' \in Command
    BY <1>10 DEF WriteField, Command, Whose
  <2> QED
    BY <1>10, <2>1 DEF WriteField
<1>11. ASSUME NEW c \in Clients, Post(c) PROVE MbTypeOK'
  BY <1>11 DEF Post, Go, Places
<1>12. ASSUME NEW c \in Clients, ReadAck(c) PROVE MbTypeOK'
  BY <1>12 DEF ReadAck, Go, Places
<1>13. ASSUME NEW c \in Clients, NoAnswer(c) PROVE MbTypeOK'
  BY <1>13 DEF NoAnswer, Go, Places
<1>14. ASSUME NEW c \in Clients, Release(c) PROVE MbTypeOK'
  BY <1>14 DEF Release, Go, Places
<1>15. ASSUME NEW c \in Clients, Die(c) PROVE MbTypeOK'
  BY <1>15 DEF Die, Places
<1>16. CASE UNCHANGED mbVars
  BY <1>16 DEF mbVars
<1> QED
  BY <1>1, <1>2, <1>3, <1>4, <1>5, <1>6, <1>7, <1>8, <1>9, <1>10, <1>11, <1>12,
     <1>13, <1>14, <1>15, <1>16
  DEF MbNext, SupervisorStep, ClientStep, AllEnded

-----------------------------------------------------------------------------
(* One writer.                                                             *)

(* A tick makes everybody who is inside older by one.                      *)
LEMMA NobodyDue ==
  ASSUME MbTypeOK, Timeouts, \A c \in Clients : ~Due(c)
  PROVE  \A c \in Clients :
           /\ pc[c] = "write" => age[c] < WRITE_TICKS /\ Aged[c] = age[c] + 1
           /\ pc[c] = "poll" => age[c] < POLL_TICKS /\ Aged[c] = age[c] + 1
           /\ pc[c] # "release"
BY MailboxAssumption DEF MbTypeOK, Timeouts, Due, Aged

(* When the supervisor takes the lock for stuck, its holder is dead.       *)
LEMMA StuckIsEmpty ==
  ASSUME MbInv, Timeouts, Tick, Stuck
  PROVE  \A c \in Clients : ~Inside(c)
<1>1. ~Pending
  BY DEF Tick, Pending, MbInv, MbTypeOK
<1> QED
  BY <1>1, NobodyDue, MailboxAssumption
  DEF MbInv, MbTypeOK, AgeInv, TimeInv, Timeouts, Tick, Stuck, Inside

LEMMA TickLock ==
  ASSUME MbInv, Timeouts, Tick
  PROVE  LockInv' /\ AgeInv' /\ TimeInv'
<1>1. ~Pending
  BY DEF Tick, Pending, MbInv, MbTypeOK
<1>2. /\ pc' = pc /\ age' = Aged /\ zero' = NextZero
      /\ lock' = IF Stuck THEN lock + 1 ELSE lock
  BY DEF Tick
<1>3. LockInv'
  BY <1>2, StuckIsEmpty DEF MbInv, LockInv, Stuck, Inside
<1>4. AgeInv'
  BY <1>2, NobodyDue, MailboxAssumption DEF Tick, MbInv, AgeInv, MbTypeOK
<1>5. CASE lock > 0 \/ Stuck
  BY <1>3, <1>4, <1>5, <1>2, MailboxAssumption, AgedType
  DEF TimeInv, NextZero, MbInv, MbTypeOK
<1>6. CASE ~(lock > 0 \/ Stuck)
  <2>1. lock' = lock /\ zero' = zero + 1
    BY <1>6, <1>2 DEF NextZero
  <2> QED
    BY <2>1, <1>1, <1>2, <1>3, <1>4, <1>6, NobodyDue, MailboxAssumption
    DEF TimeInv, Tick, MbInv, MbTypeOK
<1> QED
  BY <1>5, <1>6

(* Time that passes while a command is pending, or after the supervisor.   *)
LEMMA LateLock ==
  ASSUME MbInv, Timeouts, Delay \/ Unserved
  PROVE  LockInv' /\ AgeInv' /\ TimeInv'
<1>1. /\ pc' = pc /\ age' = Aged /\ zero' = zero /\ lock' = lock /\ ready' = ready
      /\ sup' = sup /\ \A c \in Clients : ~Due(c)
  BY DEF Delay, Unserved, spVars
<1>2. LockInv'
  BY <1>1 DEF MbInv, LockInv, Inside
<1>3. AgeInv'
  BY <1>1, NobodyDue, MailboxAssumption DEF MbInv, AgeInv, MbTypeOK
<1>4. TimeInv'
  BY <1>1, NobodyDue, MailboxAssumption DEF MbInv, TimeInv, MbTypeOK, Pending
<1> QED
  BY <1>2, <1>3, <1>4

LEMMA SupervisorLock ==
  ASSUME MbInv, Timeouts, Take \/ Serve \/ Acknowledge \/ Return
  PROVE  LockInv' /\ AgeInv' /\ TimeInv'
<1>1. pc' = pc /\ age' = age /\ lock' = lock
  BY DEF Take, Serve, Acknowledge, Return, clVars
<1>2. LockInv'
  BY <1>1 DEF MbInv, LockInv, Inside
<1>3. AgeInv'
  BY <1>1 DEF MbInv, AgeInv
<1>4. CASE Take \/ Serve
  BY <1>2, <1>3, <1>4 DEF Take, Serve, TimeInv, Pending
<1>5. CASE Acknowledge
  BY <1>1, <1>2, <1>3, <1>5, MailboxAssumption DEF Acknowledge, TimeInv, MbInv, MbTypeOK
<1>6. CASE Return
  BY <1>1, <1>2, <1>3, <1>6 DEF Return, TimeInv, MbInv, Pending
<1> QED
  BY <1>4, <1>5, <1>6

LEMMA ClientLock ==
  ASSUME MbInv, Timeouts, NEW c \in Clients, ClientStep(c) \/ Busy(c) \/ Die(c)
  PROVE  LockInv' /\ AgeInv' /\ TimeInv'
<1> USE MailboxAssumption DEF MbInv, MbTypeOK, LockInv, AgeInv, TimeInv, Inside, Pending,
      clVars, spVars, Go
<1>1. CASE Acquire(c)
  <2>1. \A d \in Clients : ~Inside(d)
    BY <1>1 DEF Acquire
  <2>2. LockInv'
    BY <1>1, <2>1 DEF Acquire
  <2>3. AgeInv'
    BY <1>1, <2>1 DEF Acquire
  <2>4. TimeInv'
    BY <1>1, <2>1 DEF Acquire
  <2> QED
    BY <2>2, <2>3, <2>4
<1>2. CASE Busy(c) \/ Die(c)
  <2>1. /\ lock' = lock /\ age' = age /\ zero' = zero /\ ready' = ready /\ sup' = sup
        /\ pc' \in [Clients -> {pc[d] : d \in Clients} \cup {"failed", "dead"}]
        /\ \A d \in Clients : pc'[d] = pc[d] \/ pc'[d] \in {"failed", "dead"}
    BY <1>2 DEF Busy, Die
  <2> QED
    BY <2>1
<1>3. ASSUME NEW f \in Fields, WriteField(c, f) PROVE LockInv' /\ AgeInv' /\ TimeInv'
  BY <1>3 DEF WriteField
<1>4. CASE Post(c)
  <2>1. LockInv'
    BY <1>4 DEF Post
  <2>2. AgeInv'
    BY <1>4 DEF Post
  <2>3. ready' > 0
    BY <1>4 DEF Post
  <2> QED
    BY <2>1, <2>2, <2>3
<1>5. CASE ReadAck(c)
  <2>1. LockInv'
    BY <1>5 DEF ReadAck
  <2>2. AgeInv'
    BY <1>5 DEF ReadAck
  <2>3. TimeInv'
    BY <1>5 DEF ReadAck
  <2> QED
    BY <2>1, <2>2, <2>3
<1>6. CASE NoAnswer(c) \/ Release(c)
  <2>1. /\ lock' = lock + 1 /\ age' = age /\ zero' = zero /\ ready' = ready /\ sup' = sup
        /\ pc[c] \in {"poll", "release"}
        /\ pc' = [pc EXCEPT ![c] = pc'[c]] /\ pc'[c] \in {"failed", "done"}
    BY <1>6 DEF NoAnswer, Release
  <2>2. lock = 0 /\ \A d \in Clients : Inside(d) => d = c
    BY <2>1
  <2>3. \A d \in Clients : ~Inside(d)'
    BY <2>1, <2>2
  <2>4. LockInv'
    BY <2>1, <2>2, <2>3
  <2>5. AgeInv'
    BY <2>3
  <2>6. TimeInv'
    BY <2>1, <2>3
  <2> QED
    BY <2>4, <2>5, <2>6
<1> QED
  BY <1>1, <1>2, <1>3, <1>4, <1>5, <1>6 DEF ClientStep

(* The lock and the clocks, for any number of clients that are not kept    *)
(* from running and for any timeouts that fit together.                    *)
THEOREM MailboxInvariant ==
  ASSUME Timeouts
  PROVE  MbSpec => []MbInv
<1>1. MbInit => MbInv
  BY TypeInit, MailboxAssumption
  DEF MbInit, MbInv, LockInv, AgeInv, TimeInv, Inside
<1>2. MbInv /\ [MbNext]_mbVars => MbInv'
  <2> SUFFICES ASSUME MbInv, [MbNext]_mbVars PROVE MbInv'
    OBVIOUS
  <2>1. MbTypeOK'
    BY TypeStep DEF MbInv
  <2>2. LockInv' /\ AgeInv' /\ TimeInv'
    <3>1. CASE UNCHANGED mbVars
      BY <3>1 DEF mbVars, MbInv, LockInv, AgeInv, TimeInv, Pending, Inside
    <3> QED
      BY <3>1, TickLock, LateLock, SupervisorLock, ClientLock
      DEF MbNext, SupervisorStep, AllEnded
  <2> QED
    BY <2>1, <2>2 DEF MbInv
<1> QED
  BY <1>1, <1>2, PTL DEF MbSpec

(* The mailbox has one writer at a time (send_cmd between sem_timedwait    *)
(* and sem_post), though supervisor_thread frees the lock in place of a    *)
(* client that it takes for dead.                                          *)
THEOREM AlwaysOneWriter ==
  ASSUME Timeouts
  PROVE  MbSpec => []OneWriter
<1>1. MbInv => OneWriter
  <2> SUFFICES ASSUME MbInv PROVE OneWriter
    OBVIOUS
  <2> DEFINE In == {c \in Clients : Inside(c)}
  <2>1. lock \in {0, 1}
    BY DEF MbInv, LockInv
  <2>2. CASE In = {}
    BY <2>1, <2>2, FS_EmptySet DEF OneWriter
  <2>3. CASE In # {}
    <3>1. PICK c \in Clients : In = {c}
      BY <2>3 DEF MbInv, LockInv
    <3>2. lock = 0
      BY <3>1 DEF MbInv, LockInv
    <3>3. Cardinality(In) = 1
      BY <3>1, FS_Singleton
    <3> QED
      BY <3>2, <3>3 DEF OneWriter
  <2> QED
    BY <2>2, <2>3
<1> QED
  BY <1>1, MailboxInvariant, PTL

-----------------------------------------------------------------------------
(* The answers.                                                            *)

(* Without an owner there is no command in the supervisor's hands.         *)
LEMMA NoOwner ==
  ASSUME MbTypeOK, HandInv, \A c \in Clients : ~Owner(c)
  PROVE  sup \in {"wait", "done"} /\ (sup = "wait" => ready = 0)
BY DEF MbTypeOK, HandInv

(* Time goes by.                                                           *)
LEMMA TimeAnswer ==
  ASSUME MbInv, HandInv, CallInv, Tick \/ Delay \/ Unserved
  PROVE  HandInv' /\ CallInv'
<1>1. /\ pc' = pc /\ age' = Aged /\ ready' = ready /\ sup' = sup /\ ack' = ack
      /\ cmd' = cmd /\ taken' = taken /\ served' = served /\ answer' = answer
      /\ unwritten' = unwritten
  BY DEF Tick, Delay, Unserved, spVars
<1>2. CallInv'
  BY <1>1 DEF CallInv
<1>3. CASE Tick \/ Unserved
  BY <1>1, <1>2, <1>3 DEF Tick, Unserved, HandInv
<1>4. CASE Delay
  <2>1. ASSUME NEW c \in Clients, Owner(c) PROVE Owner(c)'
    <3>1. Aged[c] =< age[c] + 1
      BY DEF Aged, MbInv, MbTypeOK
    <3>2. lock' = lock /\ late' = late + 1
      BY <1>4 DEF Delay
    <3>3. pc[c] = "poll" => age'[c] =< late'
      BY <3>1, <3>2, <2>1, <1>1, AgedType DEF Owner, MbInv, MbTypeOK
    <3> QED
      BY <1>1, <2>1, <3>2, <3>3 DEF Owner, Inside
  <2> QED
    BY <1>1, <1>2, <2>1 DEF HandInv
<1> QED
  BY <1>3, <1>4

LEMMA TakeAnswer ==
  ASSUME MbInv, HandInv, CallInv, Take
  PROVE  HandInv' /\ CallInv'
<1>1. PICK c \in Clients : Owner(c) /\ cmd = WholeOf(c) /\ served[c] = 0 /\ ready = 1
  BY DEF Take, HandInv
<1>2. Owner(c)'
  BY <1>1 DEF Take, Owner, Inside, clVars
<1>3. HandInv'
  BY <1>1, <1>2 DEF Take, HandInv
<1> QED
  BY <1>3 DEF Take, CallInv, clVars

LEMMA ServeAnswer ==
  ASSUME MbInv, HandInv, CallInv, Serve
  PROVE  HandInv' /\ CallInv'
<1>1. PICK c \in Clients : Owner(c) /\ taken = WholeOf(c) /\ served[c] = 0 /\ ready = 0
  BY DEF Serve, HandInv
<1>2. taken["cmd"] = c
  BY <1>1 DEF WholeOf, Fields
<1>3. /\ ack'.id = ack.id /\ ack'.result = taken
      /\ pc' = pc /\ age' = age /\ lock' = lock /\ late' = late /\ ready' = ready
      /\ cmd' = cmd /\ taken' = taken /\ answer' = answer /\ unwritten' = unwritten
      /\ sup' = "ack"
  BY DEF Serve, clVars, MbInv, MbTypeOK
<1>4. \A d \in Clients : served'[d] = IF d = c THEN 1 ELSE served[d]
  BY <1>1, <1>2 DEF Serve
<1>5. Owner(c)'
  BY <1>1, <1>3 DEF Owner, Inside
<1>6. HandInv'
  BY <1>1, <1>3, <1>4, <1>5 DEF HandInv
<1>7. CallInv'
  BY <1>1, <1>3, <1>4 DEF CallInv, Owner, Inside
<1> QED
  BY <1>6, <1>7

LEMMA AcknowledgeAnswer ==
  ASSUME MbInv, HandInv, CallInv, Acknowledge
  PROVE  HandInv' /\ CallInv'
<1>1. PICK c \in Clients : /\ Owner(c) /\ taken = WholeOf(c) /\ served[c] = 1
                           /\ ack.result = WholeOf(c) /\ ready = 0
  BY DEF Acknowledge, HandInv
<1>2. taken["id"] = c
  BY <1>1 DEF WholeOf, Fields
<1>3. /\ ack'.id = c /\ ack'.result = ack.result
      /\ pc' = pc /\ ready' = ready /\ cmd' = cmd /\ answer' = answer
      /\ unwritten' = unwritten /\ served' = served /\ sup' = "wait"
  BY <1>2 DEF Acknowledge, clVars, MbInv, MbTypeOK
<1>4. HandInv'
  BY <1>1, <1>3 DEF HandInv
<1>5. CallInv'
  BY <1>1, <1>3 DEF CallInv, Owner
<1> QED
  BY <1>4, <1>5

(* A client that is writing, or that has its answer, is no owner; neither  *)
(* is one that gives up, as long as the supervisor is on time.             *)
LEMMA OwnerWaits ==
  ASSUME MbInv, HandInv, CallInv, OnTime, NEW c \in Clients,
         \/ lock > 0
         \/ pc[c] = "write" \/ pc[c] = "release"
         \/ pc[c] = "poll" /\ Answered(c)
         \/ pc[c] = "poll" /\ age[c] >= POLL_TICKS
  PROVE  sup \in {"wait", "done"} /\ (sup = "wait" => ready = 0)
<1>1. ASSUME NEW d \in Clients, Owner(d) PROVE FALSE
  BY <1>1, MailboxAssumption
  DEF Owner, Inside, Answered, OnTime, MbInv, MbTypeOK
<1> QED
  BY <1>1, NoOwner DEF MbInv

LEMMA AcquireAnswer ==
  ASSUME MbInv, HandInv, CallInv, OnTime, NEW c \in Clients, Acquire(c)
  PROVE  HandInv' /\ CallInv'
<1>1. HandInv'
  BY OwnerWaits DEF Acquire, HandInv, spVars
<1>2. CallInv'
  BY DEF Acquire, Go, CallInv, MbInv, MbTypeOK, spVars
<1> QED
  BY <1>1, <1>2

LEMMA WriteAnswer ==
  ASSUME MbInv, HandInv, CallInv, OnTime, NEW c \in Clients, NEW f \in Fields,
         WriteField(c, f)
  PROVE  HandInv' /\ CallInv'
<1>1. HandInv'
  BY OwnerWaits DEF WriteField, HandInv, spVars
<1>2. CallInv'
  <2>1. \A d \in Clients : pc[d] = "write" => d = c
    BY DEF WriteField, MbInv, LockInv, Inside
  <2>2. \A g \in Fields : cmd'[g] = IF g = f THEN c ELSE cmd[g]
    BY DEF WriteField, MbInv, MbTypeOK, Command
  <2>3. unwritten'[c] = unwritten[c] \ {f}
    BY DEF WriteField, MbInv, MbTypeOK
  <2>4. /\ pc' = pc /\ ack' = ack /\ served' = served /\ answer' = answer
    BY DEF WriteField, spVars
  <2> QED
    BY <2>1, <2>2, <2>3, <2>4 DEF CallInv
<1> QED
  BY <1>1, <1>2

LEMMA PostAnswer ==
  ASSUME MbInv, HandInv, CallInv, OnTime, NEW c \in Clients, Post(c)
  PROVE  HandInv' /\ CallInv'
<1>1. sup \in {"wait", "done"} /\ (sup = "wait" => ready = 0) /\ pc[c] = "write"
  BY OwnerWaits DEF Post, Go
<1>2. /\ lock' = lock /\ cmd' = cmd /\ ack' = ack /\ unwritten' = unwritten
      /\ answer' = answer /\ sup' = sup /\ served' = served /\ late' = late
      /\ ready' = ready + 1
  BY DEF Post, spVars
<1>3. pc' = [pc EXCEPT ![c] = "poll"] /\ age'[c] = 0
  BY DEF Post, Go, MbInv, MbTypeOK
<1>4. cmd = WholeOf(c)
  <2>1. \A f \in Fields : cmd[f] = c
    BY <1>1 DEF Post, Written, CallInv
  <2>2. cmd \in [Fields -> Whose]
    BY DEF MbInv, MbTypeOK, Command
  <2> QED
    BY <2>1, <2>2 DEF WholeOf
<1>5. Owner(c)'
  <2>1. lock' = 0 /\ \A d \in Clients : Inside(d) => d = c
    BY <1>1, <1>2 DEF MbInv, LockInv, Inside
  <2>2. ack.id # c
    BY <1>1 DEF CallInv
  <2> QED
    BY <1>2, <1>3, <2>1, <2>2 DEF Owner, Inside, MbInv, MbTypeOK
<1>6. HandInv'
  BY <1>1, <1>2, <1>4, <1>5 DEF HandInv, CallInv
<1>7. CallInv'
  BY <1>1, <1>2, <1>3 DEF CallInv, MbInv, MbTypeOK
<1> QED
  BY <1>6, <1>7

(* The ways out of the mailbox.                                            *)
LEMMA LeaveAnswer ==
  ASSUME MbInv, HandInv, CallInv, OnTime, NEW c \in Clients,
         ReadAck(c) \/ NoAnswer(c) \/ Release(c)
  PROVE  HandInv' /\ CallInv'
<1>1. sup \in {"wait", "done"} /\ (sup = "wait" => ready = 0)
  BY OwnerWaits DEF ReadAck, NoAnswer, Release, Go
<1>2. HandInv'
  BY <1>1 DEF ReadAck, NoAnswer, Release, spVars, HandInv
<1>3. CASE ReadAck(c)
  BY <1>2, <1>3 DEF ReadAck, Answered, Go, CallInv, MbInv, MbTypeOK, spVars
<1>4. CASE NoAnswer(c)
  BY <1>2, <1>4 DEF NoAnswer, Go, CallInv, MbInv, MbTypeOK, spVars
<1>5. CASE Release(c)
  BY <1>2, <1>5 DEF Release, Go, CallInv, MbInv, MbTypeOK, spVars
<1> QED
  BY <1>3, <1>4, <1>5

(* A death, or a mailbox that was busy, leaves the command as it is.       *)
LEMMA EndAnswer ==
  ASSUME MbInv, HandInv, CallInv, NEW c \in Clients, Busy(c) \/ Die(c)
  PROVE  HandInv' /\ CallInv'
<1>1. /\ lock' = lock /\ ready' = ready /\ cmd' = cmd /\ ack' = ack /\ age' = age
      /\ unwritten' = unwritten /\ answer' = answer /\ sup' = sup /\ taken' = taken
      /\ served' = served /\ late' = late
  BY DEF Busy, Die, spVars
<1>2. \A d \in Clients : pc'[d] = pc[d] \/ pc'[d] \in {"failed", "dead"}
  BY DEF Busy, Die, Go, MbInv, MbTypeOK
<1>3. ASSUME NEW d \in Clients, Owner(d) PROVE Owner(d)'
  <2>1. pc'[d] \in {"poll", "dead"}
    BY <1>3 DEF Owner, Busy, Die, Go, MbInv, MbTypeOK
  <2> QED
    BY <1>1, <1>2, <1>3, <2>1 DEF Owner, Inside
<1>4. HandInv'
  BY <1>1, <1>3 DEF HandInv
<1>5. CallInv'
  BY <1>1, <1>2 DEF CallInv
<1> QED
  BY <1>4, <1>5

LEMMA AnswerStep ==
  ASSUME MbInv, AnswerInv, [MbNext]_mbVars
  PROVE  AnswerInv'
<1> SUFFICES ASSUME OnTime' PROVE HandInv' /\ CallInv'
  BY DEF AnswerInv
<1>1. late' = late \/ late' = late + 1
  BY DEF MbNext, SupervisorStep, Tick, Take, Serve, Acknowledge, Return, Delay, Unserved,
     AllEnded, ClientStep, Acquire, WriteField, Post, ReadAck, NoAnswer, Release, Busy,
     Die, spVars, mbVars
<1>2. OnTime
  BY <1>1, MailboxAssumption DEF OnTime, MbInv, MbTypeOK
<1>3. HandInv /\ CallInv
  BY <1>2 DEF AnswerInv
<1>4. CASE Return
  BY <1>3, <1>4 DEF Return, HandInv, CallInv, clVars
<1>5. CASE UNCHANGED mbVars
  BY <1>3, <1>5 DEF mbVars, HandInv, CallInv, Owner, Inside
<1>6. CASE SupervisorStep \/ Delay \/ Unserved
  BY <1>3, <1>6, TimeAnswer, TakeAnswer, ServeAnswer, AcknowledgeAnswer
  DEF SupervisorStep
<1>7. ASSUME NEW c \in Clients, ClientStep(c) \/ Busy(c) \/ Die(c)
      PROVE  HandInv' /\ CallInv'
  BY <1>2, <1>3, <1>7, AcquireAnswer, WriteAnswer, PostAnswer, LeaveAnswer, EndAnswer
  DEF ClientStep
<1> QED
  BY <1>4, <1>5, <1>6, <1>7 DEF MbNext, AllEnded

(* Whose command the supervisor holds and what each call has been told.    *)
THEOREM AnswerInvariant ==
  ASSUME Timeouts
  PROVE  MbSpec => []AnswerInv
<1>1. MbInit => AnswerInv
  BY MailboxAssumption DEF MbInit, AnswerInv, HandInv, CallInv, Nobody
<1>2. MbInv /\ AnswerInv /\ [MbNext]_mbVars => AnswerInv'
  BY AnswerStep
<1> QED
  BY <1>1, <1>2, MailboxInvariant, PTL DEF MbSpec

(* serve_command only ever sees commands that some send_cmd wrote whole,   *)
(* as long as the supervisor is not late by as much as a client polls.     *)
THEOREM AlwaysServedAsSent ==
  ASSUME Timeouts
  PROVE  MbSpec => []ServedAsSent
<1>1. AnswerInv => ServedAsSent
  BY DEF AnswerInv, HandInv, ServedAsSent
<1> QED
  BY <1>1, AnswerInvariant, PTL

(* send_cmd reports the answer to its own command, which was served once,  *)
(* and no command is served twice; same condition.                         *)
THEOREM AlwaysOwnAnswerOnce ==
  ASSUME Timeouts
  PROVE  MbSpec => []OwnAnswerOnce
<1>1. AnswerInv => OwnAnswerOnce
  BY DEF AnswerInv, CallInv, OwnAnswerOnce
<1> QED
  BY <1>1, AnswerInvariant, PTL

=============================================================================

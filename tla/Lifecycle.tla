----------------------------- MODULE Lifecycle -----------------------------
(***************************************************************************)
(* The life of so101d and what its clients see of it: the start of a       *)
(* process (ports, segment, flock, header, semaphores, threads), its stop, *)
(* its death at any moment, the next process, and the clients attached all *)
(* the while: calls of so101ctl, which open everything anew, and Python    *)
(* clients that outlive daemons (the ROS 2 bridge), which keep what they   *)
(* have opened.                                                            *)
(*                                                                         *)
(* A segment and a pair of semaphores outlive their names: each is called  *)
(* after the process that created it, and `name' and `sems' say which one  *)
(* the file system shows.  The two semaphores are removed and created one  *)
(* right after the other, and a client that finds one of them missing      *)
(* fails as it does without both: they are one pair here.                  *)
(*                                                                         *)
(* systemd starts the next process when none is alive; a second one beside *)
(* it is started by hand.  What the mailbox does while a daemon is up is   *)
(* the subject of module Mailbox: here a command is its number, written    *)
(* and posted in one step.                                                 *)
(***************************************************************************)
EXTENDS Naturals, FiniteSets

CONSTANTS
  MaxStarts,   \* bound: processes of so101d in all
  MaxAsked,    \* bound: commands in all
  Calls,       \* calls of so101ctl
  Bridges,     \* Python clients that outlive a daemon
  Privileged,  \* processes that TIOCEXCL does not stop (root)
  CrashAt      \* the places where a process can be killed

None    == 0
Procs   == 1 .. MaxStarts
Clients == Calls \cup Bridges

Ended == {"stopped", "refused", "failed", "killed"}

ASSUME LifecycleAssumption ==
  /\ MaxStarts \in Nat \ {0} /\ MaxAsked \in Nat
  /\ Calls \cap Bridges = {}
  /\ Privileged \subseteq Procs
  /\ CrashAt \cap (Ended \cup {"none"}) = {}

VARIABLES
  pc,     \* where each process is in main
  seg,    \* the segment it has opened
  shm,    \* the segments
  name,   \* the segment SO101_SHM_NAME names
  sems,   \* the pair the two semaphore names name
  lock, ready,  \* the values of the semaphores, per pair
  bus,    \* the processes that have the serial ports open
  cl,     \* the clients
  asked,  \* commands so far
  overtaken  \* history: processes that locked a segment without a name

lifeVars == <<pc, seg, shm, name, sems, lock, ready, bus, cl, asked, overtaken>>
fileVars == <<name, sems, lock, ready>>

NoSegment ==
  [sized |-> FALSE, magic |-> FALSE, odd |-> FALSE, by |-> None,
   flock |-> None, cmd |-> 0, ack |-> 0]

NewClient == [pc |-> "away", seg |-> None, sem |-> None, id |-> 0, to |-> None]

LifeInit ==
  /\ pc = [p \in Procs |-> "none"]
  /\ seg = [p \in Procs |-> None]
  /\ shm = [s \in Procs |-> NoSegment]
  /\ name = None /\ sems = None
  /\ lock = [p \in Procs |-> 0] /\ ready = [p \in Procs |-> 0]
  /\ bus = {}
  /\ cl = [c \in Clients |-> NewClient]
  /\ asked = 0
  /\ overtaken = {}

-----------------------------------------------------------------------------
(* A process.                                                              *)

Alive(p) == pc[p] \notin Ended \cup {"none"}

Goes(p, from, to) == pc[p] = from /\ pc' = [pc EXCEPT ![p] = to]

Start(p) ==
  /\ \A q \in 1 .. p - 1 : pc[q] # "none"
  /\ Goes(p, "none", "bus")
  /\ UNCHANGED <<seg, shm, fileVars, bus, cl, asked, overtaken>>

(* The process is gone: the kernel closes its ports and drops its flock.   *)
Unlock(p, odd) ==
  [s \in Procs |-> IF shm[s].flock = p
                     THEN [shm[s] EXCEPT !.flock = None, !.odd = IF odd THEN TRUE ELSE @]
                     ELSE shm[s]]

Gone(p, how) ==
  /\ pc' = [pc EXCEPT ![p] = how]
  /\ bus' = bus \ {p}
  /\ shm' = Unlock(p, FALSE)

PortsFree(p) == bus = {} \/ p \in Privileged

OpenBuses(p) ==
  /\ pc[p] = "bus"
  /\ \/ /\ PortsFree(p)
        /\ bus' = bus \cup {p}
        /\ Goes(p, "bus", "open")
        /\ UNCHANGED shm
     \/ ~PortsFree(p) /\ Gone(p, "refused")
  /\ UNCHANGED <<seg, fileVars, cl, asked, overtaken>>

(* shm_open with O_CREAT: the segment of the name, or a new, empty one.    *)
OpenSegment(p) ==
  /\ Goes(p, "open", "lock")
  /\ seg' = [seg EXCEPT ![p] = IF name = None THEN p ELSE name]
  /\ name' = seg'[p]
  /\ UNCHANGED <<shm, sems, lock, ready, bus, cl, asked, overtaken>>

(* [mutants of Unlocked] the result of flock is not looked at; a segment   *)
(* that exists already is taken for that of another instance               *)
UnlockedAnyway(s) == TRUE
UnlockedIfNew(s)  == shm[s].flock = None /\ ~shm[s].sized

Unlocked(s) == shm[s].flock = None

(* flock(LOCK_EX | LOCK_NB): "another instance is running" if it fails.    *)
Lock(p) ==
  /\ pc[p] = "lock"
  /\ \/ /\ Unlocked(seg[p])
        /\ shm' = [shm EXCEPT ![seg[p]].flock = p]
        /\ Goes(p, "lock", "clear")
        /\ overtaken' = IF name = seg[p] THEN overtaken
                                         ELSE overtaken \cup {p}
        /\ UNCHANGED bus
     \/ /\ ~Unlocked(seg[p])
        /\ Gone(p, "refused")
        /\ UNCHANGED overtaken
  /\ UNCHANGED <<seg, fileVars, cl, asked>>

(* ftruncate and memset.                                                   *)
Clear(p) ==
  /\ Goes(p, "clear", "header")
  /\ shm' = [shm EXCEPT ![seg[p]] = [NoSegment EXCEPT !.sized = TRUE,
                                                      !.flock = p]]
  /\ UNCHANGED <<seg, fileVars, bus, cl, asked, overtaken>>

(* The header, its magic number last.                                      *)
Header(p) ==
  /\ Goes(p, "header", "sems")
  /\ shm' = [shm EXCEPT ![seg[p]].magic = TRUE, ![seg[p]].by = p]
  /\ UNCHANGED <<seg, fileVars, bus, cl, asked, overtaken>>

(* What p leaves of the file x when it unlinks its name: /dev/shm is       *)
(* sticky, the files of root stay.                                         *)
Unlinked(p, x) == IF x \in Privileged /\ p \notin Privileged THEN x ELSE None

(* The time between two daemons: no call is cut in two by it.  From the    *)
(* look at the magic number to sem_open a client takes microseconds, and   *)
(* one that waits for the lock of a dead daemon gives up after 1 s; a      *)
(* killed daemon comes back after RestartSec, 2 s.                         *)
Prompt(p) ==
  \A c \in Clients :
    /\ cl[c].pc # "checked"
    /\ cl[c].seg = seg[p] => cl[c].pc # "opened"

(* sems_create: sem_unlink, then sem_open with O_EXCL.                     *)
CreateSems(p) ==
  /\ pc[p] = "sems"
  /\ Prompt(p)
  /\ \/ /\ Unlinked(p, sems) = None
        /\ sems' = p
        /\ lock' = [lock EXCEPT ![p] = 1]
        /\ Goes(p, "sems", "threads")
        /\ UNCHANGED <<name, bus, shm>>
     \/ /\ Unlinked(p, sems) # None
        /\ name' = Unlinked(p, name)
        /\ Gone(p, "refused")
        /\ UNCHANGED <<sems, lock>>
  /\ UNCHANGED <<seg, ready, cl, asked, overtaken>>

Threads(p) ==
  /\ Goes(p, "threads", "up")
  /\ UNCHANGED <<seg, shm, fileVars, bus, cl, asked, overtaken>>

(* A call fails that the environment can let fail: a port, shm_open,       *)
(* ftruncate, sem_open or pthread_create.  The magic number stays.         *)
Fail(p) ==
  /\ pc[p] \in {"bus", "open", "clear", "sems", "threads"}
  /\ Gone(p, "failed")
  /\ \/ pc[p] \in {"sems", "threads"} /\ name' = Unlinked(p, name)
                                      /\ sems' = Unlinked(p, sems)
     \/ pc[p] \in {"bus", "open", "clear"} /\ UNCHANGED <<name, sems>>
  /\ UNCHANGED <<seg, lock, ready, cl, asked, overtaken>>

(* The supervisor takes the command and answers.                           *)
Serve(p) ==
  /\ pc[p] = "up"
  /\ ready[p] > 0
  /\ ready' = [ready EXCEPT ![p] = @ - 1]
  /\ shm' = [shm EXCEPT ![seg[p]].ack = shm[seg[p]].cmd]
  /\ UNCHANGED <<pc, seg, name, sems, lock, bus, cl, asked, overtaken>>

(* SIGTERM: the threads are joined.                                        *)
Stop(p) ==
  /\ Goes(p, "up", "leaving")
  /\ UNCHANGED <<seg, shm, fileVars, bus, cl, asked, overtaken>>

DestroySems(p) ==
  /\ Goes(p, "leaving", "detach")
  /\ sems' = Unlinked(p, sems)
  /\ UNCHANGED <<seg, shm, name, lock, ready, bus, cl, asked, overtaken>>

(* [mutant of Detach] the magic number is left                             *)
DetachSilently(p) ==
  /\ Goes(p, "detach", "exit")
  /\ bus' = bus \ {p}
  /\ UNCHANGED <<seg, shm, fileVars, cl, asked, overtaken>>

(* fts_close, and "clients see the daemon is gone".                        *)
Detach(p) ==
  /\ Goes(p, "detach", "exit")
  /\ bus' = bus \ {p}
  /\ shm' = [shm EXCEPT ![seg[p]].magic = FALSE]
  /\ UNCHANGED <<seg, fileVars, cl, asked, overtaken>>

(* shm_unlink removes whatever has the name; close drops the flock.        *)
Exit(p) ==
  /\ pc[p] = "exit"
  /\ name' = Unlinked(p, name)
  /\ Gone(p, "stopped")
  /\ UNCHANGED <<seg, sems, lock, ready, cl, asked, overtaken>>

(* The control thread may be there: from pthread_create to pthread_join.   *)
Publishing(p) == pc[p] \in {"threads", "up", "leaving"}

(* SIGKILL, of the watchdog for one.  In the middle of a publication it    *)
(* leaves the sequence number odd.                                         *)
Kill(p) ==
  /\ pc[p] \in CrashAt
  /\ pc' = [pc EXCEPT ![p] = "killed"]
  /\ bus' = bus \ {p}
  /\ \/ shm' = Unlock(p, FALSE)
     \/ Publishing(p) /\ shm' = Unlock(p, TRUE)
  /\ UNCHANGED <<seg, fileVars, cl, asked, overtaken>>

Runs(p) ==
  \/ OpenBuses(p) \/ OpenSegment(p) \/ Lock(p) \/ Clear(p) \/ Header(p)
  \/ CreateSems(p) \/ Threads(p) \/ Serve(p)
  \/ DestroySems(p) \/ Detach(p) \/ Exit(p)

-----------------------------------------------------------------------------
(* A client.                                                               *)

procVars == <<pc, seg, name, sems, bus, overtaken>>

(* The end of a call: so101ctl exits, the bridge stays attached.           *)
Back(c) ==
  IF c \in Bridges THEN [cl[c] EXCEPT !.pc = "attached", !.id = 0, !.to = None]
                   ELSE NewClient

(* open and mmap: attach of so101ctl, __init__ of the Python class when    *)
(* the bridge has nothing attached or sees no magic number.  A segment of  *)
(* size 0 ends the client: SIGBUS, or a ValueError nobody catches.         *)
Map(c) ==
  /\ \/ cl[c].pc = "away" /\ name # None
     \/ cl[c].pc = "attached" /\ ~shm[cl[c].seg].magic
  /\ cl' = [cl EXCEPT ![c] =
              IF name = None THEN NewClient
              ELSE IF ~shm[name].sized THEN [NewClient EXCEPT !.pc = "dead"]
              ELSE [NewClient EXCEPT !.pc = "mapped", !.seg = name]]
  /\ UNCHANGED <<procVars, shm, lock, ready, asked>>

(* [mutant of Valid] the header is not looked at                           *)
ValidAnyway(s) == shm[s].sized

Valid(s) == shm[s].magic

(* A command begins; the daemon it is for is the one that is up now.       *)
Begun(c) ==
  [cl[c] EXCEPT !.pc = "checked", !.id = asked + 1,
                !.to = IF \E p \in Procs : pc[p] = "up"
                         THEN CHOOSE p \in Procs : pc[p] = "up" ELSE None]

(* The header is looked at.                                                *)
Verify(c) ==
  /\ cl[c].pc = "mapped"
  /\ \/ /\ Valid(cl[c].seg) /\ (c \in Calls => asked < MaxAsked)
        /\ cl' = [cl EXCEPT ![c] = IF c \in Calls THEN Begun(c) ELSE Back(c)]
        /\ asked' = IF c \in Calls THEN asked + 1 ELSE asked
     \/ /\ ~Valid(cl[c].seg) \/ (c \in Calls /\ asked = MaxAsked)
        /\ cl' = [cl EXCEPT ![c] = NewClient]
        /\ UNCHANGED asked
  /\ UNCHANGED <<procVars, shm, lock, ready>>

(* on_cmd of the bridge: _ready looks at the magic number again.           *)
OnCmd(c) ==
  /\ c \in Bridges /\ cl[c].pc = "attached"
  /\ shm[cl[c].seg].magic
  /\ asked < MaxAsked
  /\ asked' = asked + 1
  /\ cl' = [cl EXCEPT ![c] = Begun(c)]
  /\ UNCHANGED <<procVars, shm, lock, ready>>

(* The Python class opens the semaphores once.                             *)
OpenSems(c) ==
  /\ cl[c].pc = "checked"
  /\ cl' = [cl EXCEPT ![c] =
              IF @.sem # None THEN [@ EXCEPT !.pc = "opened"]
              ELSE IF sems = None THEN Back(c)
              ELSE [@ EXCEPT !.pc = "opened", !.sem = sems]]
  /\ UNCHANGED <<procVars, shm, lock, ready, asked>>

(* The lock is taken, the command written and posted.                      *)
Send(c) ==
  /\ cl[c].pc = "opened" /\ lock[cl[c].sem] > 0
  /\ lock' = [lock EXCEPT ![cl[c].sem] = @ - 1]
  /\ shm' = [shm EXCEPT ![cl[c].seg].cmd = cl[c].id]
  /\ ready' = [ready EXCEPT ![cl[c].sem] = @ + 1]
  /\ cl' = [cl EXCEPT ![c].pc = "waiting"]
  /\ UNCHANGED <<procVars, asked>>

(* "mailbox busy"                                                          *)
Busy(c) ==
  /\ cl[c].pc = "opened" /\ lock[cl[c].sem] = 0
  /\ cl' = [cl EXCEPT ![c] = Back(c)]
  /\ UNCHANGED <<procVars, shm, lock, ready, asked>>

Answered(c) == shm[cl[c].seg].ack = cl[c].id

(* The answer, or none within 1 s: a daemon that is up, or about to be,    *)
(* takes what has been posted to it sooner.  The lock is released.         *)
ReadAck(c) ==
  /\ cl[c].pc = "waiting" /\ Answered(c)
  /\ lock' = [lock EXCEPT ![cl[c].sem] = @ + 1]
  /\ cl' = [cl EXCEPT ![c] = Back(c)]
  /\ UNCHANGED <<procVars, shm, ready, asked>>

NoAnswer(c) ==
  /\ cl[c].pc = "waiting" /\ ~Answered(c)
  /\ pc[cl[c].sem] \in {"threads", "up"} => ready[cl[c].sem] = 0
  /\ lock' = [lock EXCEPT ![cl[c].sem] = @ + 1]
  /\ cl' = [cl EXCEPT ![c] = Back(c)]
  /\ UNCHANGED <<procVars, shm, ready, asked>>

(* read_raw finds the odd sequence number that a killed writer has left:   *)
(* the TimeoutError ends the node.                                         *)
ReadStuck(c) ==
  /\ c \in Bridges /\ cl[c].pc = "attached"
  /\ shm[cl[c].seg].magic /\ shm[cl[c].seg].odd
  /\ cl' = [cl EXCEPT ![c] = [NewClient EXCEPT !.pc = "dead"]]
  /\ UNCHANGED <<procVars, shm, lock, ready, asked>>

(* docker starts the node anew (--restart unless-stopped); so101ctl has    *)
(* ended.                                                                  *)
Respawn(c) ==
  /\ cl[c].pc = "dead"
  /\ cl' = [cl EXCEPT ![c] = NewClient]
  /\ UNCHANGED <<procVars, shm, lock, ready, asked>>

Continues(c) ==
  \/ Verify(c) \/ OpenSems(c) \/ Send(c) \/ Busy(c)
  \/ ReadAck(c) \/ NoAnswer(c) \/ ReadStuck(c) \/ Respawn(c)

-----------------------------------------------------------------------------

(* The last process has ended.                                             *)
Rest ==
  /\ \A p \in Procs : pc[p] \in Ended
  /\ UNCHANGED lifeVars

LifeNext ==
  \/ \E p \in Procs : Start(p) \/ Runs(p) \/ Fail(p) \/ Stop(p) \/ Kill(p)
  \/ \E c \in Clients : Map(c) \/ OnCmd(c) \/ Continues(c)
  \/ Rest

(* A process that runs goes on, so does a call; the bridge retries to      *)
(* attach every second.                                                    *)
LifeSpec ==
  /\ LifeInit /\ [][LifeNext]_lifeVars
  /\ \A p \in Procs : WF_lifeVars(Runs(p))
  /\ \A c \in Clients : WF_lifeVars(Continues(c))
  /\ \A c \in Bridges : WF_lifeVars(Map(c))

-----------------------------------------------------------------------------
(* Properties.                                                             *)

(* A segment that looks alive though its name is gone: that of a process   *)
(* that could not start.                                                   *)
Abandoned(s) ==
  shm[s].magic /\ name # s /\ pc[shm[s].by] \in {"failed", "refused"}

Driving ==
  {p \in Procs : pc[p] \in {"clear", "header", "sems", "threads", "up", "leaving",
                            "detach"}}

(* Two processes never drive the arms at the same time, root or not:       *)
(* TIOCEXCL stops users and the flock stops root, and two never use the    *)
(* same segment.  The flock fails to stop root only once a process has     *)
(* locked a segment whose name was removed between its shm_open and its    *)
(* flock (see the README): it then drives beside the owner of the name, or *)
(* unlinks that one's name for a third to start beside.                    *)
OneInstance ==
  \A p, q \in Driving : p # q => /\ seg[p] # seg[q]
                                 /\ {p, q} \cap Privileged # {}
                                 /\ overtaken # {}

(* Clients find a daemon that is up: the names lead to the segment it      *)
(* publishes in, which is valid, and to the semaphores it waits on,        *)
(* whatever earlier processes left behind or did since; unless a process   *)
(* has been overtaken (see OneInstance).                                   *)
Reachable ==
  \A p \in Procs :
    pc[p] = "up" /\ overtaken = {} =>
      /\ name = seg[p] /\ sems = p
      /\ shm[seg[p]].magic /\ shm[seg[p]].by = p /\ shm[seg[p]].flock = p

(* A process that starts while no other is alive comes up, whatever a      *)
(* killed one has left: unless a system call fails, it is killed, another  *)
(* one is started beside it, or the semaphores are those of root.          *)
ComesUp ==
  \A p \in Procs :
    (pc[p] = "bus" /\ \A q \in Procs \ {p} : ~Alive(q)) ~>
      \/ pc[p] \in {"up", "failed", "killed"}
      \/ \E q \in Procs \ {p} : Alive(q)
      \/ sems \in Privileged /\ p \notin Privileged

(* The bridge finds the daemon that is there to stay and attaches to its   *)
(* segment by itself, however many have come and gone; unless the bridge   *)
(* is attached to a segment that a failed start has left looking alive, or *)
(* a process has been overtaken.                                           *)
BridgeFollows ==
  \A p \in Procs, b \in Bridges :
    <>[](pc[p] = "up") => <>[](\/ cl[b].seg = seg[p]
                               \/ \E s \in Procs : Abandoned(s)
                               \/ overtaken # {})

(* The supervisor is only ever woken for a command it has not served yet:  *)
(* no post of a client of an earlier daemon makes it take the last command *)
(* of its own mailbox again.  Same exceptions.                             *)
NoReplay ==
  [][\A p \in Procs : Serve(p) =>
       \/ shm[seg[p]].cmd # shm[seg[p]].ack
       \/ \E s \in Procs : Abandoned(s)
       \/ overtaken # {}]_lifeVars

(* A client whose segment has been cleared for another daemon and that     *)
(* still has the semaphores of the earlier one.                            *)
Outdated(c) == cl[c].sem # None /\ pc[cl[c].sem] \in Ended

Unanswered(c) == NoAnswer(c) /\ cl[c].to # None /\ pc[cl[c].to] = "up"

(* A call of so101ctl made while a daemon is up is answered if that one    *)
(* stays up; unless a client that is outdated writes into the same mailbox *)
(* meanwhile.  Same exceptions.                                            *)
CallsAnswered ==
  [][\A c \in Calls : Unanswered(c) =>
       \/ \E b \in Bridges : Outdated(b)
       \/ \E s \in Procs : Abandoned(s)
       \/ overtaken # {}]_lifeVars

(* The same of the bridge, which its file says "keeps running and          *)
(* re-attaches to the new shared-memory segment by itself".                *)
BridgeAnswered ==
  [][\A b \in Bridges : Unanswered(b) =>
       \/ \E s \in Procs : Abandoned(s)
       \/ overtaken # {}]_lifeVars

=============================================================================

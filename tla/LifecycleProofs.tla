-------------------------- MODULE LifecycleProofs --------------------------
(***************************************************************************)
(* One instance of so101d drives the arms, clients find it, it serves no   *)
(* command twice and calls are answered: for any number of starts, by root *)
(* or not, any number of clients, and deaths at any place.                 *)
(*                                                                         *)
(* The argument is the flock: whoever has passed it owns the segment it    *)
(* opened until it is gone.  As long as everyone who passed it did so      *)
(* under the name of the segment, there is one owner at most, because      *)
(* there is one name, and nobody else unlinks that name.                   *)
(***************************************************************************)
EXTENDS Lifecycle, TLAPS

(* From flock to the end, from fts_open to fts_close, from the magic       *)
(* number to its removal, and with semaphores.                             *)
Locked == {"clear", "header", "sems", "threads", "up", "leaving", "detach", "exit"}
OnBus  == {"open", "lock", "clear", "header", "sems", "threads", "up", "leaving", "detach"}
Headed == {"sems", "threads", "up", "leaving", "detach"}
Served == {"threads", "up", "leaving"}

Places == {"none", "bus", "open", "lock", "exit"} \cup Locked \cup Ended

Segments ==
  [sized : BOOLEAN, magic : BOOLEAN, odd : BOOLEAN, by : 0 .. MaxStarts,
   flock : 0 .. MaxStarts, cmd : Nat, ack : Nat]

Sessions ==
  [pc : {"away", "mapped", "dead", "checked", "opened", "waiting", "attached"},
   seg : 0 .. MaxStarts, sem : 0 .. MaxStarts, id : Nat, to : 0 .. MaxStarts]

LifeTypeOK ==
  /\ pc \in [Procs -> Places]
  /\ seg \in [Procs -> 0 .. MaxStarts]
  /\ shm \in [Procs -> Segments]
  /\ name \in 0 .. MaxStarts /\ sems \in 0 .. MaxStarts
  /\ bus \subseteq Procs /\ overtaken \subseteq Procs
  /\ asked \in Nat
  /\ cl \in [Clients -> Sessions]

(* A process owns what it has opened.                                      *)
Owns(p) ==
  /\ pc[p] \in Locked \cup {"lock"} => seg[p] \in Procs
  /\ pc[p] \in Locked => shm[seg[p]].flock = p
  /\ pc[p] \in Headed => shm[seg[p]].magic /\ shm[seg[p]].by = p
  /\ pc[p] \in OnBus => p \in bus

(* Two processes on the ports: one of them is root's.                      *)
BusInv == \A p, q \in bus : p # q => {p, q} \cap Privileged # {}

(* The names are those of the process that owns the segment.               *)
NameInv ==
  overtaken = {} => \A p \in Procs : /\ pc[p] \in Locked => name = seg[p]
                                     /\ pc[p] \in Served => sems = p

LifeInv == LifeTypeOK /\ (\A p \in Procs : Owns(p)) /\ BusInv /\ NameInv

-----------------------------------------------------------------------------

LEMMA ProcsType == Procs = 1 .. MaxStarts /\ MaxStarts \in Nat /\ None = 0 /\ None \notin Procs
BY LifecycleAssumption DEF Procs, None

LEMMA InitLife == LifeInit => LifeInv
<1> SUFFICES ASSUME LifeInit PROVE LifeInv
  OBVIOUS
<1>1. NoSegment \in Segments
  BY ProcsType DEF NoSegment, Segments
<1>2. LifeTypeOK
  BY <1>1, ProcsType DEF LifeInit, LifeTypeOK, Places, NewClient, Sessions
<1>3. \A p \in Procs : pc[p] = "none"
  BY DEF LifeInit
<1> QED
  BY <1>2, <1>3 DEF LifeInit, LifeInv, Owns, BusInv, NameInv, Locked, OnBus, Headed, Served

(* The kernel drops the flock of a process that is gone, and no other.     *)
LEMMA UnlockType ==
  ASSUME shm \in [Procs -> Segments], NEW p \in Procs, NEW odd \in BOOLEAN
  PROVE  /\ Unlock(p, odd) \in [Procs -> Segments]
         /\ \A s \in Procs : /\ Unlock(p, odd)[s].magic = shm[s].magic
                             /\ Unlock(p, odd)[s].by = shm[s].by
                             /\ shm[s].flock # p => Unlock(p, odd)[s].flock = shm[s].flock
<1> SUFFICES ASSUME NEW s \in Procs
             PROVE  /\ Unlock(p, odd)[s] \in Segments
                    /\ Unlock(p, odd)[s].magic = shm[s].magic
                    /\ Unlock(p, odd)[s].by = shm[s].by
                    /\ shm[s].flock # p => Unlock(p, odd)[s].flock = shm[s].flock
  BY DEF Unlock
<1>1. shm[s] \in Segments /\ None \in 0 .. MaxStarts
  BY ProcsType
<1>2. CASE shm[s].flock = p
  <2>1. Unlock(p, odd)[s] = [shm[s] EXCEPT !.flock = None, !.odd = IF odd THEN TRUE ELSE @]
    BY <1>2 DEF Unlock
  <2> QED
    BY <1>1, <1>2, <2>1 DEF Segments
<1>3. CASE shm[s].flock # p
  <2>1. Unlock(p, odd)[s] = shm[s]
    BY <1>3 DEF Unlock
  <2> QED
    BY <1>1, <2>1
<1> QED
  BY <1>2, <1>3

-----------------------------------------------------------------------------
(* Types.                                                                  *)

(* The steps of a process that change a segment.                           *)
LEMMA GoneType ==
  ASSUME LifeTypeOK, NEW p \in Procs, NEW how \in Ended, Gone(p, how)
  PROVE  /\ pc' \in [Procs -> Places] /\ pc' = [pc EXCEPT ![p] = how]
         /\ shm' \in [Procs -> Segments] /\ bus' \subseteq Procs
BY UnlockType DEF Gone, LifeTypeOK, Places

LEMMA ProcType ==
  ASSUME LifeTypeOK, NEW p \in Procs,
         Start(p) \/ Runs(p) \/ Fail(p) \/ Stop(p) \/ Kill(p)
  PROVE  LifeTypeOK'
<1> USE DEF LifeTypeOK
<1>0. None \in 0 .. MaxStarts /\ p \in 0 .. MaxStarts
  BY ProcsType
<1>1. CASE Start(p) \/ Threads(p) \/ Stop(p)
  BY <1>1 DEF Start, Threads, Stop, Goes, fileVars, Places, Locked
<1>2. CASE OpenBuses(p)
  <2>1. pc' \in [Procs -> Places] /\ shm' \in [Procs -> Segments] /\ bus' \subseteq Procs
    BY <1>2, GoneType DEF OpenBuses, Goes, Places, Ended
  <2> QED
    BY <1>2, <2>1 DEF OpenBuses, fileVars
<1>3. CASE OpenSegment(p)
  <2>1. seg' \in [Procs -> 0 .. MaxStarts] /\ name' \in 0 .. MaxStarts
    BY <1>0, <1>3 DEF OpenSegment
  <2> QED
    BY <1>3, <2>1 DEF OpenSegment, Goes, Places
<1>4. CASE Lock(p)
  <2>1. /\ pc' \in [Procs -> Places] /\ shm' \in [Procs -> Segments]
        /\ bus' \subseteq Procs /\ overtaken' \subseteq Procs
    <3>1. CASE Gone(p, "refused") /\ UNCHANGED overtaken
      BY <3>1, GoneType DEF Ended
    <3>2. CASE /\ shm' = [shm EXCEPT ![seg[p]].flock = p]
               /\ Goes(p, "lock", "clear")
               /\ overtaken' = IF name = seg[p] THEN overtaken ELSE overtaken \cup {p}
               /\ UNCHANGED bus
      <4>1. shm' \in [Procs -> Segments]
        BY <1>0, <3>2 DEF Segments
      <4> QED
        BY <3>2, <4>1 DEF Goes, Places, Locked
    <3> QED
      BY <1>4, <3>1, <3>2 DEF Lock
  <2> QED
    BY <1>4, <2>1 DEF Lock, fileVars
<1>5. CASE Clear(p)
  <2>1. [NoSegment EXCEPT !.sized = TRUE, !.flock = p] \in Segments
    BY <1>0 DEF NoSegment, Segments, None
  <2>2. shm' \in [Procs -> Segments]
    BY <1>5, <2>1 DEF Clear
  <2> QED
    BY <1>5, <2>2 DEF Clear, Goes, Places, Locked, fileVars
<1>6. CASE Header(p)
  <2> DEFINE mid == [shm EXCEPT ![seg[p]].magic = TRUE]
  <2>1. mid \in [Procs -> Segments]
    BY DEF Segments
  <2>2. shm' = [mid EXCEPT ![seg[p]].by = p]
    BY <1>6 DEF Header
  <2> HIDE DEF mid
  <2>3. shm' \in [Procs -> Segments]
    BY <1>0, <2>1, <2>2 DEF Segments
  <2> QED
    BY <1>6, <2>3 DEF Header, Goes, Places, Locked, fileVars
<1>7. CASE CreateSems(p)
  <2>1. name' \in 0 .. MaxStarts /\ sems' \in 0 .. MaxStarts
    BY <1>0, <1>7 DEF CreateSems, Unlinked
  <2>2. pc' \in [Procs -> Places] /\ shm' \in [Procs -> Segments] /\ bus' \subseteq Procs
    BY <1>7, GoneType DEF CreateSems, Goes, Places, Locked, Ended
  <2> QED
    BY <1>7, <2>1, <2>2 DEF CreateSems
<1>8. CASE Fail(p)
  <2>1. name' \in 0 .. MaxStarts /\ sems' \in 0 .. MaxStarts
    BY <1>0, <1>8 DEF Fail, Unlinked
  <2>2. pc' \in [Procs -> Places] /\ shm' \in [Procs -> Segments] /\ bus' \subseteq Procs
    BY <1>8, GoneType DEF Fail, Ended
  <2> QED
    BY <1>8, <2>1, <2>2 DEF Fail
<1>9. CASE Serve(p)
  <2>1. shm' \in [Procs -> Segments]
    BY <1>9 DEF Serve, Segments
  <2> QED
    BY <1>9, <2>1 DEF Serve
<1>10. CASE DestroySems(p)
  BY <1>0, <1>10 DEF DestroySems, Unlinked, Goes, Places, Locked
<1>11. CASE Detach(p)
  <2>1. shm' \in [Procs -> Segments]
    BY <1>11 DEF Detach, Segments
  <2> QED
    BY <1>11, <2>1 DEF Detach, Goes, Places, fileVars
<1>12. CASE Exit(p)
  <2>1. name' \in 0 .. MaxStarts
    BY <1>0, <1>12 DEF Exit, Unlinked
  <2> QED
    BY <1>12, <2>1, GoneType DEF Exit, Ended
<1>13. CASE Kill(p)
  <2>1. shm' \in [Procs -> Segments]
    <3>1. shm' = Unlock(p, FALSE) \/ shm' = Unlock(p, TRUE)
      BY <1>13 DEF Kill
    <3> QED
      BY <3>1, UnlockType
  <2> QED
    BY <1>13, <2>1 DEF Kill, Places, Ended, fileVars
<1> QED
  BY <1>1, <1>2, <1>3, <1>4, <1>5, <1>6, <1>7, <1>8, <1>9, <1>10, <1>11, <1>12, <1>13
     DEF Runs

(* What becomes of the session of a client.                                *)
LEMMA SessionType ==
  ASSUME NEW r \in Sessions, NEW n \in Nat, NEW t \in 0 .. MaxStarts
  PROVE  /\ [r EXCEPT !.pc = "checked", !.id = n, !.to = t] \in Sessions
         /\ [r EXCEPT !.pc = "attached", !.id = n, !.to = t] \in Sessions
         /\ [r EXCEPT !.pc = "opened"] \in Sessions
         /\ [r EXCEPT !.pc = "opened", !.sem = t] \in Sessions
         /\ [r EXCEPT !.pc = "waiting"] \in Sessions
         /\ [r EXCEPT !.pc = "dead"] \in Sessions
         /\ [r EXCEPT !.pc = "mapped", !.seg = t] \in Sessions
BY DEF Sessions

(* A client changes nothing of a segment but its command.                  *)
LEMMA ClientStep ==
  ASSUME LifeTypeOK, NEW c \in Clients, Map(c) \/ OnCmd(c) \/ Continues(c)
  PROVE  /\ LifeTypeOK'
         /\ UNCHANGED procVars
         /\ \A s \in Procs : /\ shm'[s].flock = shm[s].flock
                             /\ shm'[s].magic = shm[s].magic
                             /\ shm'[s].by = shm[s].by
<1>0. None \in 0 .. MaxStarts /\ Procs \subseteq 0 .. MaxStarts /\ 0 \in Nat
      /\ cl[c] \in Sessions
      /\ name \in 0 .. MaxStarts /\ sems \in 0 .. MaxStarts /\ asked \in Nat
  BY ProcsType DEF LifeTypeOK
<1>1. NewClient \in Sessions
  BY <1>0 DEF NewClient, Sessions
<1>2. Back(c) \in Sessions
  BY <1>0, <1>1, SessionType DEF Back
<1>3. Begun(c) \in Sessions
  <2>1. PICK to \in 0 .. MaxStarts :
          to = IF \E p \in Procs : pc[p] = "up" THEN CHOOSE p \in Procs : pc[p] = "up"
                                                ELSE None
    BY <1>0
  <2>2. PICK id \in Nat : id = asked + 1
    BY <1>0
  <2>3. Begun(c) = [cl[c] EXCEPT !.pc = "checked", !.id = id, !.to = to]
    BY <2>1, <2>2 DEF Begun
  <2>4. [cl[c] EXCEPT !.pc = "checked", !.id = id, !.to = to] \in Sessions
    BY <1>0, SessionType, Zenon
  <2> QED
    BY <2>3, <2>4, Zenon
<1>4. UNCHANGED procVars
  BY DEF Map, OnCmd, Continues, Verify, OpenSems, Send, Busy, ReadAck, NoAnswer, ReadStuck,
         Respawn
<1>5. asked' \in Nat
  BY <1>0 DEF Map, OnCmd, Continues, Verify, OpenSems, Send, Busy, ReadAck, NoAnswer,
              ReadStuck, Respawn
<1>6. cl' \in [Clients -> Sessions]
  <2>0. cl \in [Clients -> Sessions]
    BY DEF LifeTypeOK
  <2>1. CASE OnCmd(c) \/ Verify(c) \/ Busy(c) \/ ReadAck(c) \/ NoAnswer(c) \/ Respawn(c)
    BY <1>1, <1>2, <1>3, <2>0, <2>1
       DEF OnCmd, Verify, Busy, ReadAck, NoAnswer, Respawn
  <2>2. CASE OpenSems(c) \/ ReadStuck(c) \/ Map(c)
    <3>1. PICK r \in {Back(c), NewClient, [NewClient EXCEPT !.pc = "dead"],
                      [NewClient EXCEPT !.pc = "mapped", !.seg = name],
                      [cl[c] EXCEPT !.pc = "opened"],
                      [cl[c] EXCEPT !.pc = "opened", !.sem = sems]} :
            cl' = [cl EXCEPT ![c] = r]
      BY <2>2 DEF OpenSems, ReadStuck, Map
    <3>2. /\ [NewClient EXCEPT !.pc = "dead"] \in Sessions
          /\ [NewClient EXCEPT !.pc = "mapped", !.seg = name] \in Sessions
      BY <1>0, <1>1, SessionType, Zenon
    <3>3. /\ [cl[c] EXCEPT !.pc = "opened"] \in Sessions
          /\ [cl[c] EXCEPT !.pc = "opened", !.sem = sems] \in Sessions
      BY <1>0, SessionType, Zenon
    <3>4. r \in Sessions
      BY <1>1, <1>2, <3>2, <3>3, Zenon
    <3> QED
      BY <2>0, <3>1, <3>4
  <2>3. CASE Send(c)
    <3>1. cl' = [cl EXCEPT ![c] = [cl[c] EXCEPT !.pc = "waiting"]]
      BY <2>3 DEF Send
    <3> QED
      BY <1>0, <2>0, <3>1, SessionType
  <2> QED
    BY <2>1, <2>2, <2>3 DEF Continues
<1>7. /\ shm' \in [Procs -> Segments]
      /\ \A s \in Procs : /\ shm'[s].flock = shm[s].flock
                          /\ shm'[s].magic = shm[s].magic
                          /\ shm'[s].by = shm[s].by
  <2>0. shm \in [Procs -> Segments] /\ cl[c].id \in Nat
    BY <1>0 DEF LifeTypeOK, Sessions
  <2>1. CASE Send(c)
    <3>1. shm' = [shm EXCEPT ![cl[c].seg].cmd = cl[c].id]
      BY <2>1 DEF Send
    <3> QED
      BY <2>0, <3>1 DEF Segments
  <2>2. CASE UNCHANGED shm
    BY <2>0, <2>2
  <2> QED
    BY <2>1, <2>2 DEF Map, OnCmd, Continues, Verify, OpenSems, Busy, ReadAck, NoAnswer,
                      ReadStuck, Respawn
<1> QED
  BY <1>4, <1>5, <1>6, <1>7 DEF LifeTypeOK, procVars

-----------------------------------------------------------------------------
(* Ownership.                                                              *)

ProcStep(p) == Start(p) \/ Runs(p) \/ Fail(p) \/ Stop(p) \/ Kill(p)

(* A process changes no segment that another has locked.                   *)
LEMMA OthersSegments ==
  ASSUME LifeTypeOK, NEW p \in Procs, Owns(p), ProcStep(p),
         NEW q \in Procs \ {p}, NEW s \in Procs, shm[s].flock = q
  PROVE  shm'[s].flock = q /\ shm'[s].magic = shm[s].magic /\ shm'[s].by = shm[s].by
<1> USE DEF LifeTypeOK
<1>0. q # p /\ None # q
  BY ProcsType
<1>1. CASE shm'[s] = shm[s]
  BY <1>1
<1>2. CASE \E odd \in BOOLEAN : shm' = Unlock(p, odd)
  BY <1>0, <1>2, UnlockType
<1>3. CASE Lock(p) /\ pc' = [pc EXCEPT ![p] = "clear"]
  <2>1. CASE shm' = [shm EXCEPT ![seg[p]].flock = p] /\ Unlocked(seg[p])
    <3>1. s # seg[p]
      BY <1>0, <2>1 DEF Unlocked
    <3> QED
      BY <1>1, <2>1, <3>1
  <2>2. CASE Gone(p, "refused")
    BY <1>2, <2>2 DEF Gone
  <2> QED
    BY <1>3, <2>1, <2>2 DEF Lock
<1>4. CASE pc[p] \in Locked /\ s # seg[p] /\ \A t \in Procs : t # seg[p] => shm'[t] = shm[t]
  BY <1>1, <1>4
<1>5. pc[p] \in Locked => s # seg[p]
  BY <1>0 DEF Owns
<1>6. CASE Clear(p) \/ Header(p) \/ Serve(p) \/ Detach(p)
  <2>1. pc[p] \in Locked
    BY <1>6 DEF Clear, Header, Serve, Detach, Goes, Locked
  <2>2. \A t \in Procs : t # seg[p] => shm'[t] = shm[t]
    BY <1>6 DEF Clear, Header, Serve, Detach
  <2> QED
    BY <1>4, <1>5, <2>1, <2>2
<1>7. CASE Start(p) \/ Threads(p) \/ Stop(p) \/ OpenSegment(p) \/ DestroySems(p)
  BY <1>1, <1>7 DEF Start, Threads, Stop, OpenSegment, DestroySems
<1>8. CASE OpenBuses(p) \/ CreateSems(p) \/ Fail(p) \/ Exit(p) \/ Kill(p)
  <2>1. \/ UNCHANGED shm
        \/ \E odd \in BOOLEAN : shm' = Unlock(p, odd)
    BY <1>8 DEF OpenBuses, CreateSems, Fail, Exit, Kill, Gone
  <2> QED
    BY <1>1, <1>2, <2>1
<1>9. CASE Lock(p)
  <2>1. CASE Gone(p, "refused")
    BY <1>2, <2>1 DEF Gone
  <2>2. CASE Goes(p, "lock", "clear")
    BY <1>3, <1>9, <2>2 DEF Goes
  <2> QED
    BY <1>9, <2>1, <2>2 DEF Lock
<1> QED
  BY <1>6, <1>7, <1>8, <1>9 DEF ProcStep, Runs

(* Nor where another process is, what it has opened, or its ports.         *)
LEMMA OthersPlaces ==
  ASSUME LifeTypeOK, NEW p \in Procs, ProcStep(p), NEW q \in Procs \ {p}
  PROVE  pc'[q] = pc[q] /\ seg'[q] = seg[q] /\ (q \in bus => q \in bus')
<1> USE DEF LifeTypeOK
<1>1. pc'[q] = pc[q]
  BY DEF ProcStep, Start, Runs, Fail, Stop, Kill, OpenBuses, OpenSegment, Lock, Clear, Header,
         CreateSems, Threads, Serve, DestroySems, Detach, Exit, Goes, Gone
<1>2. seg'[q] = seg[q]
  BY DEF ProcStep, Start, Runs, Fail, Stop, Kill, OpenBuses, OpenSegment, Lock, Clear, Header,
         CreateSems, Threads, Serve, DestroySems, Detach, Exit
<1>3. q \in bus => q \in bus'
  BY DEF ProcStep, Start, Runs, Fail, Stop, Kill, OpenBuses, OpenSegment, Lock, Clear, Header,
         CreateSems, Threads, Serve, DestroySems, Detach, Exit, Gone
<1> QED
  BY <1>1, <1>2, <1>3

LEMMA OthersOwn ==
  ASSUME LifeTypeOK, NEW p \in Procs, Owns(p), ProcStep(p), NEW q \in Procs \ {p}, Owns(q)
  PROVE  Owns(q)'
<1>1. pc'[q] = pc[q] /\ seg'[q] = seg[q] /\ (q \in bus => q \in bus')
  BY OthersPlaces
<1>2. pc[q] \in Locked => /\ shm'[seg[q]].flock = q
                          /\ shm'[seg[q]].magic = shm[seg[q]].magic
                          /\ shm'[seg[q]].by = shm[seg[q]].by
  BY OthersSegments DEF Owns
<1> QED
  BY <1>1, <1>2 DEF Owns, Headed, Locked

(* What a process owns itself.                                             *)
LEMMA ProcOwns ==
  ASSUME LifeTypeOK, NEW p \in Procs, Owns(p), ProcStep(p)
  PROVE  Owns(p)'
<1> USE DEF LifeTypeOK
<1>0. p # None /\ p \in 0 .. MaxStarts /\ None = 0 /\ Procs = 1 .. MaxStarts /\ MaxStarts \in Nat
  BY ProcsType
<1>1. CASE pc'[p] \in Ended \cup {"none", "bus"}
  BY <1>1 DEF Owns, Locked, OnBus, Headed, Ended
<1>2. CASE Gone(p, "refused") \/ Gone(p, "stopped") \/ Gone(p, "failed") \/ Kill(p) \/ Start(p)
  BY <1>1, <1>2 DEF Gone, Kill, Start, Goes, Ended
<1>3. CASE OpenBuses(p)
  BY <1>2, <1>3 DEF OpenBuses, Goes, Owns, Locked, OnBus, Headed
<1>4. CASE OpenSegment(p)
  <2>1. seg'[p] \in Procs
    BY <1>0, <1>4 DEF OpenSegment
  <2>2. pc[p] = "open" /\ pc'[p] = "lock" /\ UNCHANGED bus
    BY <1>4 DEF OpenSegment, Goes
  <2> QED
    BY <2>1, <2>2 DEF Owns, Locked, OnBus, Headed
<1>5. CASE Lock(p) /\ ~Gone(p, "refused")
  <2>1. /\ shm' = [shm EXCEPT ![seg[p]].flock = p]
        /\ pc[p] = "lock" /\ pc'[p] = "clear" /\ UNCHANGED <<bus, seg>>
    BY <1>5 DEF Lock, Goes
  <2>2. seg[p] \in Procs
    BY <2>1 DEF Owns
  <2>3. shm'[seg[p]].flock = p
    BY <2>1, <2>2 DEF Segments
  <2> QED
    BY <2>1, <2>2, <2>3 DEF Owns, Locked, OnBus, Headed
<1>6. CASE Clear(p)
  <2>1. /\ shm' = [shm EXCEPT ![seg[p]] = [NoSegment EXCEPT !.sized = TRUE, !.flock = p]]
        /\ pc[p] = "clear" /\ pc'[p] = "header" /\ UNCHANGED <<bus, seg>>
    BY <1>6 DEF Clear, Goes
  <2>2. seg[p] \in Procs /\ p \in bus
    BY <2>1 DEF Owns, Locked, OnBus
  <2>3. shm'[seg[p]].flock = p
    BY <2>1, <2>2 DEF NoSegment
  <2> QED
    BY <2>1, <2>2, <2>3 DEF Owns, Locked, OnBus, Headed
<1>7. CASE Header(p)
  <2>1. /\ shm' = [shm EXCEPT ![seg[p]].magic = TRUE, ![seg[p]].by = p]
        /\ pc[p] = "header" /\ pc'[p] = "sems" /\ UNCHANGED <<bus, seg>>
    BY <1>7 DEF Header, Goes
  <2>2. seg[p] \in Procs /\ p \in bus /\ shm[seg[p]].flock = p
    BY <2>1 DEF Owns, Locked, OnBus
  <2>3. shm'[seg[p]].flock = p /\ shm'[seg[p]].magic = TRUE /\ shm'[seg[p]].by = p
    BY <2>1, <2>2 DEF Segments
  <2> QED
    BY <2>1, <2>2, <2>3 DEF Owns, Locked, OnBus, Headed
<1>8. CASE CreateSems(p) /\ ~Gone(p, "refused")
  <2>1. pc[p] = "sems" /\ pc'[p] = "threads" /\ UNCHANGED <<bus, seg, shm>>
    BY <1>8 DEF CreateSems, Goes
  <2> QED
    BY <2>1 DEF Owns, Locked, OnBus, Headed
<1>9. CASE Threads(p) \/ Stop(p) \/ DestroySems(p)
  <2>1. /\ pc[p] \in {"threads", "up", "leaving"} /\ pc'[p] \in {"up", "leaving", "detach"}
        /\ UNCHANGED <<bus, seg, shm>>
    BY <1>9 DEF Threads, Stop, DestroySems, Goes
  <2> QED
    BY <2>1 DEF Owns, Locked, OnBus, Headed
<1>10. CASE Serve(p)
  <2>1. /\ shm' = [shm EXCEPT ![seg[p]].ack = shm[seg[p]].cmd]
        /\ pc[p] = "up" /\ UNCHANGED <<pc, bus, seg>>
    BY <1>10 DEF Serve
  <2>2. seg[p] \in Procs
    BY <2>1 DEF Owns, Locked
  <2>3. /\ shm'[seg[p]].flock = shm[seg[p]].flock
        /\ shm'[seg[p]].magic = shm[seg[p]].magic
        /\ shm'[seg[p]].by = shm[seg[p]].by
    BY <2>1, <2>2 DEF Segments
  <2> QED
    BY <2>1, <2>2, <2>3 DEF Owns
<1>11. CASE Detach(p)
  <2>1. /\ shm' = [shm EXCEPT ![seg[p]].magic = FALSE]
        /\ pc[p] = "detach" /\ pc'[p] = "exit" /\ UNCHANGED seg
    BY <1>11 DEF Detach, Goes
  <2>2. seg[p] \in Procs /\ shm[seg[p]].flock = p
    BY <2>1 DEF Owns, Locked
  <2>3. shm'[seg[p]].flock = p
    BY <2>1, <2>2 DEF Segments
  <2> QED
    BY <2>1, <2>2, <2>3 DEF Owns, Locked, OnBus, Headed
<1>12. CASE Fail(p) \/ Exit(p)
  BY <1>2, <1>12 DEF Fail, Exit
<1> QED
  BY <1>2, <1>3, <1>4, <1>5, <1>6, <1>7, <1>8, <1>9, <1>10, <1>11, <1>12
     DEF ProcStep, Runs

(* TIOCEXCL: only root opens a port that is open.                          *)
LEMMA ProcBus ==
  ASSUME NEW p \in Procs, BusInv, ProcStep(p)
  PROVE  BusInv'
<1>1. CASE OpenBuses(p)
  BY <1>1 DEF OpenBuses, PortsFree, Gone, BusInv
<1>2. CASE ~OpenBuses(p)
  <2>1. bus' \subseteq bus
    BY <1>2 DEF ProcStep, Start, Runs, Fail, Stop, Kill, OpenSegment, Lock, Clear, Header,
         CreateSems, Threads, Serve, DestroySems, Detach, Exit, Gone
  <2> QED
    BY <2>1 DEF BusInv
<1> QED
  BY <1>1, <1>2

-----------------------------------------------------------------------------
(* The names.                                                              *)

(* Who passed the flock under the name of the segment is alone.            *)
LEMMA SoleOwner ==
  ASSUME LifeInv, overtaken = {},
         NEW p \in Procs, NEW q \in Procs, pc[p] \in Locked, pc[q] \in Locked
  PROVE  p = q
BY DEF LifeInv, NameInv, Owns

LEMMA ProcNames ==
  ASSUME LifeInv, LifeTypeOK', NEW p \in Procs, ProcStep(p)
  PROVE  NameInv'
<1> SUFFICES ASSUME overtaken' = {}, NEW q \in Procs
             PROVE  /\ pc'[q] \in Locked => name' = seg'[q]
                    /\ pc'[q] \in Served => sems' = q
  BY DEF NameInv
<1> USE DEF LifeTypeOK
<1>0. LifeTypeOK
  BY DEF LifeInv
<1>1. overtaken = {}
  BY DEF ProcStep, Start, Runs, Fail, Stop, Kill, OpenBuses, OpenSegment, Lock, Clear, Header,
         CreateSems, Threads, Serve, DestroySems, Detach, Exit
<1>2. /\ pc[q] \in Locked => name = seg[q] /\ seg[q] \in Procs
      /\ pc[q] \in Served => sems = q
  BY <1>1 DEF LifeInv, NameInv, Owns
<1>3. Served \subseteq Locked
  BY DEF Served, Locked
<1>4. CASE q # p
  <2>1. pc'[q] = pc[q] /\ seg'[q] = seg[q]
    BY <1>0, <1>4, OthersPlaces
  <2>2. CASE pc[p] \in Locked
    BY <1>1, <1>3, <1>4, <2>1, <2>2, SoleOwner
  <2>3. CASE OpenSegment(p)
    <3>1. UNCHANGED sems /\ (name # None => name' = name)
      BY <1>0, <2>3 DEF OpenSegment
    <3> QED
      BY <1>2, <1>3, <2>1, <3>1, ProcsType
  <2>4. CASE pc[p] \notin Locked /\ ~OpenSegment(p)
    <3>1. UNCHANGED <<name, sems>>
      BY <2>4 DEF ProcStep, Start, Runs, Fail, Stop, Kill, OpenBuses, Lock, Clear, Header,
         CreateSems, Threads, Serve, DestroySems, Detach, Exit, Goes, Locked, fileVars
    <3> QED
      BY <1>2, <2>1, <3>1
  <2> QED
    BY <2>2, <2>3, <2>4
<1>5. CASE q = p /\ ~CreateSems(p) /\ ~Lock(p) /\ pc'[p] \in Locked
  <2>1. UNCHANGED <<name, seg>> /\ pc[p] \in Locked /\ (pc'[p] \in Served => pc[p] \in Served)
    BY <1>0, <1>5
       DEF ProcStep, Start, Runs, Fail, Stop, Kill, OpenBuses, OpenSegment, Clear, Header,
         Threads, Serve, DestroySems, Detach, Exit, Goes, Gone, Locked, Served, Ended, fileVars
  <2>2. pc'[p] \in Served => UNCHANGED sems
    BY <1>0, <1>5
       DEF ProcStep, Start, Runs, Fail, Stop, Kill, OpenBuses, OpenSegment, Clear, Header,
         Threads, Serve, DestroySems, Detach, Exit, Goes, Gone, Served, Ended, fileVars
  <2> QED
    BY <1>2, <1>5, <2>1, <2>2
<1>6. CASE q = p /\ CreateSems(p) /\ pc'[p] \in Locked
  <2>1. sems' = p /\ UNCHANGED <<name, seg>> /\ pc[p] \in Locked
    BY <1>0, <1>6 DEF CreateSems, Goes, Gone, Locked, Ended
  <2> QED
    BY <1>2, <1>6, <2>1
<1>7. CASE q = p /\ Lock(p) /\ pc'[p] \in Locked
  <2>1. name = seg[p] /\ UNCHANGED <<name, seg>> /\ pc'[p] = "clear"
    BY <1>0, <1>7 DEF Lock, Goes, Gone, Locked, Ended, fileVars
  <2> QED
    BY <1>7, <2>1 DEF Served
<1> QED
  BY <1>3, <1>4, <1>5, <1>6, <1>7

(* LifeInv is an invariant.                                                *)
THEOREM LifeInvariant == LifeInit /\ [][LifeNext]_lifeVars => []LifeInv
<1>1. ASSUME LifeInv, [LifeNext]_lifeVars
      PROVE  LifeInv'
  <2> USE DEF LifeInv
  <2>1. CASE \E p \in Procs : Start(p) \/ Runs(p) \/ Fail(p) \/ Stop(p) \/ Kill(p)
    <3>1. PICK p \in Procs : ProcStep(p)
      BY <2>1 DEF ProcStep
    <3>2. LifeTypeOK'
      BY <1>1, <3>1, ProcType DEF ProcStep
    <3>3. \A q \in Procs : Owns(q)'
      BY <1>1, <3>1, ProcOwns, OthersOwn
    <3>4. BusInv' /\ NameInv'
      BY <1>1, <3>1, <3>2, ProcBus, ProcNames
    <3> QED
      BY <3>2, <3>3, <3>4
  <2>2. CASE \E c \in Clients : Map(c) \/ OnCmd(c) \/ Continues(c)
    <3>1. /\ LifeTypeOK' /\ UNCHANGED procVars
          /\ \A s \in Procs : /\ shm'[s].flock = shm[s].flock
                              /\ shm'[s].magic = shm[s].magic
                              /\ shm'[s].by = shm[s].by
      BY <1>1, <2>2, ClientStep
    <3>2. \A p \in Procs : Owns(p)'
      <4> SUFFICES ASSUME NEW p \in Procs PROVE Owns(p)'
        OBVIOUS
      <4>1. Headed \subseteq Locked
        BY DEF Headed, Locked
      <4> QED
        BY <1>1, <3>1, <4>1 DEF Owns, procVars
    <3>3. BusInv' /\ NameInv'
      BY <1>1, <3>1 DEF BusInv, NameInv, procVars
    <3> QED
      BY <3>1, <3>2, <3>3
  <2>3. CASE UNCHANGED lifeVars
    BY <1>1, <2>3 DEF lifeVars, LifeTypeOK, Owns, BusInv, NameInv
  <2> QED
    BY <1>1, <2>1, <2>2, <2>3 DEF LifeNext, Rest
<1> QED
  BY <1>1, InitLife, PTL

(* Two processes drive the arms at the same time only if one is root's and *)
(* a process has been overtaken between shm_open and flock; and never in   *)
(* the same segment (shm_create in so101d.c, fts_open).                    *)
THEOREM AtMostOneInstance == LifeSpec => []OneInstance
<1>1. LifeInv => OneInstance
  <2> SUFFICES ASSUME LifeInv, NEW p \in Driving, NEW q \in Driving, p # q
               PROVE  /\ seg[p] # seg[q]
                      /\ {p, q} \cap Privileged # {}
                      /\ overtaken # {}
    BY DEF OneInstance
  <2>1. /\ p \in Procs /\ pc[p] \in Locked /\ pc[p] \in OnBus
        /\ q \in Procs /\ pc[q] \in Locked /\ pc[q] \in OnBus
    BY DEF Driving, Locked, OnBus
  <2>2. seg[p] # seg[q]
    BY <2>1 DEF LifeInv, Owns
  <2>3. {p, q} \cap Privileged # {}
    BY <2>1 DEF LifeInv, Owns, BusInv
  <2>4. overtaken # {}
    BY <2>1, SoleOwner
  <2> QED
    BY <2>2, <2>3, <2>4
<1> QED
  BY <1>1, LifeInvariant, PTL DEF LifeSpec

(* A daemon that is up is the one the names lead to, whatever other        *)
(* processes did before it and beside it, as long as none was overtaken.   *)
THEOREM AlwaysReachable == LifeSpec => []Reachable
<1>1. LifeInv => Reachable
  BY DEF LifeInv, NameInv, Owns, Reachable, Locked, Headed, Served
<1> QED
  BY <1>1, LifeInvariant, PTL DEF LifeSpec

-----------------------------------------------------------------------------
(***************************************************************************)
(* The clients.  A command reaches the daemon it is meant for because the  *)
(* segment a client has mapped and the semaphores it has opened belong to  *)
(* the same process as long as that one serves (AttachInv); what makes     *)
(* this true is that a valid header stands under the name (MagicInv).  A   *)
(* post to a daemon that serves then stands for a command it has not seen  *)
(* (PostInv), and that command is still the one the caller wrote unless an *)
(* outdated bridge has come between (CallInv).                             *)
(***************************************************************************)

Spoiled == overtaken # {} \/ \E s \in Procs : Abandoned(s)

(* Before shm_open, before sem_open, after the threads were started, while *)
(* posts are waited for, after the memset.                                 *)
Early   == {"none", "bus", "open"}
NoSems  == Early \cup {"lock", "clear", "header", "sems"}
Past    == {"up", "leaving", "detach", "exit"} \cup Ended
Live    == {"threads", "up"}
Cleared == {"header", "sems", "threads", "up", "leaving", "detach", "exit"}

(* Commands that have their number and are not written yet.                *)
Pending == {"checked", "opened"}

SegmentInv ==
  /\ \A p \in Procs :
       /\ pc[p] \in Early => name # p /\ ~shm[p].magic /\ \A q \in Procs : seg[q] # p
       /\ pc[p] = "exit" => ~shm[seg[p]].magic
       /\ pc[p] \in Cleared => ~shm[seg[p]].odd
  /\ \A s \in Procs : shm[s].magic => shm[s].by \in Procs

SemInv ==
  /\ lock \in [Procs -> 0 .. 1] /\ ready \in [Procs -> Nat]
  /\ \A p \in Procs :
       pc[p] \in NoSems => /\ sems # p /\ ready[p] = 0
                           /\ \A c \in Clients : cl[c].sem # p

(* At most one client holds the lock of a pair.                            *)
HolderInv ==
  \A c \in Clients :
    cl[c].pc = "waiting" =>
      /\ lock[cl[c].sem] = 0
      /\ \A d \in Clients : cl[d].pc = "waiting" /\ cl[d].sem = cl[c].sem => d = c

SessionInv ==
  \A c \in Clients :
    /\ cl[c].pc \in {"mapped", "attached", "checked", "opened", "waiting"}
         => cl[c].seg \in Procs
    /\ cl[c].pc \in {"opened", "waiting"} => cl[c].sem \in Procs
    /\ cl[c].pc \in {"away", "mapped", "dead"} => cl[c].sem = None
    /\ c \in Calls => cl[c].pc # "attached" /\ (cl[c].pc = "checked" => cl[c].sem = None)

(* The daemon a command is for was up when it began.                       *)
ToInv == \A c \in Clients : cl[c].to \in Procs => pc[cl[c].to] \in Past

(* A command that is not written yet is in no mailbox and no answer.       *)
IdInv ==
  /\ \A s \in Procs : shm[s].cmd =< asked /\ shm[s].ack =< asked
  /\ \A c \in Clients :
       cl[c].pc \in Pending =>
         /\ cl[c].id \in 1 .. asked
         /\ \A s \in Procs : shm[s].cmd # cl[c].id /\ shm[s].ack # cl[c].id
         /\ \A d \in Clients : cl[d].pc \in Pending /\ cl[d].id = cl[c].id => d = c

MagicInv == \A s \in Procs : shm[s].magic => name = s

AttachInv ==
  \A c \in Clients, p \in Procs :
    pc[p] \in Served =>
      /\ cl[c].pc = "checked" => cl[c].seg = seg[p]
      /\ cl[c].sem = p => cl[c].seg = seg[p]
      /\ c \in Calls /\ cl[c].pc = "opened" /\ cl[c].seg = seg[p] => cl[c].sem = p

PostInv ==
  \A p \in Procs :
    pc[p] \in Live /\ ready[p] > 0 =>
      /\ ready[p] = 1 /\ lock[p] = 0
      /\ shm[seg[p]].cmd # shm[seg[p]].ack
      /\ \A c \in Clients : cl[c].pc = "waiting" /\ cl[c].sem = p
                              => shm[seg[p]].ack # cl[c].id

(* A bridge writes into the mailbox of p with another daemon's semaphores. *)
Disturbed(p) == \E b \in Bridges : Outdated(b) /\ cl[b].seg = seg[p]

CallInv ==
  \A c \in Calls, p \in Procs :
    pc[p] = "up" /\ cl[c].to = p =>
      /\ cl[c].pc \in {"checked", "opened", "waiting"} => cl[c].seg = seg[p]
      /\ cl[c].pc \in {"opened", "waiting"} => cl[c].sem = p
      /\ cl[c].pc = "waiting" =>
           \/ Disturbed(p)
           \/ shm[seg[p]].ack = cl[c].id
           \/ ready[p] > 0 /\ shm[seg[p]].cmd = cl[c].id

BaseInv == SegmentInv /\ SemInv /\ HolderInv /\ SessionInv /\ ToInv /\ IdInv
CleanInv == MagicInv /\ AttachInv /\ PostInv /\ CallInv
LinkInv == BaseInv /\ (~Spoiled => CleanInv)

-----------------------------------------------------------------------------
(* What a step of a process does.                                          *)

LEMMA PcEffect ==
  ASSUME LifeTypeOK, NEW p \in Procs, ProcStep(p)
  PROVE  /\ \/ <<pc[p], pc'[p]>> \in
                 {<<"none", "bus">>, <<"bus", "open">>, <<"open", "lock">>,
                  <<"lock", "clear">>, <<"clear", "header">>, <<"header", "sems">>,
                  <<"sems", "threads">>, <<"threads", "up">>, <<"up", "up">>,
                  <<"up", "leaving">>, <<"leaving", "detach">>, <<"detach", "exit">>}
            \/ pc[p] \notin Ended \cup {"none"} /\ pc'[p] \in Ended
         /\ cl' = cl /\ asked' = asked /\ overtaken \subseteq overtaken'
<1> USE DEF LifeTypeOK
<1>1. cl' = cl /\ asked' = asked
  BY DEF ProcStep, Start, Runs, Fail, Stop, Kill, OpenBuses, OpenSegment, Lock, Clear, Header,
         CreateSems, Threads, Serve, DestroySems, Detach, Exit
<1>2. overtaken \subseteq overtaken'
  BY DEF ProcStep, Start, Runs, Fail, Stop, Kill, OpenBuses, OpenSegment, Lock, Clear, Header,
         CreateSems, Threads, Serve, DestroySems, Detach, Exit
<1>3. CASE Start(p) \/ Threads(p) \/ Stop(p) \/ OpenSegment(p) \/ Clear(p) \/ Header(p)
           \/ DestroySems(p) \/ Detach(p) \/ Serve(p)
  BY <1>1, <1>2, <1>3 DEF Start, Threads, Stop, OpenSegment, Clear, Header, DestroySems,
     Detach, Serve, Goes
<1>4. CASE OpenBuses(p) \/ Lock(p) \/ CreateSems(p)
  BY <1>1, <1>2, <1>4 DEF OpenBuses, Lock, CreateSems, Goes, Gone, Ended
<1>5. CASE Fail(p) \/ Exit(p) \/ Kill(p)
  BY <1>1, <1>2, <1>5, LifecycleAssumption DEF Fail, Exit, Kill, Gone, Ended
<1> QED
  BY <1>3, <1>4, <1>5 DEF ProcStep, Runs

LEMMA NamesEffect ==
  ASSUME LifeTypeOK, NEW p \in Procs, ProcStep(p)
  PROVE  /\ pc[p] # "open" => seg' = seg
         /\ \/ name' = name
            \/ pc[p] = "open" /\ pc'[p] = "lock" /\ name = None /\ name' = p
            \/ name' = None /\ pc[p] \in {"sems", "threads"} /\ pc'[p] \in {"failed", "refused"}
            \/ name' = None /\ pc[p] = "exit"
         /\ pc'[p] = "lock" => seg'[p] = name'
         /\ pc[p] = "open" /\ pc'[p] # "lock" => seg' = seg
         /\ \/ sems' = sems \/ sems' = None
            \/ pc[p] = "sems" /\ pc'[p] = "threads" /\ sems' = p /\ Prompt(p)
         /\ pc[p] = "sems" /\ pc'[p] = "threads" => Prompt(p) /\ sems' = p
<1> USE DEF LifeTypeOK
<1>1. CASE Start(p) \/ Threads(p) \/ Stop(p) \/ Clear(p) \/ Header(p)
           \/ DestroySems(p) \/ Detach(p) \/ Serve(p)
  BY <1>1 DEF Start, Threads, Stop, Clear, Header, DestroySems, Detach, Serve, Goes, Unlinked,
              fileVars
<1>2. CASE OpenSegment(p)
  BY <1>2 DEF OpenSegment, Goes
<1>3. CASE OpenBuses(p) \/ Lock(p)
  BY <1>3 DEF OpenBuses, Lock, Goes, Gone, fileVars
<1>4. CASE CreateSems(p)
  BY <1>4 DEF CreateSems, Goes, Gone, Unlinked
<1>5. CASE Fail(p) \/ Exit(p) \/ Kill(p)
  BY <1>5 DEF Fail, Exit, Kill, Gone, Unlinked, fileVars
<1> QED
  BY <1>1, <1>2, <1>3, <1>4, <1>5 DEF ProcStep, Runs

LEMMA SemsEffect ==
  ASSUME LifeTypeOK, NEW p \in Procs, ProcStep(p)
  PROVE  \/ /\ lock' = lock /\ ready' = ready
            /\ <<pc[p], pc'[p]>> \notin {<<"sems", "threads">>, <<"up", "up">>}
         \/ /\ pc[p] = "sems" /\ pc'[p] = "threads"
            /\ lock' = [lock EXCEPT ![p] = 1] /\ ready' = ready
         \/ /\ pc[p] = "up" /\ pc'[p] = "up" /\ lock' = lock /\ ready[p] > 0
            /\ ready' = [ready EXCEPT ![p] = @ - 1]
<1> USE DEF LifeTypeOK
<1>1. CASE Start(p) \/ Threads(p) \/ Stop(p) \/ Clear(p) \/ Header(p)
           \/ DestroySems(p) \/ Detach(p) \/ Serve(p)
  BY <1>1 DEF Start, Threads, Stop, Clear, Header, DestroySems, Detach, Serve, Goes, fileVars
<1>2. CASE OpenSegment(p)
  BY <1>2 DEF OpenSegment, Goes
<1>3. CASE OpenBuses(p) \/ Lock(p)
  BY <1>3 DEF OpenBuses, Lock, Goes, Gone, fileVars
<1>4. CASE CreateSems(p)
  BY <1>4 DEF CreateSems, Goes, Gone, Unlinked
<1>5. CASE Fail(p) \/ Exit(p) \/ Kill(p)
  BY <1>5 DEF Fail, Exit, Kill, Gone, Ended, fileVars
<1> QED
  BY <1>1, <1>2, <1>3, <1>4, <1>5 DEF ProcStep, Runs

(* What the kernel does to the segments of a process that is gone.         *)
LEMMA UnlockFields ==
  ASSUME shm \in [Procs -> Segments], NEW p \in Procs, NEW odd \in BOOLEAN, NEW s \in Procs
  PROVE  /\ Unlock(p, odd)[s].cmd = shm[s].cmd
         /\ Unlock(p, odd)[s].ack = shm[s].ack
         /\ shm[s].flock # p => Unlock(p, odd)[s].odd = shm[s].odd
<1>1. shm[s] \in Segments /\ None \in 0 .. MaxStarts
  BY ProcsType
<1>2. CASE shm[s].flock = p
  <2>1. Unlock(p, odd)[s] = [shm[s] EXCEPT !.flock = None, !.odd = IF odd THEN TRUE ELSE @]
    BY <1>2 DEF Unlock
  <2> QED
    BY <1>1, <1>2, <2>1 DEF Segments
<1>3. CASE shm[s].flock # p
  BY <1>3 DEF Unlock
<1> QED
  BY <1>2, <1>3

(* The fields of a segment s when process p takes a step.                  *)
Keeps(p, s) ==
  /\ ~(s = seg[p] /\ pc[p] \in {"clear", "header", "detach"} /\ pc'[p] \notin Ended)
       => shm'[s].magic = shm[s].magic /\ shm'[s].by = shm[s].by
  /\ ~(s = seg[p] /\ pc[p] = "clear" /\ pc'[p] \notin Ended)
       => shm'[s].cmd = shm[s].cmd
  /\ ~(s = seg[p] /\ pc[p] \in {"clear", "up"} /\ pc'[p] \notin Ended)
       => shm'[s].ack = shm[s].ack
  /\ shm[s].flock # p => shm'[s].odd = shm[s].odd

(* And of its own.                                                         *)
Writes(p) ==
  LET s == seg[p]
  IN /\ pc'[p] = "header" => /\ ~shm'[s].magic /\ ~shm'[s].odd
                             /\ shm'[s].cmd = 0 /\ shm'[s].ack = 0
     /\ pc[p] = "header" /\ pc'[p] = "sems" => shm'[s].magic /\ shm'[s].by = p
     /\ pc'[p] = "exit" => ~shm'[s].magic
     /\ pc[p] = "up" /\ pc'[p] = "up" => shm'[s].ack = shm[s].cmd
     /\ pc[p] = "up" /\ pc'[p] # "up" => shm'[s].ack = shm[s].ack
     /\ pc[p] \in Cleared /\ pc'[p] \in Cleared => shm'[s].odd = shm[s].odd

LEMMA ShmEffect ==
  ASSUME LifeTypeOK, NEW p \in Procs, Owns(p), ProcStep(p)
  PROVE  (\A s \in Procs : Keeps(p, s)) /\ Writes(p)
<1> USE DEF LifeTypeOK
<1>0. pc[p] \in Locked \cup {"lock"} => seg[p] \in Procs
  BY DEF Owns
<1>a. pc[p] \in Locked => shm[seg[p]].flock = p
  BY DEF Owns
<1>1. CASE Start(p) \/ Threads(p) \/ Stop(p) \/ DestroySems(p) \/ OpenSegment(p)
  <2>1. shm' = shm /\ pc'[p] \in {"bus", "up", "leaving", "detach", "lock"}
        /\ pc[p] \in {"none", "threads", "up", "leaving", "open"} /\ pc'[p] # pc[p]
    BY <1>1 DEF Start, Threads, Stop, DestroySems, OpenSegment, Goes
  <2> QED
    BY <2>1 DEF Keeps, Writes
<1>2. CASE Clear(p)
  <2>1. /\ pc[p] = "clear" /\ pc'[p] = "header"
        /\ shm' = [shm EXCEPT ![seg[p]] = [NoSegment EXCEPT !.sized = TRUE, !.flock = p]]
    BY <1>2 DEF Clear, Goes
  <2>2. seg[p] \in Procs /\ shm[seg[p]].flock = p
    BY <1>0, <1>a, <2>1 DEF Locked
  <2>3. \A s \in Procs : s # seg[p] => shm'[s] = shm[s]
    BY <2>1
  <2>4. /\ shm'[seg[p]].magic = FALSE /\ shm'[seg[p]].odd = FALSE
        /\ shm'[seg[p]].cmd = 0 /\ shm'[seg[p]].ack = 0
    BY <2>1, <2>2 DEF NoSegment
  <2> QED
    BY <2>1, <2>2, <2>3, <2>4 DEF Keeps, Writes, Ended, Cleared
<1>3. CASE Header(p)
  <2>1. /\ pc[p] = "header" /\ pc'[p] = "sems"
        /\ shm' = [shm EXCEPT ![seg[p]].magic = TRUE, ![seg[p]].by = p]
    BY <1>3 DEF Header, Goes
  <2>2. seg[p] \in Procs /\ shm[seg[p]].flock = p
    BY <1>0, <1>a, <2>1 DEF Locked
  <2>3. \A s \in Procs : s # seg[p] => shm'[s] = shm[s]
    BY <2>1
  <2>4. /\ shm'[seg[p]].magic = TRUE /\ shm'[seg[p]].by = p
        /\ shm'[seg[p]].odd = shm[seg[p]].odd
        /\ shm'[seg[p]].cmd = shm[seg[p]].cmd /\ shm'[seg[p]].ack = shm[seg[p]].ack
    BY <2>1, <2>2 DEF Segments
  <2> QED
    BY <2>1, <2>2, <2>3, <2>4 DEF Keeps, Writes, Ended, Cleared
<1>4. CASE Serve(p)
  <2>1. /\ pc[p] = "up" /\ pc'[p] = "up"
        /\ shm' = [shm EXCEPT ![seg[p]].ack = shm[seg[p]].cmd]
    BY <1>4 DEF Serve
  <2>2. seg[p] \in Procs /\ shm[seg[p]].flock = p
    BY <1>0, <1>a, <2>1 DEF Locked
  <2>3. \A s \in Procs : s # seg[p] => shm'[s] = shm[s]
    BY <2>1
  <2>4. /\ shm'[seg[p]].magic = shm[seg[p]].magic /\ shm'[seg[p]].by = shm[seg[p]].by
        /\ shm'[seg[p]].odd = shm[seg[p]].odd
        /\ shm'[seg[p]].cmd = shm[seg[p]].cmd /\ shm'[seg[p]].ack = shm[seg[p]].cmd
    BY <2>1, <2>2 DEF Segments
  <2> QED
    BY <2>1, <2>2, <2>3, <2>4 DEF Keeps, Writes, Ended, Cleared
<1>5. CASE Detach(p)
  <2>1. /\ pc[p] = "detach" /\ pc'[p] = "exit"
        /\ shm' = [shm EXCEPT ![seg[p]].magic = FALSE]
    BY <1>5 DEF Detach, Goes
  <2>2. seg[p] \in Procs /\ shm[seg[p]].flock = p
    BY <1>0, <1>a, <2>1 DEF Locked
  <2>3. \A s \in Procs : s # seg[p] => shm'[s] = shm[s]
    BY <2>1
  <2>4. /\ shm'[seg[p]].magic = FALSE
        /\ shm'[seg[p]].odd = shm[seg[p]].odd
        /\ shm'[seg[p]].cmd = shm[seg[p]].cmd /\ shm'[seg[p]].ack = shm[seg[p]].ack
    BY <2>1, <2>2 DEF Segments
  <2> QED
    BY <2>1, <2>2, <2>3, <2>4 DEF Keeps, Writes, Ended, Cleared
<1>6. CASE Lock(p) /\ pc'[p] = "clear"
  <2>1. pc[p] = "lock" /\ shm' = [shm EXCEPT ![seg[p]].flock = p]
    BY <1>6 DEF Lock, Gone, Goes
  <2>2. seg[p] \in Procs
    BY <1>0, <2>1
  <2>3. \A s \in Procs : s # seg[p] => shm'[s] = shm[s]
    BY <2>1
  <2>4. /\ shm'[seg[p]].magic = shm[seg[p]].magic /\ shm'[seg[p]].by = shm[seg[p]].by
        /\ shm'[seg[p]].odd = shm[seg[p]].odd
        /\ shm'[seg[p]].cmd = shm[seg[p]].cmd /\ shm'[seg[p]].ack = shm[seg[p]].ack
    BY <2>1, <2>2 DEF Segments
  <2> QED
    BY <1>6, <2>1, <2>2, <2>3, <2>4 DEF Keeps, Writes, Ended, Cleared
<1>7. CASE shm' = shm /\ pc[p] \in {"bus", "sems"} /\ pc'[p] \in {"open", "threads"}
  BY <1>7 DEF Keeps, Writes
<1>8. CASE pc'[p] \in Ended /\ \E odd \in BOOLEAN : shm' = Unlock(p, odd)
  <2>1. PICK odd \in BOOLEAN : shm' = Unlock(p, odd)
    BY <1>8
  <2>2. \A s \in Procs : /\ shm'[s].magic = shm[s].magic /\ shm'[s].by = shm[s].by
                         /\ shm'[s].cmd = shm[s].cmd /\ shm'[s].ack = shm[s].ack
                         /\ shm[s].flock # p => shm'[s].odd = shm[s].odd
    BY <2>1, UnlockType, UnlockFields
  <2>3. pc[p] = "up" => seg[p] \in Procs
    BY <1>0 DEF Locked
  <2> QED
    BY <1>8, <2>2, <2>3 DEF Keeps, Writes, Ended, Cleared
<1>9. CASE OpenBuses(p) \/ CreateSems(p) \/ Lock(p)
  <2>1. CASE Gone(p, "refused")
    BY <1>8, <2>1 DEF Gone, Ended
  <2>2. CASE ~Gone(p, "refused")
    BY <1>6, <1>7, <1>9, <2>2 DEF OpenBuses, CreateSems, Lock, Goes
  <2> QED
    BY <2>1, <2>2
<1>10. CASE Fail(p) \/ Exit(p) \/ Kill(p)
  <2>1. pc'[p] \in Ended /\ \E odd \in BOOLEAN : shm' = Unlock(p, odd)
    BY <1>10 DEF Fail, Exit, Kill, Gone, Ended
  <2> QED
    BY <1>8, <2>1
<1> QED
  BY <1>1, <1>2, <1>3, <1>4, <1>5, <1>9, <1>10 DEF ProcStep, Runs

(* No step of a process makes good what has been spoiled: an abandoned     *)
(* segment has lost its name for good, and nobody clears it.               *)
LEMMA SpoiledStays ==
  ASSUME LifeInv, SegmentInv, NEW p \in Procs, ProcStep(p), Spoiled
  PROVE  Spoiled'
<1>0. LifeTypeOK /\ Owns(p)
  BY DEF LifeInv
<1>1. overtaken \subseteq overtaken'
  BY <1>0, PcEffect
<1>2. CASE overtaken # {}
  BY <1>1, <1>2 DEF Spoiled
<1>3. CASE overtaken = {}
  <2>1. PICK s \in Procs : Abandoned(s)
    BY <1>3 DEF Spoiled
  <2>2. /\ shm[s].magic /\ name # s /\ shm[s].by \in Procs
        /\ pc[shm[s].by] \in {"failed", "refused"}
    BY <2>1 DEF Abandoned, SegmentInv
  <2>3. pc[p] \notin Ended
    BY <1>0, PcEffect DEF Ended
  <2>4. pc'[shm[s].by] = pc[shm[s].by]
    BY <1>0, <2>2, <2>3, OthersPlaces DEF Ended
  <2>5. name' # s
    <3>1. pc[p] = "open" => ~shm[p].magic
      BY DEF SegmentInv, Early
    <3> QED
      BY <1>0, <2>2, <3>1, NamesEffect, ProcsType
  <2>6. shm'[s].magic = shm[s].magic /\ shm'[s].by = shm[s].by
    <3>1. pc[p] \in {"clear", "header", "detach"} => seg[p] # s
      BY <1>3, <2>2 DEF LifeInv, NameInv, Locked
    <3> QED
      BY <1>0, <3>1, ShmEffect DEF Keeps
  <2> QED
    BY <2>2, <2>4, <2>5, <2>6 DEF Spoiled, Abandoned
<1> QED
  BY <1>2, <1>3

-----------------------------------------------------------------------------
(* Steps of a process: segments, semaphores and numbers.                   *)

LEMMA ProcSegment ==
  ASSUME LifeInv, SegmentInv, NEW p \in Procs, ProcStep(p)
  PROVE  SegmentInv'
<1>0. LifeTypeOK /\ \A q \in Procs : Owns(q)
  BY DEF LifeInv
<1>1. (\A s \in Procs : Keeps(p, s)) /\ Writes(p)
  BY <1>0, ShmEffect
<1>2. ASSUME NEW q \in Procs, pc'[q] \in Early
      PROVE  name' # q /\ ~shm'[q].magic /\ \A r \in Procs : seg'[r] # q
  <2>1. pc[q] \in Early /\ (q = p => pc[p] \in {"none", "bus"} /\ pc'[p] # "lock")
    BY <1>0, <1>2, OthersPlaces, PcEffect DEF Early, Ended
  <2>2. name # q /\ ~shm[q].magic /\ \A r \in Procs : seg[r] # q
    BY <2>1 DEF SegmentInv
  <2>3. name' # q
    BY <1>0, <2>1, <2>2, NamesEffect, ProcsType
  <2>4. shm'[q].magic = shm[q].magic
    BY <1>1, <2>2 DEF Keeps
  <2>5. seg'[p] # q
    BY <1>0, <2>2, <2>3, NamesEffect
  <2>6. \A r \in Procs : seg'[r] # q
    BY <1>0, <2>2, <2>5, OthersPlaces
  <2> QED
    BY <2>2, <2>3, <2>4, <2>6
<1>3. ASSUME NEW q \in Procs, pc'[q] = "exit"
      PROVE  ~shm'[seg'[q]].magic
  <2>1. CASE q = p
    <3>1. pc[p] # "open" /\ seg' = seg
      BY <1>0, <1>3, <2>1, PcEffect, NamesEffect DEF Ended
    <3> QED
      BY <1>1, <1>3, <2>1, <3>1 DEF Writes
  <2>2. CASE q # p
    <3>1. pc[q] = "exit" /\ seg'[q] = seg[q] /\ seg[q] \in Procs /\ shm[seg[q]].flock = q
      BY <1>0, <1>3, <2>2, OthersPlaces DEF Owns, Locked
    <3>2. shm'[seg[q]].magic = shm[seg[q]].magic
      BY <1>0, <2>2, <3>1, OthersSegments
    <3> QED
      BY <3>1, <3>2 DEF SegmentInv
  <2> QED
    BY <2>1, <2>2
<1>4. ASSUME NEW q \in Procs, pc'[q] \in Cleared
      PROVE  ~shm'[seg'[q]].odd
  <2>1. CASE q = p
    <3>1. seg' = seg /\ pc[p] \in Cleared \cup {"clear"} /\ (pc[p] = "clear" => pc'[p] = "header")
      BY <1>0, <1>4, <2>1, PcEffect, NamesEffect DEF Ended, Cleared
    <3>2. CASE pc[p] = "clear"
      BY <1>1, <2>1, <3>1, <3>2 DEF Writes
    <3>3. CASE pc[p] \in Cleared
      <4>1. ~shm[seg[p]].odd
        BY <3>3 DEF SegmentInv
      <4>2. shm'[seg[p]].odd = shm[seg[p]].odd
        BY <1>1, <1>4, <2>1, <3>3 DEF Writes
      <4> QED
        BY <2>1, <3>1, <4>1, <4>2
    <3> QED
      BY <3>1, <3>2, <3>3
  <2>2. CASE q # p
    <3>1. pc[q] \in Cleared /\ seg'[q] = seg[q] /\ seg[q] \in Procs /\ shm[seg[q]].flock = q
      BY <1>0, <1>4, <2>2, OthersPlaces DEF Owns, Locked, Cleared
    <3>2. shm'[seg[q]].odd = shm[seg[q]].odd
      BY <1>1, <2>2, <3>1 DEF Keeps
    <3> QED
      BY <3>1, <3>2 DEF SegmentInv
  <2> QED
    BY <2>1, <2>2
<1>5. ASSUME NEW s \in Procs, shm'[s].magic
      PROVE  shm'[s].by \in Procs
  <2>1. CASE s = seg[p] /\ pc[p] \in {"clear", "header", "detach"} /\ pc'[p] \notin Ended
    <3>1. pc'[p] \in {"header", "sems", "exit"} /\ (pc'[p] = "sems" => pc[p] = "header")
      BY <1>0, <2>1, PcEffect
    <3> QED
      BY <1>1, <1>5, <2>1, <3>1 DEF Writes
  <2>2. CASE ~(s = seg[p] /\ pc[p] \in {"clear", "header", "detach"} /\ pc'[p] \notin Ended)
    <3>1. shm'[s].magic = shm[s].magic /\ shm'[s].by = shm[s].by
      BY <1>1, <2>2 DEF Keeps
    <3> QED
      BY <1>5, <3>1 DEF SegmentInv
  <2> QED
    BY <2>1, <2>2
<1> QED
  BY <1>2, <1>3, <1>4, <1>5 DEF SegmentInv

LEMMA ProcSem ==
  ASSUME LifeInv, SemInv, NEW p \in Procs, ProcStep(p)
  PROVE  SemInv'
<1>0. LifeTypeOK /\ cl' = cl
  BY PcEffect DEF LifeInv
<1>1. lock' \in [Procs -> 0 .. 1] /\ ready' \in [Procs -> Nat]
  BY <1>0, SemsEffect DEF SemInv
<1>2. ASSUME NEW q \in Procs, pc'[q] \in NoSems
      PROVE  sems' # q /\ ready'[q] = 0 /\ \A c \in Clients : cl'[c].sem # q
  <2>1. pc[q] \in NoSems /\ (q = p => pc'[p] \notin {"threads", "up"})
    BY <1>0, <1>2, OthersPlaces, PcEffect DEF NoSems, Early, Ended
  <2>2. sems # q /\ ready[q] = 0 /\ \A c \in Clients : cl[c].sem # q
    BY <2>1 DEF SemInv
  <2>3. sems' # q
    BY <1>0, <2>1, <2>2, NamesEffect, ProcsType
  <2>4. ready'[q] = 0
    BY <1>0, <2>1, <2>2, SemsEffect DEF SemInv
  <2> QED
    BY <1>0, <2>2, <2>3, <2>4
<1> QED
  BY <1>1, <1>2 DEF SemInv

LEMMA ProcSessions ==
  ASSUME LifeInv, SemInv, HolderInv, SessionInv, ToInv, IdInv, NEW p \in Procs, ProcStep(p)
  PROVE  HolderInv' /\ SessionInv' /\ ToInv' /\ IdInv'
<1>0. /\ LifeTypeOK /\ cl' = cl /\ asked' = asked
      /\ \A q \in Procs : Owns(q)
  BY PcEffect DEF LifeInv
<1>1. HolderInv'
  <2>1. SUFFICES ASSUME NEW c \in Clients, cl[c].pc = "waiting"
                 PROVE  lock'[cl[c].sem] = 0
    BY <1>0 DEF HolderInv
  <2>2. lock[cl[c].sem] = 0 /\ cl[c].sem \in Procs
    BY <2>1 DEF HolderInv, SessionInv
  <2>3. pc[p] = "sems" => cl[c].sem # p
    BY DEF SemInv, NoSems
  <2> QED
    BY <1>0, <2>2, <2>3, SemsEffect DEF SemInv
<1>2. SessionInv'
  BY <1>0 DEF SessionInv
<1>3. ToInv'
  <2>1. SUFFICES ASSUME NEW c \in Clients, cl[c].to \in Procs
                 PROVE  pc'[cl[c].to] \in Past
    BY <1>0 DEF ToInv
  <2>2. pc[cl[c].to] \in Past
    BY <2>1 DEF ToInv
  <2>3. CASE cl[c].to # p
    BY <1>0, <2>1, <2>2, <2>3, OthersPlaces
  <2>4. CASE cl[c].to = p
    BY <1>0, <2>2, <2>4, PcEffect DEF Past, Ended
  <2> QED
    BY <2>3, <2>4
<1>4. ASSUME NEW s \in Procs
      PROVE  /\ shm'[s].cmd \in {0, shm[s].cmd}
             /\ shm'[s].ack \in {0, shm[s].ack, shm[s].cmd}
  <2>1. Keeps(p, s) /\ Writes(p)
    BY <1>0, ShmEffect
  <2>2. pc[p] = "clear" /\ pc'[p] \notin Ended => pc'[p] = "header"
    BY <1>0, PcEffect
  <2>3. pc[p] = "up" /\ pc'[p] # "up" => shm'[seg[p]].ack = shm[seg[p]].ack
    BY <2>1 DEF Writes
  <2> QED
    BY <2>1, <2>2, <2>3 DEF Keeps, Writes
<1>5. IdInv'
  <2>1. \A s \in Procs : shm'[s].cmd =< asked /\ shm'[s].ack =< asked
    BY <1>0, <1>4 DEF IdInv, LifeTypeOK
  <2>2. ASSUME NEW c \in Clients, cl[c].pc \in Pending
        PROVE  /\ cl[c].id \in 1 .. asked
               /\ \A s \in Procs : shm'[s].cmd # cl[c].id /\ shm'[s].ack # cl[c].id
    <3>1. /\ cl[c].id \in 1 .. asked /\ cl[c].id # 0
          /\ \A s \in Procs : shm[s].cmd # cl[c].id /\ shm[s].ack # cl[c].id
      BY <2>2 DEF IdInv
    <3> QED
      BY <1>4, <3>1
  <2> QED
    BY <1>0, <2>1, <2>2 DEF IdInv
<1> QED
  BY <1>1, <1>2, <1>3, <1>5

(* A header that is valid stands under the name: a process that takes the  *)
(* name away has removed its magic number before (Detach), or else it has  *)
(* abandoned the segment.                                                  *)
LEMMA ProcMagic ==
  ASSUME LifeInv, SegmentInv, MagicInv, NEW p \in Procs, ProcStep(p), ~Spoiled'
  PROVE  MagicInv'
<1>0. LifeTypeOK /\ Owns(p)
  BY DEF LifeInv
<1>1. overtaken = {} /\ ~\E s \in Procs : Abandoned(s)'
  BY <1>0, PcEffect DEF Spoiled
<1>2. (\A s \in Procs : Keeps(p, s)) /\ Writes(p)
  BY <1>0, ShmEffect
<1>3. pc[p] \in Locked => name = seg[p]
  BY <1>1 DEF LifeInv, NameInv
<1> SUFFICES ASSUME NEW s \in Procs, shm'[s].magic
             PROVE  name' = s
  BY DEF MagicInv
<1>4. CASE s = seg[p] /\ pc[p] \in {"clear", "header", "detach"} /\ pc'[p] \notin Ended
  <2>1. pc[p] = "header"
    <3>1. pc[p] # "header" => pc'[p] \in {"header", "exit"}
      BY <1>0, <1>4, PcEffect
    <3> QED
      BY <1>2, <1>4, <3>1 DEF Writes
  <2>2. name' = name
    BY <1>0, <2>1, NamesEffect
  <2> QED
    BY <1>3, <1>4, <2>1, <2>2 DEF Locked
<1>5. CASE ~(s = seg[p] /\ pc[p] \in {"clear", "header", "detach"} /\ pc'[p] \notin Ended)
  <2>1. shm'[s].magic = shm[s].magic /\ shm'[s].by = shm[s].by
    BY <1>2, <1>5 DEF Keeps
  <2>2. shm[s].magic /\ name = s
    BY <2>1 DEF MagicInv
  <2>3. CASE pc[p] \in {"sems", "threads"} /\ pc'[p] \in {"failed", "refused"} /\ name' = None
    <3>1. s = seg[p] /\ shm[s].by = p
      BY <1>0, <1>3, <2>2, <2>3 DEF Owns, Locked, Headed
    <3>2. name' # s
      BY <2>3, ProcsType
    <3> QED
      BY <1>1, <2>1, <2>3, <3>1, <3>2 DEF Abandoned
  <2>4. CASE pc[p] = "exit"
    BY <1>3, <2>2, <2>4 DEF SegmentInv, Locked
  <2>5. name # None
    BY <2>2, ProcsType
  <2> QED
    BY <1>0, <2>2, <2>3, <2>4, <2>5, NamesEffect
<1> QED
  BY <1>4, <1>5

(* A new pair of semaphores appears when no client is between the header   *)
(* and sem_open (Prompt).                                                  *)
LEMMA ProcAttach ==
  ASSUME LifeInv, SemInv, AttachInv, NEW p \in Procs, ProcStep(p)
  PROVE  AttachInv'
<1>0. LifeTypeOK /\ cl' = cl
  BY PcEffect DEF LifeInv
<1> SUFFICES ASSUME NEW c \in Clients, NEW q \in Procs, pc'[q] \in Served
             PROVE  /\ cl[c].pc = "checked" => cl[c].seg = seg'[q]
                    /\ cl[c].sem = q => cl[c].seg = seg'[q]
                    /\ c \in Calls /\ cl[c].pc = "opened" /\ cl[c].seg = seg'[q]
                         => cl[c].sem = q
  BY <1>0 DEF AttachInv
<1>1. CASE pc[q] \in Served /\ seg'[q] = seg[q]
  BY <1>1 DEF AttachInv
<1>2. CASE q # p
  BY <1>0, <1>1, <1>2, OthersPlaces
<1>3. CASE q = p /\ pc[p] \in Served
  <2>1. seg' = seg
    BY <1>0, <1>3, NamesEffect DEF Served
  <2> QED
    BY <1>1, <1>3, <2>1
<1>4. CASE q = p /\ pc[p] \notin Served
  <2>1. pc[p] = "sems" /\ pc'[p] = "threads"
    BY <1>0, <1>4, PcEffect DEF Served, Ended
  <2>2. Prompt(p) /\ seg' = seg
    BY <1>0, <2>1, NamesEffect
  <2>3. cl[c].sem # p
    BY <2>1 DEF SemInv, NoSems
  <2> QED
    BY <1>4, <2>2, <2>3 DEF Prompt
<1> QED
  BY <1>2, <1>3, <1>4

(* What another process has in its mailbox.                                *)
LEMMA OthersMailbox ==
  ASSUME LifeInv, SemInv, NEW p \in Procs, ProcStep(p), NEW q \in Procs \ {p},
         pc[q] \in Live
  PROVE  /\ pc'[q] = pc[q] /\ seg'[q] = seg[q]
         /\ lock'[q] = lock[q] /\ ready'[q] = ready[q]
         /\ shm'[seg[q]].cmd = shm[seg[q]].cmd
         /\ shm'[seg[q]].ack = shm[seg[q]].ack
<1>0. LifeTypeOK /\ \A r \in Procs : Owns(r)
  BY DEF LifeInv
<1>1. pc'[q] = pc[q] /\ seg'[q] = seg[q]
  BY <1>0, OthersPlaces
<1>2. lock'[q] = lock[q] /\ ready'[q] = ready[q]
  BY <1>0, SemsEffect DEF SemInv
<1>3. seg[q] \in Procs /\ shm[seg[q]].flock = q
  BY <1>0 DEF Owns, Live, Locked
<1>4. pc[p] \in {"clear", "up"} => seg[q] # seg[p]
  BY <1>0, <1>3 DEF Owns, Locked
<1>5. Keeps(p, seg[q])
  BY <1>0, <1>3, ShmEffect
<1> QED
  BY <1>1, <1>2, <1>4, <1>5 DEF Keeps

LEMMA ProcPost ==
  ASSUME LifeInv, SemInv, PostInv, NEW p \in Procs, ProcStep(p)
  PROVE  PostInv'
<1>0. LifeTypeOK /\ cl' = cl /\ Owns(p)
  BY PcEffect DEF LifeInv
<1> SUFFICES ASSUME NEW q \in Procs, pc'[q] \in Live, ready'[q] > 0
             PROVE  /\ ready'[q] = 1 /\ lock'[q] = 0
                    /\ shm'[seg'[q]].cmd # shm'[seg'[q]].ack
                    /\ \A c \in Clients : cl[c].pc = "waiting" /\ cl[c].sem = q
                                            => shm'[seg'[q]].ack # cl[c].id
  BY <1>0 DEF PostInv
<1>1. CASE q # p
  <2>1. pc[q] = pc'[q]
    BY <1>0, <1>1, OthersPlaces
  <2>2. /\ pc'[q] = pc[q] /\ seg'[q] = seg[q]
        /\ lock'[q] = lock[q] /\ ready'[q] = ready[q]
        /\ shm'[seg[q]].cmd = shm[seg[q]].cmd
        /\ shm'[seg[q]].ack = shm[seg[q]].ack
    BY <1>1, <2>1, OthersMailbox
  <2> QED
    BY <2>2 DEF PostInv
<1>2. CASE q = p
  <2>1. \/ pc[p] = "sems" /\ pc'[p] = "threads"
        \/ pc[p] = "threads" /\ pc'[p] = "up"
        \/ pc[p] = "up" /\ pc'[p] = "up"
    BY <1>0, <1>2, PcEffect DEF Live, Ended
  <2>2. CASE pc[p] = "sems" /\ pc'[p] = "threads"
    <3>1. ready[p] = 0
      BY <2>2 DEF SemInv, NoSems
    <3> QED
      BY <1>0, <1>2, <2>2, <3>1, SemsEffect
  <2>3. CASE pc[p] = "threads" /\ pc'[p] = "up"
    <3>1. seg' = seg /\ lock' = lock /\ ready' = ready
      BY <1>0, <2>3, NamesEffect, SemsEffect
    <3>2. shm'[seg[p]].cmd = shm[seg[p]].cmd /\ shm'[seg[p]].ack = shm[seg[p]].ack
      <4>1. seg[p] \in Procs
        BY <1>0, <2>3 DEF Owns, Locked
      <4>2. Keeps(p, seg[p])
        BY <1>0, <4>1, ShmEffect
      <4> QED
        BY <2>3, <4>2 DEF Keeps
    <3> QED
      BY <1>2, <2>3, <3>1, <3>2 DEF PostInv, Live
  <2>4. CASE pc[p] = "up" /\ pc'[p] = "up"
    <3>1. ready[p] > 0 /\ ready'[p] = ready[p] - 1
      BY <1>0, <2>4, SemsEffect DEF SemInv
    <3>2. ready[p] = 1
      BY <2>4, <3>1 DEF PostInv, Live
    <3> QED
      BY <1>2, <3>1, <3>2
  <2> QED
    BY <2>1, <2>2, <2>3, <2>4
<1> QED
  BY <1>1, <1>2

(* An outdated client stays one.                                           *)
LEMMA ProcDisturbed ==
  ASSUME LifeInv, NEW p \in Procs, ProcStep(p), NEW q \in Procs, seg'[q] = seg[q], Disturbed(q)
  PROVE  Disturbed(q)'
<1>0. LifeTypeOK /\ cl' = cl
  BY PcEffect DEF LifeInv
<1>1. PICK b \in Bridges : Outdated(b) /\ cl[b].seg = seg[q]
  BY DEF Disturbed
<1>2. cl[b].sem \in Procs
  <2>1. cl[b] \in Sessions
    BY <1>0 DEF LifeTypeOK, Clients
  <2> QED
    BY <1>1, <2>1, ProcsType DEF Sessions, Outdated
<1>3. pc[p] \notin Ended
  BY <1>0, PcEffect DEF Ended
<1>4. pc'[cl[b].sem] = pc[cl[b].sem]
  BY <1>0, <1>1, <1>2, <1>3, OthersPlaces DEF Outdated
<1> QED
  BY <1>0, <1>1, <1>4 DEF Disturbed, Outdated

LEMMA ProcCall ==
  ASSUME LifeInv, SemInv, ToInv, PostInv, CallInv, NEW p \in Procs, ProcStep(p)
  PROVE  CallInv'
<1>0. LifeTypeOK /\ cl' = cl /\ Owns(p)
  BY PcEffect DEF LifeInv
<1> SUFFICES ASSUME NEW c \in Calls, NEW q \in Procs, pc'[q] = "up", cl[c].to = q
             PROVE  /\ cl[c].pc \in {"checked", "opened", "waiting"} => cl[c].seg = seg'[q]
                    /\ cl[c].pc \in {"opened", "waiting"} => cl[c].sem = q
                    /\ cl[c].pc = "waiting" =>
                         \/ Disturbed(q)'
                         \/ shm'[seg'[q]].ack = cl[c].id
                         \/ ready'[q] > 0 /\ shm'[seg'[q]].cmd = cl[c].id
  BY <1>0 DEF CallInv
<1>a. c \in Clients
  BY DEF Clients
<1>1. CASE q # p
  <2>1. pc[q] = "up"
    BY <1>0, <1>1, OthersPlaces
  <2>2. /\ seg'[q] = seg[q] /\ ready'[q] = ready[q]
        /\ shm'[seg[q]].cmd = shm[seg[q]].cmd
        /\ shm'[seg[q]].ack = shm[seg[q]].ack
    BY <1>1, <2>1, OthersMailbox DEF Live
  <2>3. Disturbed(q) => Disturbed(q)'
    BY <2>2, ProcDisturbed
  <2> QED
    BY <2>1, <2>2, <2>3 DEF CallInv
<1>2. CASE q = p
  <2>1. pc[p] \in Past
    BY <1>2, <1>a DEF ToInv
  <2>2. pc[p] = "up" /\ pc'[p] = "up"
    BY <1>0, <1>2, <2>1, PcEffect DEF Past, Ended
  <2>3. seg' = seg /\ ready[p] > 0
    BY <1>0, <2>2, NamesEffect, SemsEffect
  <2>4. shm'[seg[p]].ack = shm[seg[p]].cmd
    BY <1>0, <2>2, ShmEffect DEF Writes
  <2>5. Disturbed(p) => Disturbed(p)'
    BY <2>3, ProcDisturbed
  <2>6. /\ cl[c].pc \in {"checked", "opened", "waiting"} => cl[c].seg = seg[p]
        /\ cl[c].pc \in {"opened", "waiting"} => cl[c].sem = p
        /\ cl[c].pc = "waiting" =>
             \/ Disturbed(p)
             \/ shm[seg[p]].ack = cl[c].id
             \/ shm[seg[p]].cmd = cl[c].id
    BY <1>2, <2>2 DEF CallInv
  <2>7. cl[c].pc = "waiting" => shm[seg[p]].ack # cl[c].id
    BY <1>a, <2>2, <2>3, <2>6 DEF PostInv, Live
  <2> QED
    BY <1>2, <2>3, <2>4, <2>5, <2>6, <2>7
<1> QED
  BY <1>1, <1>2

LEMMA ProcLink ==
  ASSUME LifeInv, LinkInv, NEW p \in Procs, ProcStep(p)
  PROVE  LinkInv'
<1>1. BaseInv'
  BY ProcSegment, ProcSem, ProcSessions DEF LinkInv, BaseInv
<1>2. ASSUME ~Spoiled' PROVE CleanInv'
  <2>1. ~Spoiled
    BY <1>2, SpoiledStays DEF LinkInv, BaseInv
  <2>2. CleanInv /\ BaseInv
    BY <2>1 DEF LinkInv
  <2> QED
    BY <1>2, <2>2, ProcMagic, ProcAttach, ProcPost, ProcCall DEF CleanInv, BaseInv
<1> QED
  BY <1>1, <1>2 DEF LinkInv

-----------------------------------------------------------------------------
(* What a step of a client does: it ends a call or attaches, begins one,   *)
(* opens the semaphores, or sends.                                         *)

Ends(c) ==
  /\ shm' = shm /\ ready' = ready /\ asked' = asked
  /\ \/ lock' = lock /\ cl[c].pc # "waiting"
     \/ /\ cl[c].pc = "waiting" /\ lock' = [lock EXCEPT ![cl[c].sem] = @ + 1]
        /\ Answered(c) \/ (pc[cl[c].sem] \in Live => ready[cl[c].sem] = 0)
  /\ cl'[c].to = None
  /\ cl'[c].pc \in {"away", "mapped", "dead", "attached"}
  /\ cl'[c].pc = "mapped" => cl'[c].seg = name /\ name # None
  /\ IF cl'[c].pc = "attached"
       THEN /\ c \in Bridges /\ cl[c].pc \in {"mapped", "checked", "opened", "waiting"}
            /\ cl'[c].seg = cl[c].seg /\ cl'[c].sem = cl[c].sem
       ELSE /\ cl'[c].sem = None
            /\ \/ c \in Calls \/ cl[c].pc \in {"away", "mapped", "dead"}
               \/ ~shm[cl[c].seg].magic \/ shm[cl[c].seg].odd

Begins(c) ==
  /\ shm' = shm /\ ready' = ready /\ lock' = lock /\ asked' = asked + 1
  /\ \/ c \in Calls /\ cl[c].pc = "mapped"
     \/ c \in Bridges /\ cl[c].pc = "attached"
  /\ shm[cl[c].seg].magic
  /\ cl'[c].pc = "checked" /\ cl'[c].id = asked + 1
  /\ cl'[c].seg = cl[c].seg /\ cl'[c].sem = cl[c].sem
  /\ cl'[c].to \in Procs => pc[cl'[c].to] = "up"

Opens(c) ==
  /\ shm' = shm /\ ready' = ready /\ lock' = lock /\ asked' = asked
  /\ cl[c].pc = "checked" /\ cl'[c].pc = "opened"
  /\ cl'[c].seg = cl[c].seg /\ cl'[c].id = cl[c].id /\ cl'[c].to = cl[c].to
  /\ IF cl[c].sem # None THEN cl'[c].sem = cl[c].sem
                         ELSE cl'[c].sem = sems /\ sems # None

Sends(c) ==
  /\ asked' = asked
  /\ cl[c].pc = "opened" /\ lock[cl[c].sem] > 0
  /\ lock' = [lock EXCEPT ![cl[c].sem] = @ - 1]
  /\ shm' = [shm EXCEPT ![cl[c].seg].cmd = cl[c].id]
  /\ ready' = [ready EXCEPT ![cl[c].sem] = @ + 1]
  /\ cl'[c].pc = "waiting" /\ cl'[c].seg = cl[c].seg /\ cl'[c].sem = cl[c].sem
  /\ cl'[c].id = cl[c].id /\ cl'[c].to = cl[c].to

ClientMoves(c) == Map(c) \/ OnCmd(c) \/ Continues(c)

LEMMA SessionFields ==
  ASSUME NEW r \in Sessions, NEW n, NEW t, NEW w
  PROVE  /\ LET x == [r EXCEPT !.pc = w, !.id = n, !.to = t]
            IN x.pc = w /\ x.seg = r.seg /\ x.sem = r.sem /\ x.id = n /\ x.to = t
         /\ LET x == [r EXCEPT !.pc = w, !.sem = t]
            IN x.pc = w /\ x.seg = r.seg /\ x.sem = t /\ x.id = r.id /\ x.to = r.to
         /\ LET x == [r EXCEPT !.pc = w]
            IN x.pc = w /\ x.seg = r.seg /\ x.sem = r.sem /\ x.id = r.id /\ x.to = r.to
         /\ LET x == [r EXCEPT !.pc = w, !.seg = t]
            IN x.pc = w /\ x.seg = t /\ x.sem = r.sem /\ x.id = r.id /\ x.to = r.to
BY DEF Sessions

LEMMA ClientEffect ==
  ASSUME LifeTypeOK, SessionInv, NEW c \in Clients, ClientMoves(c)
  PROVE  /\ Ends(c) \/ Begins(c) \/ Opens(c) \/ Sends(c)
         /\ \A d \in Clients : d # c => cl'[d] = cl[d]
<1>0. /\ cl \in [Clients -> Sessions] /\ cl[c] \in Sessions
      /\ NewClient \in Sessions
      /\ c \in Bridges \/ c \in Calls
  BY ProcsType DEF LifeTypeOK, NewClient, Sessions, Clients
<1>1. \A d \in Clients : d # c => cl'[d] = cl[d]
  BY <1>0 DEF ClientMoves, Map, OnCmd, Continues, Verify, OpenSems, Send, Busy, ReadAck,
         NoAnswer, ReadStuck, Respawn
<1>2. NewClient.pc = "away" /\ NewClient.sem = None /\ NewClient.to = None
  BY DEF NewClient
<1>3. /\ Back(c).to = None
      /\ c \in Bridges => /\ Back(c).pc = "attached" /\ Back(c).seg = cl[c].seg
                          /\ Back(c).sem = cl[c].sem
      /\ c \notin Bridges => Back(c) = NewClient
  BY <1>0, <1>2, SessionFields DEF Back
<1>4. /\ Begun(c).pc = "checked" /\ Begun(c).id = asked + 1
      /\ Begun(c).seg = cl[c].seg /\ Begun(c).sem = cl[c].sem
      /\ Begun(c).to \in Procs => pc[Begun(c).to] = "up"
  <2>1. PICK to : to = IF \E p \in Procs : pc[p] = "up" THEN CHOOSE p \in Procs : pc[p] = "up"
                                                        ELSE None
    OBVIOUS
  <2>2. PICK id : id = asked + 1
    OBVIOUS
  <2>3. Begun(c) = [cl[c] EXCEPT !.pc = "checked", !.id = id, !.to = to]
    BY <2>1, <2>2 DEF Begun
  <2>4. to \in Procs => pc[to] = "up"
    BY <2>1, ProcsType
  <2> QED
    BY <1>0, <2>2, <2>3, <2>4, SessionFields
<1>5. CASE Map(c)
  <2>1. /\ shm' = shm /\ ready' = ready /\ asked' = asked /\ lock' = lock
        /\ cl[c].pc = "away" \/ (cl[c].pc = "attached" /\ ~shm[cl[c].seg].magic)
    BY <1>5 DEF Map
  <2>2. \/ cl'[c] = NewClient
        \/ cl'[c] = [NewClient EXCEPT !.pc = "dead"]
        \/ cl'[c] = [NewClient EXCEPT !.pc = "mapped", !.seg = name] /\ name # None
    BY <1>0, <1>5 DEF Map
  <2>3. /\ cl'[c].sem = None /\ cl'[c].to = None
        /\ \/ cl'[c].pc \in {"away", "dead"}
           \/ cl'[c].pc = "mapped" /\ cl'[c].seg = name /\ name # None
    <3>1. CASE cl'[c] = NewClient
      BY <1>2, <3>1
    <3>2. CASE cl'[c] = [NewClient EXCEPT !.pc = "dead"]
      BY <1>0, <1>2, <3>2, SessionFields
    <3>3. CASE cl'[c] = [NewClient EXCEPT !.pc = "mapped", !.seg = name] /\ name # None
      BY <1>0, <1>2, <3>3, SessionFields
    <3> QED
      BY <2>2, <3>1, <3>2, <3>3
  <2> QED
    BY <1>1, <2>1, <2>3 DEF Ends
<1>6. CASE OnCmd(c)
  <2>1. cl'[c] = Begun(c)
    BY <1>0, <1>6 DEF OnCmd
  <2> QED
    BY <1>1, <1>4, <1>6, <2>1 DEF OnCmd, Begins
<1>7. CASE Verify(c)
  <2>0. shm' = shm /\ ready' = ready /\ lock' = lock /\ cl[c].pc = "mapped"
    BY <1>7 DEF Verify
  <2>1. CASE cl'[c] = Begun(c) /\ asked' = asked + 1 /\ c \in Calls /\ shm[cl[c].seg].magic
    BY <1>1, <1>4, <2>0, <2>1 DEF Begins
  <2>2. CASE cl'[c] = Back(c) /\ asked' = asked /\ c \in Bridges
    BY <1>1, <1>3, <2>0, <2>2 DEF Ends
  <2>3. CASE cl'[c] = NewClient /\ asked' = asked
    BY <1>1, <1>2, <2>0, <2>3 DEF Ends
  <2> QED
    BY <1>0, <1>7, <2>1, <2>2, <2>3 DEF Verify, Valid
<1>8. CASE OpenSems(c)
  <2>0. /\ shm' = shm /\ ready' = ready /\ lock' = lock /\ asked' = asked
        /\ cl[c].pc = "checked"
    BY <1>8 DEF OpenSems
  <2>1. CASE cl[c].sem # None /\ cl'[c] = [cl[c] EXCEPT !.pc = "opened"]
    BY <1>0, <1>1, <2>0, <2>1, SessionFields DEF Opens
  <2>2. CASE cl[c].sem = None /\ sems # None /\ cl'[c] = [cl[c] EXCEPT !.pc = "opened", !.sem = sems]
    BY <1>0, <1>1, <2>0, <2>2, SessionFields DEF Opens
  <2>3. CASE cl'[c] = Back(c)
    <3>1. CASE c \in Bridges
      BY <1>1, <1>3, <2>0, <2>3, <3>1 DEF Ends
    <3>2. CASE c \notin Bridges
      BY <1>0, <1>1, <1>2, <1>3, <2>0, <2>3, <3>2 DEF Ends
    <3> QED
      BY <3>1, <3>2
  <2> QED
    BY <1>0, <1>8, <2>1, <2>2, <2>3 DEF OpenSems
<1>9. CASE Send(c)
  <2>1. cl'[c] = [cl[c] EXCEPT !.pc = "waiting"]
    BY <1>0, <1>9 DEF Send
  <2>2. /\ cl'[c].pc = "waiting" /\ cl'[c].seg = cl[c].seg /\ cl'[c].sem = cl[c].sem
        /\ cl'[c].id = cl[c].id /\ cl'[c].to = cl[c].to
    BY <1>0, <2>1, SessionFields
  <2> QED
    BY <1>1, <1>9, <2>2 DEF Send, Sends
<1>10. CASE Busy(c) \/ ReadAck(c) \/ NoAnswer(c)
  <2>0. shm' = shm /\ ready' = ready /\ asked' = asked /\ cl[c].pc \in {"opened", "waiting"}
    BY <1>10 DEF Busy, ReadAck, NoAnswer
  <2>1. \/ lock' = lock /\ cl[c].pc # "waiting"
        \/ /\ cl[c].pc = "waiting" /\ lock' = [lock EXCEPT ![cl[c].sem] = @ + 1]
           /\ Answered(c) \/ (pc[cl[c].sem] \in Live => ready[cl[c].sem] = 0)
    BY <1>10 DEF Busy, ReadAck, NoAnswer, Live
  <2>2. cl'[c] = Back(c)
    BY <1>0, <1>10 DEF Busy, ReadAck, NoAnswer
  <2>3. CASE c \in Bridges
    BY <1>1, <1>3, <2>0, <2>1, <2>2, <2>3 DEF Ends
  <2>4. CASE c \notin Bridges
    BY <1>0, <1>1, <1>2, <1>3, <2>0, <2>1, <2>2, <2>4 DEF Ends
  <2> QED
    BY <2>3, <2>4
<1>11. CASE ReadStuck(c)
  <2>1. /\ shm' = shm /\ ready' = ready /\ asked' = asked /\ lock' = lock
        /\ cl[c].pc = "attached" /\ shm[cl[c].seg].odd
    BY <1>11 DEF ReadStuck
  <2>2. cl'[c] = [NewClient EXCEPT !.pc = "dead"]
    BY <1>0, <1>11 DEF ReadStuck
  <2>3. cl'[c].pc = "dead" /\ cl'[c].sem = None /\ cl'[c].to = None
    BY <1>0, <1>2, <2>2, SessionFields
  <2> QED
    BY <1>1, <2>1, <2>3 DEF Ends
<1>12. CASE Respawn(c)
  <2>1. cl'[c] = NewClient
    BY <1>0, <1>12 DEF Respawn
  <2> QED
    BY <1>1, <1>2, <1>12, <2>1 DEF Respawn, Ends
<1> QED
  BY <1>5, <1>6, <1>7, <1>8, <1>9, <1>10, <1>11, <1>12 DEF ClientMoves, Continues

(* A client changes nothing of a segment but its command, and that only    *)
(* when it sends.                                                          *)
LEMMA ClientShm ==
  ASSUME LifeTypeOK, SessionInv, NEW c \in Clients, ClientMoves(c), NEW s \in Procs
  PROVE  /\ shm'[s].odd = shm[s].odd /\ shm'[s].ack = shm[s].ack
         /\ IF Sends(c) /\ s = cl[c].seg THEN shm'[s].cmd = cl[c].id
                                         ELSE shm'[s].cmd = shm[s].cmd
<1>0. shm \in [Procs -> Segments]
  BY DEF LifeTypeOK
<1>1. CASE Sends(c)
  <2>1. shm' = [shm EXCEPT ![cl[c].seg].cmd = cl[c].id]
    BY <1>1 DEF Sends
  <2>2. CASE s = cl[c].seg
    BY <1>0, <1>1, <2>1, <2>2 DEF Segments
  <2>3. CASE s # cl[c].seg
    BY <1>0, <1>1, <2>1, <2>3
  <2> QED
    BY <2>2, <2>3
<1>2. CASE ~Sends(c)
  <2>1. shm' = shm
    BY <1>2, ClientEffect DEF Ends, Begins, Opens
  <2> QED
    BY <1>2, <2>1
<1> QED
  BY <1>1, <1>2

-----------------------------------------------------------------------------
(* Steps of a client: segments, semaphores and numbers.                    *)

LEMMA ClientSegment ==
  ASSUME LifeInv, BaseInv, NEW c \in Clients, ClientMoves(c)
  PROVE  SegmentInv'
<1>0. LifeTypeOK /\ SessionInv /\ SegmentInv /\ \A p \in Procs : Owns(p)
  BY DEF LifeInv, BaseInv
<1>1. /\ pc' = pc /\ seg' = seg /\ name' = name
      /\ \A s \in Procs : shm'[s].magic = shm[s].magic /\ shm'[s].by = shm[s].by
  BY <1>0, ClientStep DEF ClientMoves, procVars
<1>2. \A s \in Procs : shm'[s].odd = shm[s].odd
  BY <1>0, ClientShm
<1>3. \A p \in Procs : pc[p] \in Cleared \cup {"exit"} => seg[p] \in Procs
  BY <1>0 DEF Owns, Cleared, Locked
<1> QED
  BY <1>0, <1>1, <1>2, <1>3 DEF SegmentInv

LEMMA ClientSem ==
  ASSUME LifeInv, BaseInv, NEW c \in Clients, ClientMoves(c)
  PROVE  SemInv'
<1>0. LifeTypeOK /\ SessionInv /\ SemInv /\ HolderInv
  BY DEF LifeInv, BaseInv
<1>1. pc' = pc /\ sems' = sems
  BY <1>0, ClientStep DEF ClientMoves, procVars
<1>2. /\ Ends(c) \/ Begins(c) \/ Opens(c) \/ Sends(c)
      /\ \A d \in Clients : d # c => cl'[d] = cl[d]
  BY <1>0, ClientEffect
<1>3. cl[c].pc \in {"opened", "waiting"} => cl[c].sem \in Procs
  BY <1>0 DEF SessionInv
<1>4. lock' \in [Procs -> 0 .. 1]
  <2>1. cl[c].pc = "waiting" => lock[cl[c].sem] = 0
    BY <1>0 DEF HolderInv
  <2>2. CASE Sends(c)
    BY <1>0, <1>3, <2>2 DEF Sends, SemInv
  <2>3. CASE ~Sends(c)
    BY <1>0, <1>2, <1>3, <2>1, <2>3 DEF Ends, Begins, Opens, SemInv
  <2> QED
    BY <2>2, <2>3
<1>5. ready' \in [Procs -> Nat]
  BY <1>0, <1>2, <1>3 DEF Ends, Begins, Opens, Sends, SemInv
<1>6. ASSUME NEW p \in Procs, pc[p] \in NoSems
      PROVE  sems # p /\ ready'[p] = 0 /\ \A d \in Clients : cl'[d].sem # p
  <2>1. sems # p /\ ready[p] = 0 /\ \A d \in Clients : cl[d].sem # p
    BY <1>0, <1>6 DEF SemInv
  <2>2. ready'[p] = 0
    BY <1>0, <1>2, <1>3, <2>1 DEF Ends, Begins, Opens, Sends, SemInv
  <2>3. cl'[c].sem # p
    BY <1>2, <2>1, ProcsType DEF Ends, Begins, Opens, Sends
  <2> QED
    BY <1>2, <2>1, <2>2, <2>3
<1> QED
  BY <1>1, <1>4, <1>5, <1>6 DEF SemInv

(* The lock has one holder.                                                *)
LEMMA ClientHolder ==
  ASSUME LifeInv, BaseInv, NEW c \in Clients, ClientMoves(c)
  PROVE  HolderInv'
<1>0. LifeTypeOK /\ SessionInv /\ SemInv /\ HolderInv
  BY DEF LifeInv, BaseInv
<1>1. /\ Ends(c) \/ Begins(c) \/ Opens(c) \/ Sends(c)
      /\ \A d \in Clients : d # c => cl'[d] = cl[d]
  BY <1>0, ClientEffect
<1>2. \A d \in Clients : cl[d].pc \in {"opened", "waiting"} => cl[d].sem \in Procs
  BY <1>0 DEF SessionInv
<1>3. CASE Sends(c)
  <2>1. /\ cl[c].sem \in Procs /\ lock[cl[c].sem] = 1 /\ cl'[c].sem = cl[c].sem
        /\ lock' = [lock EXCEPT ![cl[c].sem] = lock[cl[c].sem] - 1]
    BY <1>0, <1>2, <1>3 DEF Sends, SemInv
  <2>2. lock'[cl[c].sem] = 0
    BY <1>0, <2>1 DEF SemInv
  <2>3. ASSUME NEW d \in Clients, d # c, cl'[d].pc = "waiting"
        PROVE  /\ cl'[d] = cl[d] /\ cl[d].pc = "waiting" /\ cl[d].sem # cl[c].sem
               /\ lock'[cl[d].sem] = 0
    <3>1. cl'[d] = cl[d] /\ cl[d].pc = "waiting" /\ lock[cl[d].sem] = 0
      BY <1>0, <1>1, <2>3 DEF HolderInv
    <3> QED
      BY <1>0, <1>2, <2>1, <3>1 DEF SemInv
  <2> QED
    BY <1>0, <2>1, <2>2, <2>3 DEF HolderInv
<1>4. CASE ~Sends(c)
  <2>1. cl'[c].pc # "waiting"
    BY <1>1, <1>4 DEF Ends, Begins, Opens
  <2>2. ASSUME NEW d \in Clients, cl'[d].pc = "waiting"
        PROVE  /\ d # c /\ cl'[d] = cl[d] /\ cl[d].pc = "waiting"
               /\ lock'[cl[d].sem] = 0
    <3>1. d # c /\ cl'[d] = cl[d] /\ cl[d].pc = "waiting" /\ lock[cl[d].sem] = 0
      BY <1>0, <1>1, <2>1, <2>2 DEF HolderInv
    <3>2. cl[c].pc = "waiting" => cl[c].sem # cl[d].sem
      BY <1>0, <3>1 DEF HolderInv
    <3> QED
      BY <1>0, <1>1, <1>2, <1>4, <3>1, <3>2 DEF Ends, Begins, Opens, SemInv
  <2> QED
    BY <1>0, <2>2 DEF HolderInv
<1> QED
  BY <1>3, <1>4

LEMMA ClientSessions ==
  ASSUME LifeInv, BaseInv, NEW c \in Clients, ClientMoves(c)
  PROVE  SessionInv' /\ ToInv'
<1>0. LifeTypeOK /\ SessionInv /\ ToInv /\ name \in 0 .. MaxStarts /\ sems \in 0 .. MaxStarts
  BY DEF LifeInv, BaseInv, LifeTypeOK
<1>1. /\ Ends(c) \/ Begins(c) \/ Opens(c) \/ Sends(c)
      /\ \A d \in Clients : d # c => cl'[d] = cl[d]
  BY <1>0, ClientEffect
<1>2. pc' = pc
  BY <1>0, ClientStep DEF ClientMoves, procVars
<1>3. cl[c] \in Sessions /\ (c \in Calls => c \notin Bridges)
  BY <1>0, LifecycleAssumption DEF LifeTypeOK
<1>4. /\ cl'[c].pc \in {"mapped", "attached", "checked", "opened", "waiting"}
           => cl'[c].seg \in Procs
      /\ cl'[c].pc \in {"opened", "waiting"} => cl'[c].sem \in Procs
      /\ cl'[c].pc \in {"away", "mapped", "dead"} => cl'[c].sem = None
      /\ c \in Calls => cl'[c].pc # "attached" /\ (cl'[c].pc = "checked" => cl'[c].sem = None)
  <2>0. /\ cl[c].pc \in {"mapped", "attached", "checked", "opened", "waiting"}
             => cl[c].seg \in Procs
        /\ cl[c].pc \in {"opened", "waiting"} => cl[c].sem \in Procs
        /\ cl[c].pc \in {"away", "mapped", "dead"} => cl[c].sem = None
        /\ c \in Calls => cl[c].pc # "attached" /\ (cl[c].pc = "checked" => cl[c].sem = None)
    BY <1>0 DEF SessionInv
  <2>1. CASE Ends(c)
    <3>1. name # None => name \in Procs
      BY <1>0, ProcsType
    <3> QED
      BY <1>3, <2>0, <2>1, <3>1 DEF Ends
  <2>2. CASE Begins(c)
    BY <1>3, <2>0, <2>2 DEF Begins
  <2>3. CASE Opens(c)
    <3>1. cl'[c].sem \in Procs
      BY <1>0, <1>3, <2>3, ProcsType DEF Opens, Sessions
    <3> QED
      BY <2>0, <2>3, <3>1 DEF Opens
  <2>4. CASE Sends(c)
    BY <2>0, <2>4 DEF Sends
  <2> QED
    BY <1>1, <2>1, <2>2, <2>3, <2>4
<1>5. SessionInv'
  <2>1. SUFFICES ASSUME NEW d \in Clients
        PROVE  /\ cl'[d].pc \in {"mapped", "attached", "checked", "opened", "waiting"}
                    => cl'[d].seg \in Procs
               /\ cl'[d].pc \in {"opened", "waiting"} => cl'[d].sem \in Procs
               /\ cl'[d].pc \in {"away", "mapped", "dead"} => cl'[d].sem = None
               /\ d \in Calls => /\ cl'[d].pc # "attached"
                                 /\ cl'[d].pc = "checked" => cl'[d].sem = None
    BY DEF SessionInv
  <2>2. CASE d = c
    BY <1>4, <2>2
  <2>3. CASE d # c
    BY <1>0, <1>1, <2>3 DEF SessionInv
  <2> QED
    BY <2>2, <2>3
<1>6. ToInv'
  <2>1. cl'[c].to \in Procs => pc[cl'[c].to] \in Past
    BY <1>0, <1>1, ProcsType DEF Ends, Begins, Opens, Sends, ToInv, Past
  <2> QED
    BY <1>0, <1>1, <1>2, <2>1 DEF ToInv
<1> QED
  BY <1>5, <1>6

(* A new command has a new number.                                         *)
LEMMA ClientIds ==
  ASSUME LifeInv, BaseInv, NEW c \in Clients, ClientMoves(c)
  PROVE  IdInv'
<1>0. LifeTypeOK /\ SessionInv /\ IdInv /\ asked \in Nat
  BY DEF LifeInv, BaseInv, LifeTypeOK
<1>1. /\ Ends(c) \/ Begins(c) \/ Opens(c) \/ Sends(c)
      /\ \A d \in Clients : d # c => cl'[d] = cl[d]
  BY <1>0, ClientEffect
<1>2. \A s \in Procs : shm[s].cmd =< asked /\ shm[s].ack =< asked
                       /\ shm[s].cmd \in Nat /\ shm[s].ack \in Nat
  <2>1. \A s \in Procs : shm[s] \in Segments
    BY <1>0 DEF LifeTypeOK
  <2> QED
    BY <1>0, <2>1 DEF IdInv, Segments
<1>3. \A d \in Clients :
        cl[d].pc \in Pending =>
          /\ cl[d].id \in 1 .. asked
          /\ \A s \in Procs : shm[s].cmd # cl[d].id /\ shm[s].ack # cl[d].id
          /\ \A e \in Clients : cl[e].pc \in Pending /\ cl[e].id = cl[d].id => e = d
  BY <1>0 DEF IdInv
<1>4. CASE Sends(c)
  <2>1. asked' = asked /\ cl[c].pc \in Pending /\ cl'[c].pc \notin Pending
    BY <1>4 DEF Sends, Pending
  <2>2. \A s \in Procs : shm'[s].ack = shm[s].ack /\ shm'[s].cmd \in {shm[s].cmd, cl[c].id}
    BY <1>0, ClientShm
  <2>3. \A s \in Procs : shm'[s].cmd =< asked /\ shm'[s].ack =< asked
    BY <1>2, <1>3, <2>1, <2>2
  <2>4. ASSUME NEW d \in Clients, cl'[d].pc \in Pending
        PROVE  /\ cl'[d] = cl[d] /\ d # c /\ cl[d].id \in 1 .. asked
               /\ \A s \in Procs : shm'[s].cmd # cl[d].id /\ shm'[s].ack # cl[d].id
    <3>1. cl'[d] = cl[d] /\ d # c /\ cl[d].pc \in Pending
      BY <1>1, <2>1, <2>4
    <3>2. cl[d].id # cl[c].id
      BY <1>3, <2>1, <3>1
    <3> QED
      BY <1>3, <2>2, <3>1, <3>2
  <2> QED
    BY <1>3, <2>1, <2>3, <2>4 DEF IdInv
<1>5. CASE Begins(c)
  <2>1. asked' = asked + 1 /\ shm' = shm /\ cl'[c].id = asked + 1
    BY <1>5 DEF Begins
  <2>2. \A s \in Procs : shm[s].cmd =< asked + 1 /\ shm[s].ack =< asked + 1
    BY <1>0, <1>2
  <2>3. \A s \in Procs : shm[s].cmd # asked + 1 /\ shm[s].ack # asked + 1
    BY <1>0, <1>2
  <2>4. ASSUME NEW d \in Clients, d # c, cl'[d].pc \in Pending
        PROVE  /\ cl'[d] = cl[d] /\ cl[d].pc \in Pending
               /\ cl[d].id \in 1 .. asked + 1 /\ cl[d].id # asked + 1
               /\ \A s \in Procs : shm[s].cmd # cl[d].id /\ shm[s].ack # cl[d].id
    BY <1>0, <1>1, <1>3, <2>4
  <2>5. ASSUME NEW d \in Clients, cl'[d].pc \in Pending
        PROVE  /\ cl'[d].id \in 1 .. asked + 1
               /\ \A s \in Procs : shm[s].cmd # cl'[d].id /\ shm[s].ack # cl'[d].id
    BY <1>0, <2>1, <2>3, <2>4, <2>5
  <2>6. ASSUME NEW d \in Clients, NEW e \in Clients, cl'[d].pc \in Pending,
               cl'[e].pc \in Pending, cl'[e].id = cl'[d].id
        PROVE  e = d
    BY <1>3, <2>1, <2>4, <2>6
  <2> QED
    BY <2>1, <2>2, <2>5, <2>6 DEF IdInv
<1>6. CASE Ends(c) \/ Opens(c)
  <2>1. shm' = shm /\ asked' = asked
    BY <1>6 DEF Ends, Opens
  <2>2. cl'[c].pc \in Pending => cl[c].pc \in Pending /\ cl'[c].id = cl[c].id
    BY <1>6 DEF Ends, Opens, Pending
  <2>3. \A d \in Clients : cl'[d].pc \in Pending => cl[d].pc \in Pending /\ cl'[d].id = cl[d].id
    BY <1>1, <2>2
  <2> QED
    BY <1>2, <1>3, <2>1, <2>3 DEF IdInv
<1> QED
  BY <1>1, <1>4, <1>5, <1>6

-----------------------------------------------------------------------------
(* Steps of a client: headers, attachments, posts and calls.               *)

LEMMA ClientSpoils ==
  ASSUME LifeInv, NEW c \in Clients, ClientMoves(c)
  PROVE  /\ (~Spoiled)' => ~Spoiled
         /\ MagicInv => MagicInv'
<1>1. /\ UNCHANGED procVars
      /\ \A s \in Procs : shm'[s].magic = shm[s].magic /\ shm'[s].by = shm[s].by
  BY ClientStep DEF LifeInv, ClientMoves
<1>2. pc' = pc /\ name' = name /\ overtaken' = overtaken
  BY <1>1 DEF procVars
<1> QED
  BY <1>1, <1>2 DEF Spoiled, Abandoned, MagicInv

(* The segment of a client that finds the magic number is the one of the   *)
(* name, and so the one of the daemon that serves.                         *)
LEMMA ClientAttach ==
  ASSUME LifeInv, BaseInv, CleanInv, overtaken = {}, NEW c \in Clients, ClientMoves(c)
  PROVE  AttachInv'
<1>0. LifeTypeOK /\ SessionInv /\ AttachInv /\ MagicInv
  BY DEF LifeInv, BaseInv, CleanInv
<1>1. /\ Ends(c) \/ Begins(c) \/ Opens(c) \/ Sends(c)
      /\ \A d \in Clients : d # c => cl'[d] = cl[d]
  BY <1>0, ClientEffect
<1>2. pc' = pc /\ seg' = seg
  BY <1>0, ClientStep DEF ClientMoves, procVars
<1> SUFFICES ASSUME NEW d \in Clients, NEW p \in Procs, pc[p] \in Served
             PROVE  /\ cl'[d].pc = "checked" => cl'[d].seg = seg[p]
                    /\ cl'[d].sem = p => cl'[d].seg = seg[p]
                    /\ d \in Calls /\ cl'[d].pc = "opened" /\ cl'[d].seg = seg[p]
                         => cl'[d].sem = p
  BY <1>2 DEF AttachInv
<1>3. name = seg[p] /\ sems = p
  BY DEF LifeInv, NameInv, Served, Locked
<1>4. /\ cl[d].pc = "checked" => cl[d].seg = seg[p]
      /\ cl[d].sem = p => cl[d].seg = seg[p]
      /\ d \in Calls /\ cl[d].pc = "opened" /\ cl[d].seg = seg[p] => cl[d].sem = p
  BY <1>0 DEF AttachInv
<1>5. CASE d # c
  BY <1>1, <1>4, <1>5
<1>6. CASE d = c
  <2>1. CASE Ends(c)
    BY <1>4, <1>6, <2>1, ProcsType DEF Ends
  <2>2. CASE Begins(c)
    <3>1. cl[c].seg \in Procs /\ shm[cl[c].seg].magic
      BY <1>0, <2>2 DEF Begins, SessionInv
    <3>2. cl[c].seg = seg[p]
      BY <1>0, <1>3, <3>1 DEF MagicInv
    <3> QED
      BY <1>6, <2>2, <3>2 DEF Begins
  <2>3. CASE Opens(c)
    <3>1. cl[c].seg = seg[p] /\ (c \in Calls => cl[c].sem = None)
      BY <1>0, <1>4, <1>6, <2>3 DEF Opens, SessionInv
    <3> QED
      BY <1>3, <1>6, <2>3, <3>1 DEF Opens
  <2>4. CASE Sends(c)
    BY <1>4, <1>6, <2>4 DEF Sends
  <2> QED
    BY <1>1, <2>1, <2>2, <2>3, <2>4
<1> QED
  BY <1>5, <1>6

(* Who posts to a daemon that serves has written into its mailbox, and no  *)
(* one else can until the answer.                                          *)
LEMMA ClientPost ==
  ASSUME LifeInv, BaseInv, CleanInv, NEW c \in Clients, ClientMoves(c)
  PROVE  PostInv'
<1>0. LifeTypeOK /\ SessionInv /\ SemInv /\ HolderInv /\ IdInv /\ AttachInv /\ PostInv
  BY DEF LifeInv, BaseInv, CleanInv
<1>1. /\ Ends(c) \/ Begins(c) \/ Opens(c) \/ Sends(c)
      /\ \A d \in Clients : d # c => cl'[d] = cl[d]
  BY <1>0, ClientEffect
<1>2. pc' = pc /\ seg' = seg
  BY <1>0, ClientStep DEF ClientMoves, procVars
<1> SUFFICES ASSUME NEW p \in Procs, pc[p] \in Live, ready'[p] > 0
             PROVE  /\ ready'[p] = 1 /\ lock'[p] = 0
                    /\ shm'[seg[p]].cmd # shm'[seg[p]].ack
                    /\ \A d \in Clients : cl'[d].pc = "waiting" /\ cl'[d].sem = p
                                            => shm'[seg[p]].ack # cl'[d].id
  BY <1>2 DEF PostInv
<1>3. /\ seg[p] \in Procs /\ pc[p] \in Served
      /\ lock[p] \in 0 .. 1 /\ ready[p] \in Nat
      /\ cl[c].sem = p => cl[c].seg = seg[p]
  BY <1>0 DEF LifeInv, Owns, Live, Served, Locked, SemInv, AttachInv
<1>4. ready[p] > 0 =>
        /\ ready[p] = 1 /\ lock[p] = 0
        /\ shm[seg[p]].cmd # shm[seg[p]].ack
        /\ \A d \in Clients : cl[d].pc = "waiting" /\ cl[d].sem = p
                                => shm[seg[p]].ack # cl[d].id
  BY <1>0 DEF PostInv
<1>5. CASE Ends(c)
  <2>1. ready[p] > 0 /\ shm' = shm /\ ready' = ready /\ cl'[c].pc # "waiting"
    BY <1>5 DEF Ends
  <2>2. ~(cl[c].pc = "waiting" /\ cl[c].sem = p)
    <3>1. SUFFICES ASSUME cl[c].pc = "waiting", cl[c].sem = p PROVE FALSE
      OBVIOUS
    <3>2. Answered(c)
      BY <1>5, <2>1, <3>1 DEF Ends
    <3> QED
      BY <1>3, <1>4, <2>1, <3>1, <3>2 DEF Answered
  <2>3. lock'[p] = lock[p]
    BY <1>0, <1>5, <2>2 DEF Ends, SemInv
  <2> QED
    BY <1>1, <1>4, <2>1, <2>3
<1>6. CASE Begins(c) \/ Opens(c)
  <2>1. shm' = shm /\ ready' = ready /\ lock' = lock /\ cl'[c].pc # "waiting"
    BY <1>6 DEF Begins, Opens
  <2> QED
    BY <1>1, <1>4, <2>1
<1>7. CASE Sends(c)
  <2>1. /\ cl[c].pc = "opened" /\ cl[c].sem \in Procs /\ lock[cl[c].sem] > 0
        /\ cl'[c].pc = "waiting" /\ cl'[c].id = cl[c].id /\ cl'[c].sem = cl[c].sem
        /\ lock' = [lock EXCEPT ![cl[c].sem] = lock[cl[c].sem] - 1]
        /\ ready' = [ready EXCEPT ![cl[c].sem] = ready[cl[c].sem] + 1]
    BY <1>0, <1>7 DEF Sends, SessionInv
  <2>2. /\ shm'[seg[p]].ack = shm[seg[p]].ack
        /\ shm'[seg[p]].cmd = IF seg[p] = cl[c].seg THEN cl[c].id ELSE shm[seg[p]].cmd
    BY <1>0, <1>3, <1>7, ClientShm
  <2>3. shm[seg[p]].ack # cl[c].id
    BY <1>0, <1>3, <2>1 DEF IdInv, Pending
  <2>4. CASE cl[c].sem = p
    <3>1. ready[p] = 0
      BY <1>3, <1>4, <2>1, <2>4
    <3>2. ready'[p] = 1 /\ lock'[p] = 0
      BY <1>0, <1>3, <2>1, <2>4, <3>1 DEF SemInv
    <3>3. shm'[seg[p]].cmd # shm'[seg[p]].ack
      BY <1>3, <2>2, <2>3, <2>4
    <3>4. ASSUME NEW d \in Clients, cl'[d].pc = "waiting", cl'[d].sem = p
          PROVE  d = c
      BY <1>0, <1>1, <2>1, <2>4, <3>4 DEF HolderInv
    <3> QED
      BY <2>1, <2>2, <2>3, <3>2, <3>3, <3>4
  <2>5. CASE cl[c].sem # p
    <3>1. ready'[p] = ready[p] /\ lock'[p] = lock[p]
      BY <1>0, <2>1, <2>5 DEF SemInv
    <3>2. \A d \in Clients : cl'[d].pc = "waiting" /\ cl'[d].sem = p
                               => cl'[d] = cl[d]
      BY <1>1, <2>1, <2>5
    <3> QED
      BY <1>4, <2>2, <2>3, <3>1, <3>2
  <2> QED
    BY <2>4, <2>5
<1> QED
  BY <1>1, <1>5, <1>6, <1>7

(* A bridge lets go of a segment only when its magic number is gone or its *)
(* sequence number is stuck, and neither is so while its daemon is up.     *)
LEMMA ClientDisturbed ==
  ASSUME LifeInv, BaseInv, NEW c \in Clients, ClientMoves(c),
         NEW p \in Procs, pc[p] = "up", Disturbed(p)
  PROVE  Disturbed(p)'
<1>0. LifeTypeOK /\ SessionInv /\ SegmentInv /\ Owns(p)
  BY DEF LifeInv, BaseInv
<1>1. /\ Ends(c) \/ Begins(c) \/ Opens(c) \/ Sends(c)
      /\ \A d \in Clients : d # c => cl'[d] = cl[d]
  BY <1>0, ClientEffect
<1>2. pc' = pc /\ seg' = seg
  BY <1>0, ClientStep DEF ClientMoves, procVars
<1>3. shm[seg[p]].magic /\ ~shm[seg[p]].odd
  BY <1>0 DEF Owns, SegmentInv, Headed, Cleared
<1>4. PICK b \in Bridges : Outdated(b) /\ cl[b].seg = seg[p]
  BY DEF Disturbed
<1>5. b \in Clients /\ cl[b].sem # None /\ b \notin Calls
  BY <1>4, LifecycleAssumption DEF Outdated, Clients
<1>6. cl'[b].seg = cl[b].seg /\ cl'[b].sem = cl[b].sem
  <2>1. CASE b # c
    BY <1>1, <1>5, <2>1
  <2>2. CASE b = c
    <3>1. cl[c].pc \notin {"away", "mapped", "dead"}
      BY <1>0, <1>5, <2>2 DEF SessionInv
    <3> QED
      BY <1>1, <1>3, <1>4, <1>5, <2>2, <3>1 DEF Ends, Begins, Opens, Sends
  <2> QED
    BY <2>1, <2>2
<1> QED
  BY <1>2, <1>4, <1>6 DEF Disturbed, Outdated

(* A client that has the semaphores of another process than the one that   *)
(* is up has those of a process that has ended.                            *)
LEMMA OldSems ==
  ASSUME LifeInv, BaseInv, overtaken = {}, NEW p \in Procs, pc[p] = "up",
         NEW c \in Clients, cl[c].sem \in Procs, cl[c].sem # p
  PROVE  Outdated(c)
<1>1. pc[cl[c].sem] \notin NoSems
  BY DEF BaseInv, SemInv
<1>2. pc[cl[c].sem] \notin Locked
  BY SoleOwner DEF Locked
<1>3. pc[cl[c].sem] \in Places
  BY DEF LifeInv, LifeTypeOK
<1>4. Places \subseteq NoSems \cup Locked \cup Ended
  BY DEF Places, NoSems, Early, Locked, Ended
<1> QED
  BY <1>1, <1>2, <1>3, <1>4, ProcsType DEF Outdated

LEMMA ClientCall ==
  ASSUME LifeInv, BaseInv, CleanInv, overtaken = {}, NEW c \in Clients, ClientMoves(c)
  PROVE  CallInv'
<1>0. LifeTypeOK /\ SessionInv /\ SemInv /\ HolderInv /\ AttachInv /\ MagicInv /\ CallInv
  BY DEF LifeInv, BaseInv, CleanInv
<1>1. /\ Ends(c) \/ Begins(c) \/ Opens(c) \/ Sends(c)
      /\ \A d \in Clients : d # c => cl'[d] = cl[d]
  BY <1>0, ClientEffect
<1>2. pc' = pc /\ seg' = seg
  BY <1>0, ClientStep DEF ClientMoves, procVars
<1> SUFFICES ASSUME NEW d \in Calls, NEW p \in Procs, pc[p] = "up", cl'[d].to = p
             PROVE  /\ cl'[d].pc \in {"checked", "opened", "waiting"} => cl'[d].seg = seg[p]
                    /\ cl'[d].pc \in {"opened", "waiting"} => cl'[d].sem = p
                    /\ cl'[d].pc = "waiting" =>
                         \/ Disturbed(p)'
                         \/ shm'[seg[p]].ack = cl'[d].id
                         \/ ready'[p] > 0 /\ shm'[seg[p]].cmd = cl'[d].id
  BY <1>2 DEF CallInv
<1>3. d \in Clients /\ d \notin Bridges
  BY LifecycleAssumption DEF Clients
<1>4. name = seg[p] /\ sems = p /\ seg[p] \in Procs /\ ready[p] \in Nat /\ pc[p] \in Served
  BY <1>0 DEF LifeInv, NameInv, Owns, Served, Locked, SemInv
<1>5. cl[d].to = p =>
        /\ cl[d].pc \in {"checked", "opened", "waiting"} => cl[d].seg = seg[p]
        /\ cl[d].pc \in {"opened", "waiting"} => cl[d].sem = p
        /\ cl[d].pc = "waiting" =>
             \/ Disturbed(p)
             \/ shm[seg[p]].ack = cl[d].id
             \/ ready[p] > 0 /\ shm[seg[p]].cmd = cl[d].id
  BY <1>0 DEF CallInv
<1>6. CASE d = c
  <2>1. CASE Ends(c)
    BY <1>6, <2>1, ProcsType DEF Ends
  <2>2. CASE Begins(c)
    <3>1. cl[c].seg \in Procs /\ shm[cl[c].seg].magic
      BY <1>0, <2>2 DEF Begins, SessionInv
    <3>2. cl[c].seg = seg[p]
      BY <1>0, <1>4, <3>1 DEF MagicInv
    <3> QED
      BY <1>6, <2>2, <3>2 DEF Begins
  <2>3. CASE Opens(c)
    <3>1. cl[c].sem = None
      BY <1>0, <1>6, <2>3 DEF Opens, SessionInv
    <3> QED
      BY <1>4, <1>5, <1>6, <2>3, <3>1 DEF Opens
  <2>4. CASE Sends(c)
    <3>1. /\ cl[c].seg = seg[p] /\ cl[c].sem = p /\ cl'[c].pc = "waiting"
          /\ cl'[c].seg = cl[c].seg /\ cl'[c].sem = cl[c].sem /\ cl'[c].id = cl[c].id
      BY <1>5, <1>6, <2>4 DEF Sends
    <3>2. shm'[seg[p]].cmd = cl[c].id
      BY <1>0, <1>4, <2>4, <3>1, ClientShm
    <3>3. ready'[p] > 0
      BY <1>0, <1>4, <2>4, <3>1 DEF Sends, SemInv
    <3> QED
      BY <1>6, <3>1, <3>2, <3>3
  <2> QED
    BY <1>1, <2>1, <2>2, <2>3, <2>4
<1>7. CASE d # c
  <2>1. cl'[d] = cl[d]
    BY <1>1, <1>3, <1>7
  <2>2. Disturbed(p) => Disturbed(p)'
    BY ClientDisturbed
  <2>3. shm'[seg[p]].ack = shm[seg[p]].ack
    BY <1>0, <1>4, ClientShm
  <2>4. ASSUME cl[d].pc = "waiting", ready[p] > 0, shm[seg[p]].cmd = cl[d].id
        PROVE  Disturbed(p) \/ (ready'[p] > 0 /\ shm'[seg[p]].cmd = cl[d].id)
    <3>1. CASE ~Sends(c)
      <4>1. shm' = shm /\ ready' = ready
        BY <1>1, <3>1 DEF Ends, Begins, Opens
      <4> QED
        BY <2>4, <4>1
    <3>2. CASE Sends(c)
      <4>1. cl[c].pc = "opened" /\ cl[c].sem \in Procs /\ lock[cl[c].sem] > 0
        BY <1>0, <3>2 DEF Sends, SessionInv
      <4>2. cl[d].sem = p /\ lock[p] = 0
        BY <1>0, <1>3, <1>5, <2>1, <2>4 DEF HolderInv
      <4>3. cl[c].sem # p
        BY <1>0, <4>1, <4>2 DEF SemInv
      <4>4. ready'[p] = ready[p]
        BY <1>0, <3>2, <4>3 DEF Sends, SemInv
      <4>5. CASE cl[c].seg = seg[p]
        <5>1. c \in Bridges
          BY <1>0, <1>4, <4>1, <4>3, <4>5 DEF AttachInv, Clients
        <5>2. Outdated(c)
          BY <4>1, <4>3, OldSems
        <5> QED
          BY <4>5, <5>1, <5>2 DEF Disturbed
      <4>6. CASE cl[c].seg # seg[p]
        BY <1>0, <1>4, <2>4, <4>4, <4>6, ClientShm
      <4> QED
        BY <4>5, <4>6
    <3> QED
      BY <3>1, <3>2
  <2> QED
    BY <1>5, <2>1, <2>2, <2>3, <2>4
<1> QED
  BY <1>6, <1>7

LEMMA ClientLink ==
  ASSUME LifeInv, LinkInv, NEW c \in Clients, ClientMoves(c)
  PROVE  LinkInv'
<1>0. BaseInv
  BY DEF LinkInv
<1>1. BaseInv'
  BY <1>0, ClientSegment, ClientSem, ClientHolder, ClientSessions, ClientIds DEF BaseInv
<1>2. ASSUME ~Spoiled' PROVE CleanInv'
  <2>1. ~Spoiled
    BY <1>2, ClientSpoils
  <2>2. CleanInv /\ overtaken = {}
    BY <2>1 DEF LinkInv, Spoiled
  <2>3. MagicInv'
    BY <2>2, ClientSpoils DEF CleanInv
  <2> QED
    BY <1>0, <2>2, <2>3, ClientAttach, ClientPost, ClientCall DEF CleanInv
<1> QED
  BY <1>1, <1>2 DEF LinkInv

-----------------------------------------------------------------------------

LEMMA InitLink == LifeInit => LinkInv
<1> SUFFICES ASSUME LifeInit PROVE LinkInv
  OBVIOUS
<1>1. \A p \in Procs : pc[p] = "none" /\ seg[p] = None /\ p # None
  BY ProcsType DEF LifeInit
<1>2. \A s \in Procs : ~shm[s].magic /\ shm[s].cmd = 0 /\ shm[s].ack = 0
  BY DEF LifeInit, NoSegment
<1>3. \A c \in Clients : cl[c].pc = "away" /\ cl[c].sem = None /\ cl[c].to = None
  BY DEF LifeInit, NewClient
<1>4. SegmentInv
  BY <1>1, <1>2 DEF LifeInit, SegmentInv, Cleared
<1>5. SemInv
  BY <1>1, <1>3 DEF LifeInit, SemInv
<1>6. HolderInv /\ SessionInv /\ ToInv
  BY <1>1, <1>3 DEF HolderInv, SessionInv, ToInv
<1>7. IdInv
  BY <1>2, <1>3 DEF LifeInit, IdInv, Pending
<1>8. CleanInv
  BY <1>1, <1>2 DEF CleanInv, MagicInv, AttachInv, PostInv, CallInv, Served, Live
<1> QED
  BY <1>4, <1>5, <1>6, <1>7, <1>8 DEF LinkInv, BaseInv

(* LinkInv is an invariant.                                                *)
THEOREM LinkInvariant == LifeInit /\ [][LifeNext]_lifeVars => []LinkInv
<1>1. ASSUME LifeInv, LinkInv, [LifeNext]_lifeVars
      PROVE  LinkInv'
  <2>1. CASE \E p \in Procs : Start(p) \/ Runs(p) \/ Fail(p) \/ Stop(p) \/ Kill(p)
    BY <1>1, <2>1, ProcLink DEF ProcStep
  <2>2. CASE \E c \in Clients : Map(c) \/ OnCmd(c) \/ Continues(c)
    BY <1>1, <2>2, ClientLink DEF ClientMoves
  <2>3. CASE UNCHANGED lifeVars
    <3>1. /\ pc' = pc /\ seg' = seg /\ shm' = shm /\ name' = name /\ sems' = sems
          /\ lock' = lock /\ ready' = ready /\ cl' = cl /\ asked' = asked
          /\ overtaken' = overtaken
      BY <2>3 DEF lifeVars
    <3>2. BaseInv'
      BY <1>1, <3>1 DEF LinkInv, BaseInv, SegmentInv, SemInv, HolderInv, SessionInv, ToInv,
                        IdInv
    <3>3. Spoiled' = Spoiled
      BY <3>1 DEF Spoiled, Abandoned
    <3>4. CleanInv => CleanInv'
      BY <3>1 DEF CleanInv, MagicInv, AttachInv, PostInv, CallInv, Disturbed, Outdated
    <3> QED
      BY <1>1, <3>2, <3>3, <3>4 DEF LinkInv
  <2> QED
    BY <1>1, <2>1, <2>2, <2>3 DEF LifeNext, Rest
<1> QED
  BY <1>1, InitLink, LifeInvariant, PTL

(* The supervisor is never woken to take a command again: sems_create      *)
(* gives every daemon a pair of its own, and whoever can post to it has    *)
(* the segment of that daemon mapped (sem_post after the mailbox is        *)
(* written, send_cmd in so101ctl.c and command of the Python class); for   *)
(* any number of daemons, calls and bridges, and deaths at any place.      *)
THEOREM NeverReplays == LifeSpec => NoReplay
<1>1. ASSUME LifeInv, LinkInv, [LifeNext]_lifeVars
      PROVE  [\A p \in Procs : Serve(p) =>
                \/ shm[seg[p]].cmd # shm[seg[p]].ack
                \/ \E s \in Procs : Abandoned(s)
                \/ overtaken # {}]_lifeVars
  <2> SUFFICES ASSUME NEW p \in Procs, Serve(p), ~Spoiled
               PROVE  shm[seg[p]].cmd # shm[seg[p]].ack
    BY DEF Spoiled
  <2>1. PostInv
    BY <1>1 DEF LinkInv, CleanInv
  <2> QED
    BY <2>1 DEF PostInv, Serve, Live
<1> QED
  BY <1>1, LifeInvariant, LinkInvariant, PTL DEF LifeSpec, NoReplay

(* A call of so101ctl that began while a daemon was up, and that one still *)
(* is, never ends with "no answer from supervisor" (send_cmd in            *)
(* so101ctl.c) unless a bridge with the semaphores of an earlier daemon    *)
(* can write over its command; for any number of daemons, calls and        *)
(* bridges, and deaths at any place.                                       *)
THEOREM CallsAlwaysAnswered == LifeSpec => CallsAnswered
<1>1. ASSUME LifeInv, LinkInv, [LifeNext]_lifeVars
      PROVE  [\A c \in Calls : Unanswered(c) =>
                \/ \E b \in Bridges : Outdated(b)
                \/ \E s \in Procs : Abandoned(s)
                \/ overtaken # {}]_lifeVars
  <2> SUFFICES ASSUME NEW c \in Calls, Unanswered(c), ~Spoiled
               PROVE  \E b \in Bridges : Outdated(b)
    BY DEF Spoiled
  <2>1. CallInv
    BY <1>1 DEF LinkInv, CleanInv
  <2>2. PICK p \in Procs : p = cl[c].to /\ pc[p] = "up"
    <3>1. cl[c] \in Sessions
      BY <1>1 DEF LifeInv, LifeTypeOK, Clients
    <3> QED
      BY <3>1, ProcsType DEF Unanswered, Sessions
  <2>3. cl[c].pc = "waiting" /\ ~Answered(c) /\ (pc[cl[c].sem] = "up" => ready[cl[c].sem] = 0)
    BY DEF Unanswered, NoAnswer
  <2>4. /\ cl[c].seg = seg[p] /\ cl[c].sem = p
        /\ \/ Disturbed(p) \/ shm[seg[p]].ack = cl[c].id \/ ready[p] > 0
    BY <2>1, <2>2, <2>3 DEF CallInv
  <2>5. Disturbed(p)
    BY <2>2, <2>3, <2>4 DEF Answered
  <2> QED
    BY <2>5 DEF Disturbed
<1> QED
  BY <1>1, LifeInvariant, LinkInvariant, PTL DEF LifeSpec, CallsAnswered

=============================================================================

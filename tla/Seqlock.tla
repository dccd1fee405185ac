------------------------------ MODULE Seqlock ------------------------------
(***************************************************************************)
(* The seqlock of daemon/include/so101_shm.h, so101_shm_publish and        *)
(* so101_shm_read, one step per access to shared memory.                   *)
(*                                                                         *)
(* memcpy copies the words of the sample in an order nobody fixes, the     *)
(* writer as well as a reader.  The fences keep the accesses to seq on     *)
(* their side of the copy, on both sides, so that the interleavings of     *)
(* these steps are all there is.                                           *)
(*                                                                         *)
(* seq is 32 bits wide and wraps to 0: Modulus stands for 2^32.  A reader  *)
(* that sleeps while the writer stores seq 2^32 times (248 days at 100 Hz) *)
(* cannot tell: NoLap is the assumption that no reader does.               *)
(***************************************************************************)
EXTENDS Naturals

CONSTANTS
  Clients,    \* the readers: supervisor, main and the client processes
  Words,      \* the words of the sample
  Modulus,    \* 2^32
  max_tries,  \* tries of a read, 100
  MaxPub      \* bound: publications in a behaviour

ASSUME SeqlockAssumption ==
  /\ Modulus \in Nat \ {0} /\ Modulus % 2 = 0
  /\ max_tries \in Nat
  /\ MaxPub \in Nat

VARIABLES
  seq,       \* odd while a write is in progress
  s,         \* the sample: for each word the publication it comes from
  published, \* history: publications completed
  copying,   \* the writer is between its two stores of seq
  unwritten, \* the words memcpy has still to write
  rpc,       \* where each reader is in so101_shm_read
  q1,        \* its first load of seq
  dst,       \* its destination buffer
  unread,    \* the words its memcpy has still to read
  k,         \* its tries so far
  out,       \* the sample its last successful read returned
  lapse      \* history: stores of seq since its first load

seqVars == <<seq, s, published, copying, unwritten, rpc, q1, dst, unread, k,
             out, lapse>>
wrVars == <<seq, s, published, copying, unwritten>>

SeqInit ==
  /\ seq = 0
  /\ s = [w \in Words |-> 0]
  /\ published = 0
  /\ copying = FALSE
  /\ unwritten = {}
  /\ rpc = [r \in Clients |-> "idle"]
  /\ q1 = [r \in Clients |-> 0]
  /\ dst = [r \in Clients |-> [w \in Words |-> 0]]
  /\ unread = [r \in Clients |-> {}]
  /\ k = [r \in Clients |-> 0]
  /\ out = [r \in Clients |-> [w \in Words |-> 0]]
  /\ lapse = [r \in Clients |-> 0]

-----------------------------------------------------------------------------
(* The writer: the control thread.                                         *)

Succ(q) == IF q = Modulus - 1 THEN 0 ELSE q + 1

(* A reader between its loads of seq.                                      *)
InTry(r) == rpc[r] \in {"copy", "check"}

NoLap == \A r \in Clients : InTry(r) => lapse[r] < Modulus - 1

(* One store of seq, and its trace in the history.                         *)
StoreSeq ==
  /\ NoLap
  /\ seq' = Succ(seq)
  /\ lapse' = [r \in Clients |-> IF InTry(r) THEN lapse[r] + 1 ELSE 0]

BeginPublish ==
  /\ ~copying /\ published < MaxPub
  /\ StoreSeq
  /\ copying' = TRUE
  /\ unwritten' = Words
  /\ UNCHANGED <<s, published, rpc, q1, dst, unread, k, out>>

WriteWord(w) ==
  /\ copying /\ w \in unwritten
  /\ s' = [s EXCEPT ![w] = published + 1]
  /\ unwritten' = unwritten \ {w}
  /\ UNCHANGED <<seq, published, copying, rpc, q1, dst, unread, k, out, lapse>>

EndPublish ==
  /\ copying /\ unwritten = {}
  /\ StoreSeq
  /\ copying' = FALSE
  /\ published' = published + 1
  /\ UNCHANGED <<s, unwritten, rpc, q1, dst, unread, k, out>>

Writer == BeginPublish \/ EndPublish \/ \E w \in Words : WriteWord(w)

-----------------------------------------------------------------------------
(* A reader.                                                               *)

Call(r) ==
  /\ rpc[r] = "idle"
  /\ rpc' = [rpc EXCEPT ![r] = "load"]
  /\ k' = [k EXCEPT ![r] = 0]
  /\ UNCHANGED <<wrVars, q1, dst, unread, out, lapse>>

(* [mutant of WriteInProgress] the low bit is not looked at                *)
WriteUnnoticed(q) == FALSE

WriteInProgress(q) == q % 2 = 1

(* [mutant of NextTry] a try that met a writer is not counted              *)
NextTryFree(r) == k[r]

NextTry(r) == k[r] + 1

(* The first load; an odd value costs a try.                               *)
Load(r) ==
  /\ rpc[r] = "load" /\ k[r] < max_tries
  /\ q1' = [q1 EXCEPT ![r] = seq]
  /\ IF WriteInProgress(seq)
       THEN /\ k' = [k EXCEPT ![r] = NextTry(r)]
            /\ UNCHANGED <<rpc, unread, lapse>>
       ELSE /\ rpc' = [rpc EXCEPT ![r] = "copy"]
            /\ unread' = [unread EXCEPT ![r] = Words]
            /\ lapse' = [lapse EXCEPT ![r] = 0]
            /\ UNCHANGED k
  /\ UNCHANGED <<wrVars, dst, out>>

ReadWord(r, w) ==
  /\ rpc[r] = "copy" /\ w \in unread[r]
  /\ dst' = [dst EXCEPT ![r][w] = s[w]]
  /\ unread' = [unread EXCEPT ![r] = unread[r] \ {w}]
  /\ rpc' = [rpc EXCEPT ![r] = IF unread[r] = {w} THEN "check" ELSE "copy"]
  /\ UNCHANGED <<wrVars, q1, k, out, lapse>>

(* [mutant of Unmoved] no write in progress now is taken for no write      *)
UnmovedNow(r) == seq % 2 = 0

Unmoved(r) == q1[r] = seq

(* The second load: the copy counts only if seq has not moved.             *)
Verify(r) ==
  /\ rpc[r] = "check"
  /\ IF Unmoved(r)
       THEN /\ out' = [out EXCEPT ![r] = dst[r]]
            /\ rpc' = [rpc EXCEPT ![r] = "idle"]
            /\ UNCHANGED k
       ELSE /\ k' = [k EXCEPT ![r] = NextTry(r)]
            /\ rpc' = [rpc EXCEPT ![r] = "load"]
            /\ UNCHANGED out
  /\ lapse' = [lapse EXCEPT ![r] = 0]
  /\ UNCHANGED <<wrVars, q1, dst, unread>>

(* return -1                                                               *)
Fail(r) ==
  /\ rpc[r] = "load" /\ k[r] >= max_tries
  /\ rpc' = [rpc EXCEPT ![r] = "idle"]
  /\ UNCHANGED <<wrVars, q1, dst, unread, k, out, lapse>>

InCall(r) ==
  \/ Load(r) \/ Verify(r) \/ Fail(r)
  \/ \E w \in Words : ReadWord(r, w)

SeqNext == Writer \/ \E r \in Clients : Call(r) \/ InCall(r)

SeqSpec == SeqInit /\ [][SeqNext]_seqVars

-----------------------------------------------------------------------------
(* Properties.                                                             *)

(* Every variable keeps its type; seq is odd exactly during a copy.        *)
SeqTypeOK ==
  /\ seq \in 0 .. Modulus - 1
  /\ copying \in BOOLEAN
  /\ copying <=> seq % 2 = 1
  /\ s \in [Words -> Nat] /\ published \in Nat
  /\ unwritten \subseteq Words
  /\ rpc \in [Clients -> {"idle", "load", "copy", "check"}]
  /\ q1 \in [Clients -> 0 .. Modulus - 1]
  /\ dst \in [Clients -> [Words -> Nat]] /\ out \in [Clients -> [Words -> Nat]]
  /\ unread \in [Clients -> SUBSET Words]
  /\ k \in [Clients -> Nat] /\ lapse \in [Clients -> Nat]

(* What a read returns is one publication, whole: no read mixes words of   *)
(* two publications, whichever words the writer and the reader had copied  *)
(* when they met, and also across the wrap of seq.                         *)
NeverTorn ==
  \A r \in Clients : \A v, w \in Words : out[r][v] = out[r][w]

(* A read returns the newest publication there is when it returns, and     *)
(* never an older one than the read before it: the seqlock implements the  *)
(* atomic snapshot.                                                        *)
Snapshot == INSTANCE AtomicSnapshot WITH version <- published, got <- out

ImplementsSnapshot == Snapshot!SnapSpec

(* A call of so101_shm_read returns, however fast the writer publishes.    *)
ReadReturns == \A r \in Clients : rpc[r] = "load" ~> rpc[r] = "idle"

=============================================================================

---------------------------- MODULE SeqlockProofs ----------------------------
(***************************************************************************)
(* The seqlock gives whole and current samples, for every number of        *)
(* readers, every size of the sample, every width of seq and every number  *)
(* of tries, across the wrap of seq.                                       *)
(*                                                                         *)
(* The argument: while a reader is between its two loads, seq is its first *)
(* load advanced by the stores the writer made since (`lapse'), modulo the *)
(* width.  An unmoved seq therefore means no store or Modulus of them, and *)
(* NoLap rules the latter out; and with no store since an even load there  *)
(* is no copy in progress and the words read so far are of one sample.     *)
(***************************************************************************)
EXTENDS Seqlock, TLAPS

(* What the words hold, written or not yet.                                *)
WriterInv ==
  /\ ~copying => \A w \in Words : s[w] = published
  /\ copying => \A w \in Words \ unwritten : s[w] = published + 1

(* What a reader in the middle of a try knows.                             *)
TryInv(r) ==
  /\ lapse[r] \in 0 .. Modulus - 1
  /\ \/ seq = q1[r] + lapse[r]
     \/ seq = q1[r] + lapse[r] - Modulus
  /\ lapse[r] = 0 => /\ ~copying
                     /\ \A w \in Words \ unread[r] : dst[r][w] = published
  /\ rpc[r] = "check" => unread[r] = {}

SeqInv ==
  /\ SeqTypeOK
  /\ WriterInv
  /\ \A r \in Clients : InTry(r) => TryInv(r)
  /\ NeverTorn

-----------------------------------------------------------------------------
LEMMA SeqInitInv == SeqInit => SeqInv
<1> SUFFICES ASSUME SeqInit PROVE SeqInv
  OBVIOUS
<1>1. SeqTypeOK
  <2>1. seq \in 0 .. Modulus - 1 /\ q1 \in [Clients -> 0 .. Modulus - 1]
    BY SeqlockAssumption DEF SeqInit
  <2>2. copying <=> seq % 2 = 1
    BY DEF SeqInit
  <2>3. /\ dst \in [Clients -> [Words -> Nat]] /\ out \in [Clients -> [Words -> Nat]]
        /\ unread \in [Clients -> SUBSET Words]
    BY DEF SeqInit
  <2> QED
    BY <2>1, <2>2, <2>3 DEF SeqInit, SeqTypeOK
<1>2. WriterInv /\ NeverTorn
  BY DEF SeqInit, WriterInv, NeverTorn
<1>3. \A r \in Clients : ~InTry(r)
  BY DEF SeqInit, InTry
<1> QED
  BY <1>1, <1>2, <1>3 DEF SeqInv

(* A store of seq flips its parity, stays in the range, and moves seq by   *)
(* one from every first load, modulo the width.                            *)
LEMMA StoreSeqInv ==
  ASSUME SeqInv, StoreSeq
  PROVE  /\ seq' \in 0 .. Modulus - 1
         /\ seq' % 2 = 1 <=> seq % 2 = 0
         /\ lapse' \in [Clients -> Nat]
         /\ \A r \in Clients : InTry(r) =>
              /\ lapse'[r] \in 1 .. Modulus - 1
              /\ \/ seq' = q1[r] + lapse'[r]
                 \/ seq' = q1[r] + lapse'[r] - Modulus
<1>1. seq \in 0 .. Modulus - 1 /\ lapse \in [Clients -> Nat]
  BY DEF SeqInv, SeqTypeOK
<1>2. seq' = Succ(seq) /\ seq' \in 0 .. Modulus - 1
  BY <1>1, SeqlockAssumption DEF StoreSeq, Succ
<1>3. seq' % 2 = 1 <=> seq % 2 = 0
  BY <1>1, <1>2, SeqlockAssumption DEF Succ
<1>4. lapse' = [r \in Clients |-> IF InTry(r) THEN lapse[r] + 1 ELSE 0]
  BY DEF StoreSeq
<1>5. lapse' \in [Clients -> Nat]
  BY <1>1, <1>4
<1>6. ASSUME NEW r \in Clients, InTry(r)
      PROVE  /\ lapse'[r] \in 1 .. Modulus - 1
             /\ \/ seq' = q1[r] + lapse'[r]
                \/ seq' = q1[r] + lapse'[r] - Modulus
  <2>1. lapse'[r] = lapse[r] + 1 /\ lapse[r] < Modulus - 1 /\ lapse[r] \in Nat
    BY <1>1, <1>4, <1>6 DEF StoreSeq, NoLap
  <2>2. q1[r] \in 0 .. Modulus - 1
    BY DEF SeqInv, SeqTypeOK
  <2>3. seq = q1[r] + lapse[r] \/ seq = q1[r] + lapse[r] - Modulus
    BY <1>6 DEF SeqInv, TryInv
  <2> QED
    BY <1>1, <1>2, <2>1, <2>2, <2>3, SeqlockAssumption DEF Succ
<1> QED
  BY <1>2, <1>3, <1>5, <1>6

LEMMA BeginPublishInv ==
  ASSUME SeqInv, BeginPublish
  PROVE  SeqInv'
<1>0. UNCHANGED <<s, published, rpc, q1, dst, unread, k, out>> /\ StoreSeq
      /\ ~copying /\ copying' /\ unwritten' = Words /\ copying' \in BOOLEAN
  BY DEF BeginPublish
<1>1. SeqTypeOK'
  BY <1>0, StoreSeqInv DEF SeqInv, SeqTypeOK
<1>2. WriterInv' /\ NeverTorn'
  BY <1>0 DEF SeqInv, WriterInv, NeverTorn
<1>3. ASSUME NEW r \in Clients, InTry(r)'
      PROVE  TryInv(r)'
  <2>1. InTry(r)
    BY <1>0, <1>3 DEF InTry
  <2>2. TryInv(r)
    BY <2>1 DEF SeqInv
  <2>3. /\ lapse'[r] \in 1 .. Modulus - 1
        /\ seq' = q1[r] + lapse'[r] \/ seq' = q1[r] + lapse'[r] - Modulus
    BY <1>0, <2>1, StoreSeqInv
  <2> QED
    BY <1>0, <2>2, <2>3, SeqlockAssumption DEF TryInv
<1> QED
  BY <1>1, <1>2, <1>3 DEF SeqInv

LEMMA EndPublishInv ==
  ASSUME SeqInv, EndPublish
  PROVE  SeqInv'
<1>0. UNCHANGED <<s, unwritten, rpc, q1, dst, unread, k, out>> /\ StoreSeq
      /\ copying /\ ~copying' /\ unwritten = {} /\ published' = published + 1
      /\ copying' \in BOOLEAN
  BY DEF EndPublish
<1>1. SeqTypeOK'
  BY <1>0, StoreSeqInv DEF SeqInv, SeqTypeOK
<1>2. WriterInv' /\ NeverTorn'
  BY <1>0 DEF SeqInv, WriterInv, NeverTorn
<1>3. ASSUME NEW r \in Clients, InTry(r)'
      PROVE  TryInv(r)'
  <2>1. InTry(r)
    BY <1>0, <1>3 DEF InTry
  <2>2. TryInv(r)
    BY <2>1 DEF SeqInv
  <2>3. /\ lapse'[r] \in 1 .. Modulus - 1
        /\ seq' = q1[r] + lapse'[r] \/ seq' = q1[r] + lapse'[r] - Modulus
    BY <1>0, <2>1, StoreSeqInv
  <2> QED
    BY <1>0, <2>2, <2>3, SeqlockAssumption DEF TryInv
<1> QED
  BY <1>1, <1>2, <1>3 DEF SeqInv

LEMMA WriteWordInv ==
  ASSUME SeqInv, NEW w \in Words, WriteWord(w)
  PROVE  SeqInv'
<1>0. /\ UNCHANGED <<seq, published, copying, rpc, q1, dst, unread, k, out, lapse>>
      /\ copying /\ unwritten' = unwritten \ {w}
      /\ s' = [s EXCEPT ![w] = published + 1]
  BY DEF WriteWord
<1>1. SeqTypeOK'
  BY <1>0 DEF SeqInv, SeqTypeOK
<1>2. WriterInv' /\ NeverTorn'
  BY <1>0 DEF SeqInv, SeqTypeOK, WriterInv, NeverTorn
<1>3. \A r \in Clients : InTry(r)' => TryInv(r)'
  BY <1>0 DEF SeqInv, InTry, TryInv
<1> QED
  BY <1>1, <1>2, <1>3 DEF SeqInv

LEMMA LoadInv ==
  ASSUME SeqInv, NEW r \in Clients, Load(r)
  PROVE  SeqInv'
<1>0. UNCHANGED <<wrVars, dst, out>> /\ q1' = [q1 EXCEPT ![r] = seq]
  BY DEF Load
<1>1. CASE WriteInProgress(seq)
  <2>0. k' = [k EXCEPT ![r] = k[r] + 1] /\ UNCHANGED <<rpc, unread, lapse>>
        /\ rpc[r] = "load"
    BY <1>1 DEF Load, NextTry
  <2>1. SeqTypeOK'
    BY <1>0, <2>0 DEF SeqInv, SeqTypeOK, wrVars
  <2>2. WriterInv' /\ NeverTorn'
    BY <1>0 DEF SeqInv, WriterInv, NeverTorn, wrVars
  <2>3. \A x \in Clients : InTry(x)' => x # r /\ InTry(x)
    BY <2>0 DEF InTry
  <2>4. \A x \in Clients : InTry(x)' => TryInv(x)'
    BY <1>0, <2>0, <2>3 DEF SeqInv, SeqTypeOK, TryInv, wrVars
  <2> QED
    BY <2>1, <2>2, <2>4 DEF SeqInv
<1>2. CASE ~WriteInProgress(seq)
  <2>0. /\ rpc' = [rpc EXCEPT ![r] = "copy"]
        /\ unread' = [unread EXCEPT ![r] = Words]
        /\ lapse' = [lapse EXCEPT ![r] = 0]
        /\ k' = k
    BY <1>2 DEF Load
  <2>1. SeqTypeOK'
    BY <1>0, <2>0 DEF SeqInv, SeqTypeOK, wrVars
  <2>2. WriterInv' /\ NeverTorn'
    BY <1>0 DEF SeqInv, WriterInv, NeverTorn, wrVars
  <2>3. TryInv(r)'
    BY <1>0, <1>2, <2>0, SeqlockAssumption
       DEF SeqInv, SeqTypeOK, TryInv, WriteInProgress, wrVars
  <2>4. ASSUME NEW x \in Clients, x # r, InTry(x)'
        PROVE  TryInv(x)'
    <3>1. InTry(x)
      BY <2>0, <2>4 DEF InTry, SeqInv, SeqTypeOK
    <3> QED
      BY <1>0, <2>0, <2>4, <3>1 DEF SeqInv, SeqTypeOK, TryInv, wrVars
  <2> QED
    BY <2>1, <2>2, <2>3, <2>4 DEF SeqInv
<1> QED
  BY <1>1, <1>2

LEMMA ReadWordInv ==
  ASSUME SeqInv, NEW r \in Clients, NEW w \in Words, ReadWord(r, w)
  PROVE  SeqInv'
<1>0. /\ UNCHANGED <<wrVars, q1, k, out, lapse>>
      /\ rpc[r] = "copy" /\ w \in unread[r]
      /\ dst' = [dst EXCEPT ![r] = [dst[r] EXCEPT ![w] = s[w]]]
      /\ unread' = [unread EXCEPT ![r] = unread[r] \ {w}]
      /\ rpc' = [rpc EXCEPT ![r] = IF unread[r] = {w} THEN "check" ELSE "copy"]
  BY DEF ReadWord
<1>1. SeqTypeOK'
  BY <1>0 DEF SeqInv, SeqTypeOK, wrVars
<1>2. WriterInv' /\ NeverTorn'
  BY <1>0 DEF SeqInv, WriterInv, NeverTorn, wrVars
<1>3. TryInv(r)'
  <2>1. TryInv(r)
    BY <1>0 DEF SeqInv, InTry
  <2>2. /\ unread'[r] = unread[r] \ {w}
        /\ rpc'[r] = "check" => unread'[r] = {}
    BY <1>0 DEF SeqInv, SeqTypeOK
  <2>3. /\ dst'[r][w] = s[w]
        /\ \A v \in Words \ {w} : dst'[r][v] = dst[r][v]
    BY <1>0 DEF SeqInv, SeqTypeOK
  <2>4. ~copying => s[w] = published
    BY DEF SeqInv, WriterInv
  <2> QED
    BY <1>0, <2>1, <2>2, <2>3, <2>4 DEF TryInv, wrVars
<1>4. ASSUME NEW x \in Clients, x # r, InTry(x)'
      PROVE  TryInv(x)'
  <2>1. InTry(x)
    BY <1>0, <1>4 DEF InTry, SeqInv, SeqTypeOK
  <2> QED
    BY <1>0, <1>4, <2>1 DEF SeqInv, SeqTypeOK, TryInv, wrVars
<1> QED
  BY <1>1, <1>2, <1>3, <1>4 DEF SeqInv

(* What a reader accepts is the newest publication, whole.                 *)
LEMMA AcceptedIsCurrent ==
  ASSUME SeqInv, NEW r \in Clients, rpc[r] = "check", Unmoved(r)
  PROVE  dst[r] = [w \in Words |-> published]
<1>1. TryInv(r)
  BY DEF SeqInv, InTry
<1>2. lapse[r] = 0
  <2>1. seq = q1[r] /\ q1[r] \in 0 .. Modulus - 1
    BY DEF Unmoved, SeqInv, SeqTypeOK
  <2>2. /\ lapse[r] \in 0 .. Modulus - 1
        /\ seq = q1[r] + lapse[r] \/ seq = q1[r] + lapse[r] - Modulus
    BY <1>1 DEF TryInv
  <2> QED
    BY <2>1, <2>2, SeqlockAssumption
<1>3. \A w \in Words : dst[r][w] = published
  BY <1>1, <1>2 DEF TryInv
<1> QED
  BY <1>3 DEF SeqInv, SeqTypeOK

LEMMA VerifyInv ==
  ASSUME SeqInv, NEW r \in Clients, Verify(r)
  PROVE  SeqInv'
<1>0. /\ UNCHANGED <<wrVars, q1, dst, unread>> /\ rpc[r] = "check"
      /\ lapse' = [lapse EXCEPT ![r] = 0]
  BY DEF Verify
<1>1. /\ out' \in [Clients -> [Words -> Nat]] /\ k' \in [Clients -> Nat]
      /\ NeverTorn'
  <2>1. CASE Unmoved(r)
    <3>1. out' = [out EXCEPT ![r] = dst[r]] /\ k' = k
      BY <2>1 DEF Verify
    <3>2. dst[r] = [w \in Words |-> published]
      BY <1>0, <2>1, AcceptedIsCurrent
    <3> QED
      BY <3>1, <3>2 DEF SeqInv, SeqTypeOK, NeverTorn
  <2>2. CASE ~Unmoved(r)
    BY <2>2 DEF Verify, NextTry, SeqInv, SeqTypeOK, NeverTorn
  <2> QED
    BY <2>1, <2>2
<1>2. \E pc \in {"idle", "load"} : rpc' = [rpc EXCEPT ![r] = pc]
  BY DEF Verify
<1>3. SeqTypeOK'
  BY <1>0, <1>1, <1>2 DEF SeqInv, SeqTypeOK, wrVars
<1>4. WriterInv'
  BY <1>0 DEF SeqInv, WriterInv, wrVars
<1>5. ASSUME NEW x \in Clients, InTry(x)'
      PROVE  TryInv(x)'
  <2>1. x # r /\ InTry(x)
    BY <1>2, <1>5 DEF InTry, SeqInv, SeqTypeOK
  <2> QED
    BY <1>0, <1>2, <2>1 DEF SeqInv, SeqTypeOK, TryInv, wrVars
<1> QED
  BY <1>1, <1>3, <1>4, <1>5 DEF SeqInv

(* Entering and leaving so101_shm_read without a result.                   *)
LEMMA CallInv ==
  ASSUME SeqInv, NEW r \in Clients, Call(r) \/ Fail(r)
  PROVE  SeqInv'
<1>0. /\ UNCHANGED <<wrVars, q1, dst, unread, out, lapse>>
      /\ \E pc \in {"idle", "load"} : rpc' = [rpc EXCEPT ![r] = pc]
      /\ k' \in [Clients -> Nat]
  BY DEF Call, Fail, SeqInv, SeqTypeOK
<1>1. SeqTypeOK'
  BY <1>0 DEF SeqInv, SeqTypeOK, wrVars
<1>2. WriterInv' /\ NeverTorn'
  BY <1>0 DEF SeqInv, WriterInv, NeverTorn, wrVars
<1>3. ASSUME NEW x \in Clients, InTry(x)'
      PROVE  TryInv(x)'
  <2>1. x # r /\ InTry(x)
    BY <1>0, <1>3 DEF InTry, SeqInv, SeqTypeOK
  <2> QED
    BY <1>0, <2>1 DEF SeqInv, SeqTypeOK, TryInv, wrVars
<1> QED
  BY <1>1, <1>2, <1>3 DEF SeqInv

LEMMA SeqNextInv ==
  ASSUME SeqInv, [SeqNext]_seqVars
  PROVE  SeqInv'
<1>1. CASE Writer
  BY <1>1, BeginPublishInv, EndPublishInv, WriteWordInv DEF Writer
<1>2. CASE \E r \in Clients : Call(r) \/ InCall(r)
  BY <1>2, CallInv, LoadInv, VerifyInv, ReadWordInv DEF InCall
<1>3. CASE UNCHANGED seqVars
  BY <1>3 DEF seqVars, SeqInv, SeqTypeOK, WriterInv, NeverTorn, InTry, TryInv
<1> QED
  BY <1>1, <1>2, <1>3 DEF SeqNext

(* SeqInv is an invariant of the seqlock.                                  *)
THEOREM SeqInvariant == SeqSpec => []SeqInv
BY SeqInitInv, SeqNextInv, PTL DEF SeqSpec

(* seq, the buffers and the counters keep their types, and seq is odd      *)
(* exactly while so101_shm_publish copies.                                 *)
THEOREM SeqTypeCorrect == SeqSpec => []SeqTypeOK
<1>1. SeqInv => SeqTypeOK
  BY DEF SeqInv
<1> QED
  BY <1>1, SeqInvariant, PTL

(* so101_shm_read never returns a mix of two publications.                 *)
THEOREM ReadsNeverTorn == SeqSpec => []NeverTorn
<1>1. SeqInv => NeverTorn
  BY DEF SeqInv
<1> QED
  BY <1>1, SeqInvariant, PTL

(* so101_shm_publish and so101_shm_read implement the atomic snapshot: a   *)
(* read that succeeds takes effect at its second load of seq, on the       *)
(* newest publication.                                                     *)
THEOREM SeqlockImplementsSnapshot == SeqSpec => ImplementsSnapshot
<1>1. SeqInit => Snapshot!SnapInit
  BY DEF SeqInit, Snapshot!SnapInit, Snapshot!Whole
<1>2. ASSUME SeqInv, [SeqNext]_seqVars
      PROVE  [Snapshot!SnapNext]_(Snapshot!snapVars)
  <2> USE DEF Snapshot!SnapNext, Snapshot!snapVars
  <2>1. CASE EndPublish
    BY <2>1 DEF EndPublish, Snapshot!Publish
  <2>2. CASE BeginPublish \/ \E w \in Words : WriteWord(w)
    BY <2>2 DEF BeginPublish, WriteWord
  <2>3. ASSUME NEW r \in Clients, Verify(r)
        PROVE  [Snapshot!SnapNext]_(Snapshot!snapVars)
    <3>1. CASE Unmoved(r)
      <4>1. dst[r] = [w \in Words |-> published]
        BY <1>2, <2>3, <3>1, AcceptedIsCurrent DEF Verify
      <4> QED
        BY <2>3, <3>1, <4>1 DEF Verify, wrVars, Snapshot!Read, Snapshot!Whole
    <3>2. CASE ~Unmoved(r)
      BY <2>3, <3>2 DEF Verify, wrVars
    <3> QED
      BY <3>1, <3>2
  <2>4. ASSUME NEW r \in Clients,
               Call(r) \/ Load(r) \/ Fail(r) \/ \E w \in Words : ReadWord(r, w)
        PROVE  UNCHANGED <<published, out>>
    BY <2>4 DEF Call, Load, Fail, ReadWord, wrVars
  <2>5. CASE UNCHANGED seqVars
    BY <2>5 DEF seqVars
  <2> QED
    BY <1>2, <2>1, <2>2, <2>3, <2>4, <2>5 DEF SeqNext, Writer, InCall
<1> QED
  BY <1>1, <1>2, SeqInvariant, PTL DEF SeqSpec, ImplementsSnapshot, Snapshot!SnapSpec

=============================================================================

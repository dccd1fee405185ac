---------------------------- MODULE LoggerProofs ----------------------------
(***************************************************************************)
(* so101_log accounts for every cycle, for every size of the sample, every *)
(* width of seq and every pace of the daemon.                              *)
(*                                                                         *)
(* so101_log beside the daemon is the seqlock with one reader, so that all *)
(* of SeqlockProofs holds of it: a row is the newest publication, whole.   *)
(* LogInv adds what the loop keeps from turn to turn.                      *)
(***************************************************************************)
EXTENDS Logger, SeqlockProofs

(* The cycle of a row.                                                     *)
Cycle(i) == file[i][CycleWord]

LogTypeOK ==
  /\ file \in Seq([Words -> Nat])
  /\ first \in Nat /\ last \in Nat /\ missed \in Nat

RowsInv ==
  /\ \A i \in 1 .. Len(file) : file[i] = [w \in Words |-> Cycle(i)]
  /\ \A i \in 1 .. Len(file) - 1 : Cycle(i) < Cycle(i + 1)

(* first and last are those of the file, and the count of missed cycles is *)
(* the difference between the numbers and the rows.                        *)
CountInv ==
  /\ last =< published
  /\ Len(file) = 0 => first = 0 /\ last = 0 /\ missed = 0
  /\ Len(file) > 0 => /\ first > 0
                      /\ first = Cycle(1) /\ last = Cycle(Len(file))
                      /\ missed + Len(file) = (last - first) + 1

LogInv == LogTypeOK /\ RowsInv /\ CountInv

-----------------------------------------------------------------------------
LEMMA LoggerReads == logger \in Clients /\ CycleWord \in Words
BY LoggerAssumption

(* Every step of the two is a step of the seqlock, or leaves it alone.     *)
LEMMA LogStepIsSeqStep ==
  ASSUME [LogNext]_logVars
  PROVE  [SeqNext]_seqVars
<1>1. CASE Publishes \/ Poll \/ Reading
  BY <1>1, LoggerReads DEF Publishes, Poll, Reading, SeqNext
<1>2. CASE DaemonStops \/ LeaveLoop \/ AllLeft \/ UNCHANGED logVars
  BY <1>2 DEF DaemonStops, LeaveLoop, AllLeft, logVars
<1> QED
  BY <1>1, <1>2 DEF LogNext

(* so101_log beside the daemon is the seqlock with one reader.             *)
THEOREM LoggerIsReader == LogSpec => SeqSpec
<1>1. LogInit => SeqInit
  BY DEF LogInit
<1> QED
  BY <1>1, LogStepIsSeqStep, PTL DEF LogSpec, SeqSpec

LEMMA LogInitInv == LogInit => LogInv
BY DEF LogInit, SeqInit, LogInv, LogTypeOK, RowsInv, CountInv

(* The writer's count of publications only grows.                          *)
LEMMA PublishedGrows ==
  ASSUME SeqInv, [SeqNext]_seqVars
  PROVE  published \in Nat /\ published' \in Nat /\ published =< published'
<1>1. published \in Nat
  BY DEF SeqInv, SeqTypeOK
<1>2. published' = published \/ published' = published + 1
  BY DEF SeqNext, Writer, BeginPublish, EndPublish, WriteWord, Call, InCall, Load, ReadWord,
         Verify, Fail, wrVars, seqVars
<1> QED
  BY <1>1, <1>2

(* A row: the newest publication, later than the last row.                 *)
LEMMA RowInv ==
  ASSUME SeqInv, LogInv, Verify(logger), Unmoved(logger),
         NEW c, c = dst[logger][CycleWord], c # last, Row(c)
  PROVE  LogInv'
<1>0. PICK n \in Nat : n = Len(file)
  BY DEF LogInv, LogTypeOK
<1>1. /\ dst[logger] = [w \in Words |-> published] /\ c = published
      /\ published \in Nat /\ UNCHANGED published
  <2>1. dst[logger] = [w \in Words |-> published]
    BY LoggerReads, AcceptedIsCurrent DEF Verify
  <2> QED
    BY <2>1, LoggerReads DEF Verify, wrVars, SeqInv, SeqTypeOK
<1>2. c \in Nat /\ c > last /\ last \in Nat
  BY <1>1 DEF LogInv, LogTypeOK, CountInv
<1>3. /\ file' = Append(file, dst[logger])
      /\ dst[logger] \in [Words -> Nat]
  BY <1>1 DEF Row, LogInv, LogTypeOK
<1>4. /\ file' \in Seq([Words -> Nat]) /\ Len(file') = n + 1
      /\ file'[n + 1] = dst[logger]
      /\ \A i \in 1 .. n : file'[i] = file[i]
  BY <1>0, <1>3 DEF LogInv, LogTypeOK
<1>5. LogTypeOK'
  <2>1. Gap(c) \in Nat
    BY <1>2 DEF Gap
  <2> QED
    BY <1>2, <1>4, <2>1 DEF Row, LogInv, LogTypeOK
<1>6. Cycle(n + 1)' = c /\ \A i \in 1 .. n : Cycle(i)' = Cycle(i)
  BY <1>1, <1>4, LoggerReads DEF Cycle
<1>7. RowsInv'
  <2>1. \A i \in 1 .. n + 1 : file'[i] = [w \in Words |-> Cycle(i)']
    <3> SUFFICES ASSUME NEW i \in 1 .. n + 1
                 PROVE  file'[i] = [w \in Words |-> Cycle(i)']
      OBVIOUS
    <3>1. CASE i = n + 1
      BY <1>1, <1>4, <1>6, <3>1
    <3>2. CASE i \in 1 .. n
      BY <1>0, <1>4, <1>6, <3>2 DEF LogInv, RowsInv
    <3> QED
      BY <1>0, <3>1, <3>2
  <2>2. \A i \in 1 .. n : Cycle(i)' < Cycle(i + 1)'
    <3> SUFFICES ASSUME NEW i \in 1 .. n
                 PROVE  Cycle(i)' < Cycle(i + 1)'
      OBVIOUS
    <3>1. CASE i = n
      <4>1. Cycle(n) = last
        BY <1>0, <3>1 DEF LogInv, CountInv
      <4> QED
        BY <1>2, <1>6, <3>1, <4>1
    <3>2. CASE i \in 1 .. n - 1
      <4>1. Cycle(i) < Cycle(i + 1) /\ i + 1 \in 1 .. n
        BY <1>0, <3>2 DEF LogInv, RowsInv
      <4> QED
        BY <1>6, <4>1
    <3> QED
      BY <1>0, <3>1, <3>2
  <2> QED
    BY <1>0, <1>4, <2>1, <2>2 DEF RowsInv
<1>8. CountInv'
  <2>1. last' = c /\ missed' = missed + Gap(c) /\ first' = IF first = 0 THEN c ELSE first
    BY DEF Row
  <2>2. missed \in Nat /\ first \in Nat
    BY DEF LogInv, LogTypeOK
  <2>3. CASE n = 0
    <3>1. first = 0 /\ last = 0
      BY <1>0, <2>3 DEF LogInv, CountInv
    <3>2. Cycle(1)' = c
      BY <1>6, <2>3
    <3>3. missed' = missed
      BY <2>1, <2>2, <3>1 DEF Gap
    <3>4. missed = 0
      BY <1>0, <2>3 DEF LogInv, CountInv
    <3> QED
      BY <1>1, <1>2, <1>4, <1>6, <2>1, <2>3, <3>1, <3>2, <3>3, <3>4 DEF CountInv
  <2>4. CASE n > 0
    <3>1. first > 0 /\ first = Cycle(1) /\ missed + n = (last - first) + 1
      BY <1>0, <2>4 DEF LogInv, CountInv
    <3>2. 1 \in 1 .. n /\ Cycle(1)' = first
      BY <1>0, <1>6, <2>4, <3>1
    <3>3. Gap(c) = c - last - 1
      BY <1>2, <2>2, <3>1 DEF Gap
    <3>4. missed' + (n + 1) = (c - first) + 1
      <4>1. missed' = missed + (c - last - 1)
        BY <2>1, <3>3
      <4> QED
        BY <1>2, <2>2, <3>1, <4>1
    <3>5. first' = first
      BY <2>1, <2>2, <3>1
    <3> QED
      BY <1>1, <1>2, <1>4, <1>6, <2>1, <3>1, <3>2, <3>4, <3>5 DEF CountInv
  <2> QED
    BY <1>0, <2>3, <2>4
<1> QED
  BY <1>5, <1>7, <1>8 DEF LogInv

LEMMA LogNextInv ==
  ASSUME SeqInv, LogInv, [LogNext]_logVars
  PROVE  LogInv'
<1>1. CASE UNCHANGED rowVars
  <2>1. published \in Nat /\ published' \in Nat /\ published =< published'
    BY LogStepIsSeqStep, PublishedGrows
  <2>2. UNCHANGED <<file, first, last, missed>>
    BY <1>1 DEF rowVars
  <2>3. LogTypeOK' /\ RowsInv'
    BY <2>2 DEF LogInv, LogTypeOK, RowsInv, Cycle
  <2>4. last' =< published'
    BY <2>1, <2>2 DEF LogInv, CountInv, LogTypeOK
  <2>5. CountInv'
    BY <2>2, <2>4 DEF LogInv, CountInv, Cycle
  <2> QED
    BY <2>3, <2>5 DEF LogInv
<1>2. CASE Reading /\ ~UNCHANGED rowVars
  <2>1. /\ rpc[logger] = "check" /\ Unmoved(logger) /\ InCall(logger)
        /\ dst[logger][CycleWord] # last /\ Row(dst[logger][CycleWord])
    BY <1>2 DEF Reading
  <2>2. Verify(logger)
    BY <2>1 DEF InCall, Load, Fail, ReadWord
  <2> QED
    BY <2>1, <2>2, RowInv
<1> QED
  BY <1>1, <1>2 DEF LogNext, Publishes, DaemonStops, Poll, LeaveLoop, AllLeft, logVars, rowVars

(* The file holds each cycle at most once, whole and in order, and the     *)
(* cycles so101_log reports as missed are exactly the ones the file leaves *)
(* out between its first row and its last (so101_log.c).                   *)
THEOREM LogAlwaysAccounts == LogSpec => []LogAccounts
<1>1. LogSpec => []SeqInv
  BY LoggerIsReader, SeqInvariant, PTL
<1>2. LogSpec => []LogInv
  BY <1>1, LogInitInv, LogNextInv, PTL DEF LogSpec
<1>3. LogInv => LogAccounts
  <2> SUFFICES ASSUME LogInv PROVE LogAccounts
    OBVIOUS
  <2> DEFINE cycles == [i \in 1 .. Len(file) |-> file[i][CycleWord]]
  <2>1. \A i \in 1 .. Len(file) : cycles[i] = Cycle(i)
    BY DEF Cycle
  <2>2. Len(file) \in Nat /\ (file # <<>> => Len(file) > 0)
    BY DEF LogInv, LogTypeOK
  <2>3. \A i \in 1 .. Len(file) : file[i] = [w \in Words |-> cycles[i]]
    BY <2>1 DEF LogInv, RowsInv
  <2>4. \A i \in 1 .. Len(file) - 1 : cycles[i] < cycles[i + 1]
    <3> SUFFICES ASSUME NEW i \in 1 .. Len(file) - 1
                 PROVE  cycles[i] < cycles[i + 1]
      OBVIOUS
    <3>1. i \in 1 .. Len(file) /\ i + 1 \in 1 .. Len(file)
      BY <2>2
    <3> QED
      BY <2>1, <3>1 DEF LogInv, RowsInv
  <2>5. file # <<>> => missed + Len(file) = cycles[Len(file)] - cycles[1] + 1
    BY <2>1, <2>2 DEF LogInv, CountInv
  <2> QED
    BY <2>3, <2>4, <2>5 DEF LogAccounts
<1> QED
  BY <1>2, <1>3, PTL

=============================================================================

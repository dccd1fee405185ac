------------------------------- MODULE Logger -------------------------------
(***************************************************************************)
(* so101_log beside the writer of the seqlock: it polls the sample and     *)
(* appends a row for each cycle it has not seen.  The readers of the       *)
(* segment do not disturb each other, so there is this one.  A sample      *)
(* carries the number of its cycle, which is that of its publication: any  *)
(* word of it can stand for the field `cycle'.                             *)
(***************************************************************************)
EXTENDS Seqlock, Sequences

CONSTANTS
  logger,     \* the process of so101_log
  CycleWord   \* the word of the sample that holds `cycle'

ASSUME LoggerAssumption == Clients = {logger} /\ CycleWord \in Words

VARIABLES
  magic,        \* the magic number is there: a stopping daemon erases it
  logging,      \* so101_log has not left its loop
  first, last,  \* the first cycle written, 0 for none, and the last one
  missed,       \* cycles it could not catch
  file          \* the rows of the CSV file

logVars == <<seqVars, magic, logging, first, last, missed, file>>
rowVars == <<first, last, missed, file>>

LogInit ==
  /\ SeqInit
  /\ magic = TRUE
  /\ logging = TRUE
  /\ first = 0 /\ last = 0
  /\ missed = 0
  /\ file = <<>>

(* The daemon publishes, and stops between two publications.               *)
Publishes ==
  /\ magic /\ Writer
  /\ UNCHANGED <<magic, logging, rowVars>>

DaemonStops ==
  /\ magic /\ ~copying
  /\ magic' = FALSE
  /\ UNCHANGED <<seqVars, logging, rowVars>>

(* [mutant of Gap] the row itself is counted as missed                     *)
GapInclusive(c) == IF first # 0 /\ c > last + 1 THEN c - last ELSE 0

(* The cycles between the last row and a new one.                          *)
Gap(c) == IF first # 0 /\ c > last + 1 THEN c - last - 1 ELSE 0

Row(c) ==
  /\ first' = IF first = 0 THEN c ELSE first
  /\ missed' = missed + Gap(c)
  /\ last' = c
  /\ file' = Append(file, dst[logger])

(* A turn of the loop: the look at the magic number, the read, the row.    *)
Poll ==
  /\ logging /\ magic
  /\ Call(logger)
  /\ UNCHANGED <<magic, logging, rowVars>>

Reading ==
  /\ logging /\ InCall(logger)
  /\ LET c == dst[logger][CycleWord]
     IN IF rpc[logger] = "check" /\ Unmoved(logger) /\ c # last
          THEN Row(c) ELSE UNCHANGED rowVars
  /\ UNCHANGED <<magic, logging>>

(* "so101d stopped", a signal, or the duration has passed.                 *)
LeaveLoop ==
  /\ logging /\ rpc[logger] = "idle"
  /\ logging' = FALSE
  /\ UNCHANGED <<seqVars, magic, rowVars>>

(* Nobody is left.                                                         *)
AllLeft == ~magic /\ ~logging /\ UNCHANGED logVars

LogNext ==
  Publishes \/ DaemonStops \/ Poll \/ Reading \/ LeaveLoop \/ AllLeft

(* so101_log goes on with a read it has begun; the daemon owes it nothing. *)
LogSpec == LogInit /\ [][LogNext]_logVars /\ WF_logVars(Reading)

-----------------------------------------------------------------------------
(* Properties.                                                             *)

(* The file holds each cycle at most once and in order, every row is one   *)
(* whole publication, and the count of missed cycles is exactly that of    *)
(* the gaps in the column ("writes each NEW cycle exactly once", "Cycles   *)
(* it could not catch are counted and reported").                          *)
LogAccounts ==
  LET cycles == [i \in 1 .. Len(file) |-> file[i][CycleWord]]
  IN /\ \A i \in 1 .. Len(file) : file[i] = [w \in Words |-> cycles[i]]
     /\ \A i \in 1 .. Len(file) - 1 : cycles[i] < cycles[i + 1]
     /\ file # <<>> =>
          missed + Len(file) = cycles[Len(file)] - cycles[1] + 1

=============================================================================

------------------------------ MODULE Feetech ------------------------------
(***************************************************************************)
(* The servo bus driver (driver/src/feetech.c), byte by byte: packets, the *)
(* parser and its resynchronisation, and the calls that send a request and *)
(* collect the answers of the servos it names.                             *)
(*                                                                         *)
(* What each servo answers is given by Reading; the wire loses, damages    *)
(* and delays answers, and puts stray bytes before them.  Bytes reach the  *)
(* driver in pieces of any size.                                           *)
(***************************************************************************)
EXTENDS Integers, SequencesExt

CONSTANTS
  FTS_MAX_PKT, FTS_RXBUF_SIZE,
  Calls,          \* the calls made: an instruction and the servos it names
  Reading(_, _),  \* the value of a servo's register at the time of a call
  MaxCalls,       \* bound: how many calls are made
  MaxFaults       \* bound: how many answers do not come as they were sent

ASSUME FeetechAssumption ==
  /\ FTS_MAX_PKT \in Nat /\ FTS_RXBUF_SIZE \in Nat \ {0} /\ MaxCalls \in Nat
  /\ MaxFaults \in Nat
  /\ \A c \in Calls : c.ids # <<>>

-----------------------------------------------------------------------------
(* Packets and values.                                                     *)

fts_checksum(bytes) ==
  LET sum[n \in 0 .. Len(bytes)] == IF n = 0 THEN 0 ELSE sum[n - 1] + bytes[n]
  IN 255 - (sum[Len(bytes)] % 256)

fts_build_packet(id, inst, params) ==
  LET body == <<id, Len(params) + 2, inst>> \o params
  IN <<255, 255>> \o body \o <<fts_checksum(body)>>

Drop(s, n) == SubSeq(s, n + 1, Len(s))

(* Sign and magnitude, with the sign in bit b.                             *)
fts_decode_sm(raw, b) ==
  LET mag == raw % 2^b
  IN IF (raw \div 2^b) % 2 = 1 THEN -mag ELSE mag

fts_encode_sm(value, b) ==
  IF value < 0 THEN 2^b + ((-value) % 2^b) ELSE value % 2^b

(* Two bytes, the low one first.                                           *)
Bytes(value) == LET e == fts_encode_sm(value, 15) IN <<e % 256, e \div 256>>
le16(data) == data[1] + 256 * data[2]
Unset == 2^16   \* no value of two bytes

(* [mutant of BadHeaderUse] the parser stays where it is                   *)
BadHeaderUseNone(i) == i - 1

(* A malformed header at i uses up its first byte.                         *)
BadHeaderUse(i) == i

(* A whole packet with a header at i: is it sound?                         *)
Packet(buf, i, id, plen) ==
  LET last == i + plen + 3
  IN IF fts_checksum(SubSeq(buf, i + 2, last - 1)) # buf[last]
     THEN [r |-> "ERR_CHECKSUM", consumed |-> i + 1]
     ELSE [r |-> "packet", consumed |-> last, id |-> id,
           data |-> SubSeq(buf, i + 5, last - 1)]

(* The first status packet of buf, or "more" when bytes are missing.       *)
fts_parse_status(buf) ==
  LET starts == {i \in 1 .. Len(buf) - 1 : buf[i] = 255 /\ buf[i + 1] = 255}
      At(i) ==
        LET left == Len(buf) - i + 1
            id == buf[i + 2]
            plen == buf[i + 3]
        IN CASE left < 4 -> [r |-> "more"]
             [] left >= 4 /\ (id = 255 \/ plen < 2 \/ plen > FTS_MAX_PKT - 4) ->
                  [r |-> "ERR_BAD_PKT", consumed |-> BadHeaderUse(i)]
             [] OTHER -> IF left < plen + 4 THEN [r |-> "more"]
                                            ELSE Packet(buf, i, id, plen)
  IN IF starts = {} THEN [r |-> "more"] ELSE At(Min(starts))

-----------------------------------------------------------------------------
VARIABLES
  echo,     \* the adapter echoes what is sent
  dead,     \* the adapter is gone: poll reports POLLHUP
  wire,     \* bytes on their way to the driver, and in the tty
  rx,       \* rxbuf, rxlen
  pc,       \* idle, or what the driver waits for
  call,     \* the call being made
  k,        \* the servo, by its place in call.ids, whose answer is awaited
  err,      \* first_err
  out,      \* the caller's buffer, decoded
  calls,    \* history: how many calls have been made
  faults,   \* history: how many answers did not come as they were sent
  stale,    \* history: bytes of an earlier call were on their way at the start
  marred    \* history: an answer of this call was lost, damaged or late

ftsVars == <<echo, dead, wire, rx, pc, call, k, err, out, calls, faults, stale, marred>>

FtsInit ==
  /\ echo \in BOOLEAN /\ dead = FALSE
  /\ wire = <<>> /\ rx = <<>>
  /\ pc = "idle"
  /\ call \in Calls
  /\ k = 1 /\ err = "none" /\ out = <<>>
  /\ calls = 0 /\ faults = 0 /\ stale = FALSE /\ marred = FALSE

Code == [PING |-> 1, READ |-> 2, WRITE |-> 3, SYNC_READ |-> 130, SYNC_WRITE |-> 131]

Reads(c) == c.inst \in {"READ", "SYNC_READ"}

(* No answer comes to a SYNC_WRITE, nor to a WRITE to all servos.          *)
Expects(c) == c.inst # "SYNC_WRITE" /\ ~(c.inst = "WRITE" /\ c.ids[1] = 254)

Params(c) ==
  CASE c.inst = "PING" -> <<>>
    [] c.inst = "READ" -> <<56, 2>>
    [] c.inst = "WRITE" -> <<42>> \o Bytes(0)
    [] c.inst = "SYNC_READ" -> <<56, 2>> \o c.ids
    [] c.inst = "SYNC_WRITE" ->
         <<42, 2>> \o FlattenSeq([j \in DOMAIN c.ids |-> <<c.ids[j]>> \o Bytes(0)])

Request(c) ==
  fts_build_packet(IF c.inst \in {"SYNC_READ", "SYNC_WRITE"} THEN 254 ELSE c.ids[1],
                   Code[c.inst], Params(c))

RequestLen(c) == Len(Params(c)) + 6

(* What becomes of an answer.  A "short" one reports an error of the servo *)
(* and holds no data.                                                      *)
Fates == {"intact", "stray", "lost", "damaged", "short"}

Answer(c, id, fate) ==
  LET data == IF Reads(c) /\ fate # "short" THEN Bytes(Reading(id, calls + 1)) ELSE <<>>
      whole == fts_build_packet(id, 0, data)
  IN CASE fate = "lost" -> <<>>
       [] fate = "stray" -> <<255>> \o whole
       [] fate = "damaged" -> [whole EXCEPT ![Len(whole)] = (@ + 1) % 256]
       [] OTHER -> whole

(* [mutant of Kept] bytes received earlier stay in rxbuf                   *)
KeptAll(buf) == buf

(* What is left of rxbuf when a request is sent.                           *)
Kept(buf) == <<>>

(* A call that is refused by the length checks at its top.                 *)
Refuse(c) ==
  /\ RequestLen(c) > FTS_MAX_PKT
  /\ call' = c /\ calls' = calls + 1 /\ err' = "ERR_ARG"
  /\ UNCHANGED <<echo, dead, wire, rx, pc, k, out, faults, stale, marred>>

(* tx_packet, up to the echo.  tcflush drops the n bytes that are already  *)
(* in the tty, not those that are still on their way.                      *)
Send(c, fates, n) ==
  /\ ~dead /\ RequestLen(c) =< FTS_MAX_PKT
  /\ faults' = faults + Cardinality({j \in DOMAIN c.ids : fates[j] # "intact"})
  /\ faults' =< MaxFaults
  /\ call' = c /\ calls' = calls + 1 /\ k' = 1
  /\ out' = [j \in DOMAIN c.ids |-> Unset]
  /\ rx' = Kept(rx)
  /\ wire' = Drop(wire, n)
               \o (IF echo THEN Request(c) ELSE <<>>)
               \o (IF Expects(c) THEN FlattenSeq([j \in DOMAIN c.ids |->
                                                    Answer(c, c.ids[j], fates[j])])
                                 ELSE <<>>)
  /\ stale' = (n < Len(wire))
  /\ marred' = \E j \in DOMAIN c.ids : fates[j] \notin {"intact", "stray"}
  /\ pc' = IF echo THEN "echo" ELSE IF Expects(c) THEN "answer" ELSE "idle"
  /\ err' = "OK"
  /\ UNCHANGED <<echo, dead>>

(* The same on a dead port: write fails.                                   *)
SendFails(c) ==
  /\ dead /\ RequestLen(c) =< FTS_MAX_PKT
  /\ call' = c /\ calls' = calls + 1 /\ err' = "ERR_IO"
  /\ rx' = Kept(rx)
  /\ UNCHANGED <<echo, dead, wire, pc, k, out, faults, stale, marred>>

-----------------------------------------------------------------------------
(* fill_rx moves any number of the bytes that have come.                   *)
fill_rx ==
  \E n \in 1 .. Len(wire) :
    LET room == IF Len(rx) >= FTS_RXBUF_SIZE THEN <<>> ELSE rx
    IN /\ n =< FTS_RXBUF_SIZE - Len(room)
       /\ rx' = room \o SubSeq(wire, 1, n)
       /\ wire' = Drop(wire, n)

EchoMissing == Len(rx) < RequestLen(call)

FillEcho ==
  /\ pc = "echo" /\ EchoMissing /\ ~dead /\ fill_rx
  /\ UNCHANGED <<echo, dead, pc, call, k, err, out, calls, faults, stale, marred>>

(* Exactly the bytes that were sent are dropped, or what has come of them  *)
(* when the time is up.                                                    *)
SwallowEcho ==
  /\ pc = "echo"
  /\ ~EchoMissing \/ ~dead
  /\ rx' = Drop(rx, RequestLen(call))
  /\ pc' = IF Expects(call) THEN "answer" ELSE "idle"
  /\ marred' = (marred \/ EchoMissing)
  /\ UNCHANGED <<echo, dead, wire, call, k, err, out, calls, faults, stale>>

EchoFails ==
  /\ pc = "echo" /\ EchoMissing /\ dead
  /\ err' = "ERR_IO" /\ pc' = "idle"
  /\ UNCHANGED <<echo, dead, wire, rx, call, k, out, calls, faults, stale, marred>>

-----------------------------------------------------------------------------
(* rx_status, and the loop of fts_sync_read around it.                     *)

(* After a timeout no further answer is waited for.                        *)
Goes(e) == k < Len(call.ids) /\ e # "ERR_TIMEOUT"

(* [mutant of FirstError] the last result counts                           *)
LastError(e) == e

(* The result of the call: that of the first servo that failed.            *)
FirstError(e) == IF err = "OK" THEN e ELSE err

(* rx_status returns e for servo k.                                        *)
Returns(e) ==
  /\ err' = FirstError(e)
  /\ IF Goes(e) THEN k' = k + 1 /\ UNCHANGED pc ELSE pc' = "idle" /\ UNCHANGED k

(* A sound packet of the servo that was asked.                             *)
Accept(p) ==
  /\ p.r = "packet" /\ p.id = call.ids[k]
  /\ rx' = Drop(rx, p.consumed)
  /\ IF ~Reads(call) THEN Returns("OK") /\ UNCHANGED out
     ELSE IF Len(p.data) < 2 THEN Returns("ERR_BAD_PKT") /\ UNCHANGED out
     ELSE /\ Returns("OK")
          /\ out' = [out EXCEPT ![k] = fts_decode_sm(le16(p.data), 15)]
  /\ UNCHANGED <<echo, dead, wire, call, calls, faults, stale, marred>>

(* A sound packet of another servo.                                        *)
Foreign(p) ==
  /\ p.r = "packet" /\ p.id # call.ids[k]
  /\ rx' = Drop(rx, p.consumed)
  /\ Returns("ERR_ID")
  /\ UNCHANGED <<echo, dead, wire, call, out, calls, faults, stale, marred>>

Resync(p) ==
  /\ p.r \in {"ERR_CHECKSUM", "ERR_BAD_PKT"}
  /\ rx' = Drop(rx, p.consumed)
  /\ UNCHANGED <<echo, dead, wire, pc, call, k, err, out, calls, faults, stale, marred>>

FillAnswer(p) ==
  /\ p.r = "more" /\ ~dead /\ fill_rx
  /\ UNCHANGED <<echo, dead, pc, call, k, err, out, calls, faults, stale, marred>>

(* The time for this answer is up, though it may still be on its way.      *)
Expire(p) ==
  /\ p.r = "more"
  /\ marred' = (marred \/ wire # <<>>)
  /\ Returns("ERR_TIMEOUT")
  /\ UNCHANGED <<echo, dead, wire, rx, call, out, calls, faults, stale>>

ReadFails(p) ==
  /\ p.r = "more" /\ dead
  /\ Returns("ERR_IO")
  /\ UNCHANGED <<echo, dead, wire, rx, call, out, calls, faults, stale, marred>>

(* One turn of the loop of rx_status.                                      *)
Receive ==
  /\ pc = "answer"
  /\ LET p == fts_parse_status(rx)
     IN \/ Accept(p) \/ Foreign(p) \/ Resync(p)
        \/ FillAnswer(p) \/ Expire(p) \/ ReadFails(p)

-----------------------------------------------------------------------------
(* The adapter is pulled out; what has not been read is gone.              *)
Vanish ==
  /\ ~dead /\ dead' = TRUE
  /\ wire' = <<>> /\ marred' = TRUE
  /\ UNCHANGED <<echo, rx, pc, call, k, err, out, calls, faults, stale>>

(* reopen_bus, between two calls, once the adapter is back.                *)
Reopen ==
  /\ pc = "idle" /\ dead
  /\ dead' = FALSE /\ wire' = <<>> /\ rx' = <<>>
  /\ UNCHANGED <<echo, pc, call, k, err, out, calls, faults, stale, marred>>

Call ==
  /\ pc = "idle" /\ calls < MaxCalls
  /\ \E c \in Calls :
       \/ Refuse(c) \/ SendFails(c)
       \/ \E fates \in [DOMAIN c.ids -> Fates], n \in 0 .. Len(wire) : Send(c, fates, n)

Driver == FillEcho \/ SwallowEcho \/ EchoFails \/ Receive

(* All the calls of the bound have been made.                              *)
Over == calls = MaxCalls /\ pc = "idle" /\ UNCHANGED ftsVars

FtsNext ==
  \/ Driver \/ Vanish \/ Reopen \/ Over
  \/ Call

FtsSpec == FtsInit /\ [][FtsNext]_ftsVars

(* The thread runs and time passes.                                        *)
FtsFairSpec == FtsSpec /\ WF_ftsVars(Driver)

-----------------------------------------------------------------------------
(* Properties.                                                             *)

Succeeded == pc = "idle" /\ err = "OK" /\ calls > 0

Current == \A j \in DOMAIN call.ids : out[j] = Reading(call.ids[j], calls)

(* A SYNC_READ that succeeds has stored for every servo the value of that  *)
(* servo and of this call, whatever was lost, damaged or late and however  *)
(* the bytes were cut (rx_status, fts_sync_read).  Bytes of an earlier     *)
(* call that were still on their way when it began can only give an older  *)
(* value of the right servo, unless they are an echo: the echo of a READ   *)
(* looks like an answer.                                                   *)
OwnReadings ==
  Succeeded /\ call.inst = "SYNC_READ" =>
    /\ ~stale => Current
    /\ ~echo => \A j \in DOMAIN call.ids :
                  \E n \in 1 .. calls : out[j] = Reading(call.ids[j], n)

(* A call whose answers come whole and in time succeeds, and a read then   *)
(* has its values, whatever earlier calls left in the receive buffer or    *)
(* the tty, with the echo of the request and stray bytes before the        *)
(* answers (tx_packet, rx_status).                                         *)
SoundCallSucceeds ==
  pc = "idle" /\ calls > 0 /\ err # "ERR_ARG" /\ ~marred /\ ~stale =>
    err = "OK" /\ (Reads(call) => Current)

(* Every call returns: the parser gets past everything it rejects and the  *)
(* wait for each answer is bounded.                                        *)
DriverReturns == pc # "idle" ~> pc = "idle"

=============================================================================

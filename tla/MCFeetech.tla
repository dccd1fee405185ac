------------------------------ MODULE MCFeetech ------------------------------
(* Two servos; the values they report have bytes that look like headers.   *)
EXTENDS Feetech

Registers == <<<<4095, 2048>>, <<-255, -32767>>>>

ServoReading(id, n) == Registers[id][n]

SomeCalls ==
  [inst : {"SYNC_READ"}, ids : {<<1, 2>>}]
    \cup [inst : {"READ"}, ids : {<<2>>}]
    \cup [inst : {"SYNC_WRITE"}, ids : {<<1>>, <<1, 2, 3>>}]

=============================================================================

------------------------------ MODULE MCAlarm ------------------------------
(* The supervisor alone, with clients that ping it.                        *)
EXTENDS Alarm

Pings == [cmd : {"PING"}, arg : {"IDLE"}]

=============================================================================

------------------------------ MODULE MCDaemon ------------------------------
(* The daemon with one joint that has one position: what depends on where  *)
(* the arm is, is checked by module MCArm.                                 *)
EXTENDS Daemon

AllCommands == Commands

PowerCommands == [cmd : {"SET_MODE"}, arg : {"TELEOP"}]
                   \cup [cmd : {"RESET"}, arg : {"IDLE"}]

=============================================================================

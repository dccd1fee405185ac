----------------------------- MODULE MCWatchdog -----------------------------
(* The three threads of the daemon, with a control thread that can block.  *)
EXTENDS Watchdog

PowerCommands == [cmd : {"SET_MODE"}, arg : {"TELEOP"}]
                   \cup [cmd : {"RESET"}, arg : {"IDLE"}]

=============================================================================

------------------------------ MODULE MCLogger ------------------------------
(* A small segment: seq wraps after two publications.  Readers do not      *)
(* write, so that one of them, the logger, stands for all.                 *)
EXTENDS Logger

=============================================================================

---------------------------- MODULE MCLifecycle ----------------------------
(* Two processes of so101d, one of them started by root, in any order; one *)
(* call of so101ctl at a time, and the bridge.                             *)
EXTENDS Lifecycle

Root == {1}
Anywhere == {"bus", "open", "lock", "clear", "header", "sems", "threads",
             "up", "leaving", "detach", "exit"}

=============================================================================

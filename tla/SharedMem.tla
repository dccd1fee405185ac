----------------------------- MODULE SharedMem -----------------------------
(***************************************************************************)
(* The part of the shared segment so101_shm_t through which the threads of *)
(* so101d talk to each other, with the enumerations of so101_shm.h.        *)
(*                                                                         *)
(* The control thread publishes `sample' under the seqlock; `writing' says *)
(* that seq is odd, i.e. that a publication has started and not ended.     *)
(* That an accepted read is never torn is the subject of module Seqlock;   *)
(* here a reader that finds writing = FALSE reads `sample' in one step.    *)
(*                                                                         *)
(* The cycle counter of the sample is only ever compared for inequality    *)
(* with the last value a reader saw, and it grows with every publication,  *)
(* so it is kept as the outcome of that comparison: `unseen' is the set of *)
(* the readers that have not read the newest sample.  The heartbeat of the *)
(* supervisor, which only main reads, is kept in the same way.             *)
(***************************************************************************)

VARIABLES
  mode_req,   \* atomic: the mode the supervisor asks for
  faults,     \* atomic: the set of latched fault bits
  sample,     \* the published snapshot `s' (the fields a thread looks at)
  writing,    \* seq is odd
  unseen,     \* the readers whose last_cycle # sample.cycle
  sup_beat,   \* sup_beat # last_beat of main
  run         \* c->run, cleared by main on SIGINT or SIGTERM

shmVars == <<mode_req, faults, sample, writing, unseen, sup_beat, run>>

Modes   == {"IDLE", "TELEOP", "HOLD", "ESTOP"}
Powered == {"TELEOP", "HOLD"}           \* the modes in which torque is on

Faults == {"LEADER_COMM", "FOLLOWER_COMM", "OVERTEMP", "VOLTAGE",
           "OVERRUN", "STALL", "ESTOP", "TORQUE_REFUSED"}

(* What a client can put into the mailbox.  SET_MODE carries a mode; the   *)
(* argument of the others is not looked at.  NONE stands for every number  *)
(* the enumeration of the commands does not name.                          *)
Commands == [cmd : {"SET_MODE"}, arg : Modes]
              \cup [cmd : {"ESTOP", "RESET", "PING", "NONE"}, arg : {"IDLE"}]

Readers == {"supervisor", "main"}

(* Over-temperature and voltage out of range are what the supervisor makes *)
(* of the registers of the six servos: each is one Boolean alarm.          *)
Alarms == {"temp", "volt"}

=============================================================================

------------------------------ MODULE Watchdog ------------------------------
(***************************************************************************)
(* The main thread of so101d beside the two others: its periodic check and *)
(* the ping it sends to systemd, which restarts a service that stops       *)
(* pinging.                                                                *)
(***************************************************************************)
EXTENDS Daemon

VARIABLE ping   \* the last check of main sent WATCHDOG=1

wdVars == <<vars, ping>>

WdInit == Init /\ ping = FALSE

(* [mutant of Alive] one thread is enough                                  *)
AliveEither == "main" \in unseen \/ sup_beat

(* Both threads made progress since the last check.                        *)
Alive == "main" \in unseen /\ sup_beat

(* Main pings only if both threads made progress since its last check.     *)
Watch ==
  /\ run /\ ~writing
  /\ ping' = Alive
  /\ unseen' = unseen \ {"main"}
  /\ sup_beat' = FALSE
  /\ UNCHANGED <<mode_req, faults, sample, writing, run,
                 ctlVars, supVars, histVars>>

(* The same check when no consistent snapshot could be read.               *)
WatchGivesUp ==
  /\ run /\ writing /\ (Preemptible \/ hung)
  /\ ping' = FALSE
  /\ UNCHANGED vars

(* After the signal main has left its loop.                                *)
Others == Next /\ ping' = (ping /\ run')

MainThread == Watch \/ WatchGivesUp

WdNext == MainThread \/ Others

(* A turn of the supervisor that takes time.                               *)
TimePasses == sup = "wait" /\ (SupervisorThread \/ Client) /\ quiet' # quiet

(* The scheduler runs every thread that can run, and no number of commands *)
(* stops the clock.                                                        *)
WdSpec ==
  /\ WdInit /\ [][WdNext]_wdVars
  /\ WF_wdVars(ControlThread /\ Others)
  /\ WF_wdVars(SupervisorThread /\ Others)
  /\ SF_wdVars(TimePasses /\ Others)
  /\ WF_wdVars(MainThread)

(* A control thread that blocks outside a publication makes the supervisor *)
(* stop the arm.  (In the middle of one no reader gets a snapshot, and the *)
(* supervisor skips its checks.)                                           *)
StallStops == (hung /\ ctl # "seal") ~> (mode_req = "ESTOP" \/ ~run)

(* A control thread that blocks, wherever it blocks, ends the pings for    *)
(* good, so that systemd restarts the service (so101d.c: "If either hangs, *)
(* systemd stops receiving pings and restarts the service").               *)
HangEndsPings == hung ~> []~ping

=============================================================================

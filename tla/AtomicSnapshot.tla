--------------------------- MODULE AtomicSnapshot ---------------------------
(***************************************************************************)
(* What the data path of the shared segment promises: publications are     *)
(* numbered, a read takes the newest one whole and in one step, or fails.  *)
(***************************************************************************)
EXTENDS Naturals

CONSTANTS Clients, Words

VARIABLES
  version,   \* the number of the newest publication
  got        \* the sample each reader got last

snapVars == <<version, got>>

(* The words of publication v.                                             *)
Whole(v) == [w \in Words |-> v]

SnapInit ==
  /\ version = 0
  /\ got = [r \in Clients |-> Whole(0)]

Publish ==
  /\ version' = version + 1
  /\ UNCHANGED got

Read(r) ==
  /\ got' = [got EXCEPT ![r] = Whole(version)]
  /\ UNCHANGED version

SnapNext == Publish \/ \E r \in Clients : Read(r)

SnapSpec == SnapInit /\ [][SnapNext]_snapVars

=============================================================================

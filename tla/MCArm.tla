------------------------------- MODULE MCArm -------------------------------
(* One joint, whose soft start and whose goal do not depend on the others. *)
EXTENDS Arm

=============================================================================

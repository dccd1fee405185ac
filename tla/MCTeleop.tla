------------------------------ MODULE MCTeleop ------------------------------
(* One joint, with calibrations that differ between the arms: other ends,  *)
(* another span, mounted the other way round, a body joint or the gripper. *)
EXTENDS Teleop

Entry(lo, hi, inverted, gripper) ==
  [range_min |-> lo, range_max |-> hi, drive_mode |-> inverted,
   is_gripper |-> gripper]

Files ==
  {[leader |-> Entry(0, 3, FALSE, FALSE), follower |-> Entry(1, 3, FALSE, FALSE)],
   [leader |-> Entry(1, 4, TRUE, FALSE),  follower |-> Entry(0, 3, FALSE, FALSE)],
   [leader |-> Entry(0, 4, FALSE, TRUE),  follower |-> Entry(1, 4, TRUE, TRUE)]}

(* The conversions by themselves, on more ticks and every pair of joints   *)
(* of the same kind, against the reference: the share of the range.        *)
Wide == ValidJoints(0 .. 6)

ASSUME ConversionsProportional ==
  \A l, f \in Wide :
    l.is_gripper = f.is_gripper =>
      \A raw \in 0 .. 6 :
        Proportional([leader |-> l, follower |-> f], raw,
                     calib_unnormalize(f, calib_normalize(l, raw)))

=============================================================================

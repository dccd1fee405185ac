------------------------------- MODULE Calib -------------------------------
(***************************************************************************)
(* The calibration of a joint (daemon/src/calib.c): what calib_load        *)
(* accepts, and the two conversions between raw ticks and the normalised   *)
(* units in which leader and follower meet.                                *)
(*                                                                         *)
(* A float is an integer: the number of 1 / One's in it, rounded to        *)
(* MANT_BITS significant bits (24 in C) after every operation, to the      *)
(* nearest and to even.  Every product, quotient and sum of the code has   *)
(* an integer as its second operand.                                       *)
(***************************************************************************)
EXTENDS Integers

CONSTANTS
  MANT_BITS,  \* the significant bits of a float
  FRAC_BITS   \* bound: the place of its last bit

ASSUME CalibAssumption ==
  /\ MANT_BITS \in Nat \ {0} /\ FRAC_BITS \in Nat
  /\ MANT_BITS =< FRAC_BITS

One == 2^FRAC_BITS

(* A power of two divides the larger ones.                                 *)
ASSUME PowersAssumption ==
  \A i \in 0 .. FRAC_BITS : 2^i > 0 /\ \E k \in 1 .. One : One = k * 2^i

(* n / d to the nearest integer, a tie to the even one.                    *)
Nearest(n, d) ==
  LET q == n \div d
      r == n % d
  IN IF 2 * r > d \/ (2 * r = d /\ q % 2 = 1) THEN q + 1 ELSE q

(* The float nearest to n / d.                                             *)
Float(n, d) ==
  LET fits(i) == /\ n < d * 2^(MANT_BITS + i)
                 /\ -n < d * 2^(MANT_BITS + i)
      ulp == 2^(CHOOSE i \in 0 .. FRAC_BITS : fits(i) /\ \A k \in 0 .. i - 1 : ~fits(k))
  IN Nearest(n, d * ulp) * ulp

Plus(x, n)  == Float(x + n * One, 1)
Times(x, n) == Float(x * n, 1)
Over(x, n)  == Float(x, n)

(* The conversion of a float to int cuts towards zero.                     *)
Truncated(x) == IF x >= 0 THEN x \div One ELSE -((-x) \div One)

Clamp(x, lo, hi) == IF x < lo THEN lo ELSE IF x > hi THEN hi ELSE x

(* The entries of a file that calib_load takes, with ranges in ticks.      *)
ValidJoints(ticks) ==
  {j \in [range_min : ticks, range_max : ticks, drive_mode : BOOLEAN,
          is_gripper : BOOLEAN] : j.range_min < j.range_max}

Span(j) == j.range_max - j.range_min

calib_normalize(j, raw) ==
  LET u == Over((Clamp(raw, j.range_min, j.range_max) - j.range_min) * One, Span(j))
      n == IF j.is_gripper THEN Times(u, 100) ELSE Plus(Times(u, 200), -100)
  IN CASE ~j.drive_mode -> n
       [] j.drive_mode /\ j.is_gripper  -> Plus(-n, 100)
       [] j.drive_mode /\ ~j.is_gripper -> -n

calib_unnormalize(j, norm) ==
  LET u == IF j.is_gripper
             THEN Over(Clamp(IF j.drive_mode THEN Plus(-norm, 100) ELSE norm,
                             0, 100 * One), 100)
             ELSE Over(Plus(Clamp(IF j.drive_mode THEN -norm ELSE norm,
                                  -100 * One, 100 * One), 100), 200)
  IN Truncated(Plus(Times(u, Span(j)), j.range_min))

=============================================================================

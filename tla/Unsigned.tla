------------------------------ MODULE Unsigned ------------------------------
(***************************************************************************)
(* The operations of Rust's unsigned integers that the modules share.      *)
(***************************************************************************)
LOCAL INSTANCE Integers

(* std::cmp::max and std::cmp::min.                                        *)
Larger(a, b) == IF a >= b THEN a ELSE b
Smaller(a, b) == IF a <= b THEN a ELSE b

(* saturating_sub: truncated subtraction.                                  *)
Monus(a, b) == IF a >= b THEN a - b ELSE 0

=============================================================================

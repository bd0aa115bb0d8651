------------------------------- MODULE Powers -------------------------------
(***************************************************************************)
(* Powers of natural numbers, which stand for the shifts and the widths of *)
(* the code: x << n is x * Power(2, n), x >> n is x \div Power(2, n).  The *)
(* exponentiation of the standard modules has no definition that a proof   *)
(* could use; this one is a recursive function.                            *)
(***************************************************************************)
EXTENDS Integers

Power(b, n) ==
    LET power[k \in Nat] == IF k = 0 THEN 1 ELSE b * power[k - 1]
    IN  power[n]

(* x & (1 << b) is not zero. *)
HasBit(x, b) == (x \div Power(2, b)) % 2 = 1
=============================================================================

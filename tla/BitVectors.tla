----------------------------- MODULE BitVectors -----------------------------
(***************************************************************************)
(* The unsigned words and bitsets of the predictors.  A bit vector is the  *)
(* set of the positions of its ones, so that exclusive or is SymDiff, a    *)
(* mask an intersection and bitwise or a union.                            *)
(***************************************************************************)
EXTENDS Integers, FiniteSets, FiniteSetsExt

Bits(n) == 0 .. n - 1
ShiftLeft(v, k) == {b + k : b \in v}
ShiftRight(v, k) == {b - k : b \in {x \in v : x >= k}}
BitIf(condition, b) == IF condition THEN {b} ELSE {}

Xor3(a, b, c) == SymDiff(SymDiff(a, b), c)

=============================================================================

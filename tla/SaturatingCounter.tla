-------------------------- MODULE SaturatingCounter --------------------------
(***************************************************************************)
(* The signed counters of cbp2/src/SaturatingCounter.hpp, and of the       *)
(* tables of cbp2/src/gehl.h, which have the same range.  A counter is an  *)
(* integer; its width is given to every operation.                         *)
(***************************************************************************)
EXTENDS Integers

Lowest(bits) == -(2 ^ (bits - 1))
Highest(bits) == 2 ^ (bits - 1) - 1
Counter(bits) == Lowest(bits) .. Highest(bits)

\* Mutant: the test against the upper bound is off by one.
IncOverrun(c, bits) == IF c <= Highest(bits) THEN c + 1 ELSE Highest(bits)
Inc(c, bits) == IF c < Highest(bits) THEN c + 1 ELSE Highest(bits)

\* Mutant: the counter wraps around at its lower bound.
DecWrapping(c, bits) == IF c > Lowest(bits) THEN c - 1 ELSE Highest(bits)
Dec(c, bits) == IF c > Lowest(bits) THEN c - 1 ELSE Lowest(bits)

IsSaturated(c, bits) == c \in {Lowest(bits), Highest(bits)}

=============================================================================

------------------------------- MODULE Folding -------------------------------
(***************************************************************************)
(* The index arithmetic of the GEHL predictors (cbp2/src/gehl.h and        *)
(* cbp2/src/ogehl.hpp) on bit vectors.                                     *)
(*                                                                         *)
(* A table with n index bits keeps its branch history folded to n bits: a  *)
(* branch shifts the fold by Shift, brings in its own direction at         *)
(* position 0 and cancels the direction that leaves the history.           *)
(***************************************************************************)
EXTENDS BitVectors

CONSTANT HistSize   \* bits of the history bitset: 400 in gehl.h, 4096 in ogehl.hpp
ASSUME HistSizeAssumption == HistSize \in Nat \ {0}

\* Push a direction into a history: history <<= 1 and set bit 0.
Push(history, bit) == (ShiftLeft(history, 1) \cup BitIf(bit, 0)) \cap Bits(HistSize)

\* Mutant: the shift need not be prime with the number of index bits.
ShiftOfUnchecked(table, n) == (IF table % 2 = 1 THEN table ELSE 1) % n
\* The shift of a table, which has to be prime with the number of index bits.
ShiftOf(table, n) ==
    LET shift == (IF table % 2 = 1 THEN table ELSE 1) % n
    IN  IF \E k \in 1 .. n - 1 : (shift * k) % n = 0 THEN 1 ELSE shift

\* Where the direction that is len branches old has got to in the fold.
LastDest(table, n, len) == (ShiftOf(table, n) * len) % n

\* operator[] of a bitset does not check the position: beyond the bitset it
\* reads whatever is there.
ReadBit(history, position, beyond) ==
    IF position < HistSize THEN position \in history ELSE beyond

\* Mutant: the bits shifted out are not masked.
CompressUnmasked(fold, history, len, shift, dest, n, beyond) ==
    LET entered == SymDiff(ShiftLeft(fold, shift), history \cap {0})
        left == SymDiff(entered, BitIf(ReadBit(history, len, beyond), dest))
    IN  IF len = 0 THEN {} ELSE SymDiff(left, ShiftRight(left, n))

\* Mutant: the direction that leaves is one branch too young.
CompressEarly(fold, history, len, shift, dest, n, beyond) ==
    LET entered == SymDiff(ShiftLeft(fold, shift), history \cap {0})
        left == SymDiff(entered, BitIf(ReadBit(history, len - 1, beyond), dest))
    IN  IF len = 0 THEN {} ELSE SymDiff(left, ShiftRight(left, n)) \cap Bits(n)
Compress(fold, history, len, shift, dest, n, beyond) ==
    LET entered == SymDiff(ShiftLeft(fold, shift), history \cap {0})
        left == SymDiff(entered, BitIf(ReadBit(history, len, beyond), dest))
    IN  IF len = 0 THEN {} ELSE SymDiff(left, ShiftRight(left, n)) \cap Bits(n)

\* What the fold of the last len directions is meant to be: direction j is
\* at position shift * j, and directions that meet are added modulo 2.
FoldOf(history, len, shift, n) ==
    {b \in Bits(n) :
        Cardinality({j \in history : j < len /\ (shift * j) % n = b}) % 2 = 1}

=============================================================================

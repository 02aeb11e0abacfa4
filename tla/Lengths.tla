------------------------------- MODULE Lengths -------------------------------
(***************************************************************************)
(* The history lengths of the GEHL predictors and their distribution over  *)
(* the tables: class Lengths and makeTables() of cbp2/src/ogehl.hpp, and   *)
(* the constructor of cbp2/src/gehl.h.  The factor alpha is the fraction   *)
(* alpha[1] / alpha[2].                                                    *)
(***************************************************************************)
EXTENDS Integers, FiniteSets

CeilDiv(a, b) == (a + b - 1) \div b

\* Mutant: the product is rounded down.
GeometricFloor(l1, alpha, count) ==
    LET L[i \in 0 .. count - 1] ==
          IF i = 0 THEN 0 ELSE IF i = 1 THEN l1
          ELSE (L[i - 1] * alpha[1]) \div alpha[2]
    IN  L
\* The lengths 0, l1, l1 * alpha, ..., each rounded up.
Geometric(l1, alpha, count) ==
    LET L[i \in 0 .. count - 1] ==
          IF i = 0 THEN 0 ELSE IF i = 1 THEN l1
          ELSE CeilDiv(L[i - 1] * alpha[1], alpha[2])
    IN  L

\* Every how many tables an additional length is used.
JumpSize(tables, addtl) == IF addtl > 0 THEN (tables - 2) \div addtl ELSE 0

\* Mutant: the last table is not left out.
TakesAdditionalAnywhere(i, tables, addtl) ==
    \/ addtl = 1 /\ i = tables \div 2
    \/ addtl > 1 /\ i % JumpSize(tables, addtl) = 0
\* Whether table i uses an additional length as its long one.
TakesAdditional(i, tables, addtl) ==
    \/ addtl = 1 /\ i = tables \div 2
    \/ addtl > 1 /\ i # tables - 1 /\ i % JumpSize(tables, addtl) = 0

\* The index of the long length of table i, when the loop gets that far.
LongIndex(i, tables, addtl) ==
    LET before == {j \in 1 .. i : TakesAdditional(j, tables, addtl)}
    IN  IF i > 0 /\ TakesAdditional(i, tables, addtl)
        THEN Cardinality(before) + tables - 1 ELSE i

\* The additional lengths come out even.
Divides(tables, addtl) ==
    addtl <= 1 \/ (tables - 2) \div JumpSize(tables, addtl) = addtl

=============================================================================

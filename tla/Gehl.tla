-------------------------------- MODULE Gehl --------------------------------
(***************************************************************************)
(* The GEHL branch predictor of cbp2/src/gehl.h.  A prediction adds up one *)
(* counter of every table; tables differ in how many of the last branches  *)
(* their index depends on.                                                 *)
(*                                                                         *)
(* The driver (predict.cc 190-231, and fetch() of the pipeline) calls      *)
(* predict() and then update() for each instruction; pending is what       *)
(* predict() leaves for update(): m_bi and m_u.  Instructions that are not *)
(* branches are left out: for them nothing else is written.                *)
(***************************************************************************)
EXTENDS Folding, Lengths, SaturatingCounter, Functions

CONSTANTS
    NumTables,   \* M
    IdxBits,     \* m_n: a table has 2^IdxBits counters
    L1, Alpha,   \* m_nL1, m_fAlpha as a fraction: the history lengths
    Theta,       \* m_nThresh
    CtrBits,     \* m_nCounterBit
    MaxPath,     \* m_nMaxPathLength, 16 in the program
    PCs          \* the branches of the program, as bit vectors

Table == 0 .. NumTables - 1
HistLen == Geometric(L1, Alpha, NumTables)   \* m_L
Back == NumTables - 1
Index == SUBSET Bits(IdxBits)

\* The counter bounds are kept in vectors with as many elements as a table has
\* counters but are looked up by the number of the table.
ASSUME GehlAssumption ==
    /\ NumTables \in Nat \ {0, 1} /\ IdxBits \in Nat \ {0}
    /\ NumTables <= 2 ^ IdxBits
    /\ L1 \in Nat /\ Alpha \in Nat \X (Nat \ {0})
    /\ CtrBits \in Nat \ {0} /\ 2 ^ (CtrBits - 1) \in Nat \ {0}
    /\ Theta \in Int /\ MaxPath \in Nat
    /\ \A pc \in PCs : pc \subseteq Nat

VARIABLES
    tables,    \* m_Tables
    ghist,     \* m_ghist
    phist,     \* m_phist; only the bits that an index may use are kept
    ziphist,   \* comp of m_ziphist
    pending    \* the prediction that waits for its update, or Idle

vars == <<tables, ghist, phist, ziphist, pending>>

Least(a, b) == IF a < b THEN a ELSE b
PathBits == Least(MaxPath, HistLen[Back])
Idle == [kind |-> "idle"]

Init ==
    /\ tables = [i \in Table |-> [x \in Index |-> 0]]
    /\ ghist = {} /\ phist = {}
    /\ ziphist = [i \in Table \ {0} |-> {}]
    /\ pending = Idle

\* Mutant: the path history is left out of the index.
GehlIndexPathless(i, pc) ==
    IF i = 0 THEN pc \cap Bits(IdxBits)
    ELSE SymDiff(pc, ziphist[i] \cap Bits(HistLen[i])) \cap Bits(IdxBits)
\* gehl_index()
GehlIndex(i, pc) ==
    IF i = 0 THEN pc \cap Bits(IdxBits)
    ELSE Xor3(pc, ziphist[i] \cap Bits(HistLen[i]),
              phist \cap Bits(Least(MaxPath, HistLen[i]))) \cap Bits(IdxBits)

Sum(index) ==
    (NumTables \div 2) + SumFunction([i \in Table |-> tables[i][index[i]]])

Predict(pc) ==
    /\ pending = Idle
    /\ LET index == [i \in Table |-> GehlIndex(i, pc)]
       IN  pending' = [kind |-> "C", pc |-> pc, index |-> index,
                       sum |-> Sum(index), direction |-> Sum(index) >= 0]
    /\ UNCHANGED <<tables, ghist, phist, ziphist>>

PredictUnconditional(pc) ==
    /\ pending = Idle
    /\ pending' = [kind |-> "U", pc |-> pc, direction |-> TRUE]
    /\ UNCHANGED <<tables, ghist, phist, ziphist>>

Train(counter, taken) ==
    IF taken THEN Inc(counter, CtrBits) ELSE Dec(counter, CtrBits)

\* |sum| <= threshold
LowConfidence(sum, threshold) == sum \in -threshold .. threshold

\* Mutant: only a prediction of low confidence is learned from.
LearnsFromUnsure(taken) == LowConfidence(pending.sum, Theta)
\* The prediction was wrong, or right with little confidence.
LearnsFrom(taken) ==
    pending.direction # taken \/ LowConfidence(pending.sum, Theta)

\* Every kind of branch enters the histories, after the counters are trained.
EnterHistory(taken) ==
    /\ ghist' = Push(ghist, taken)
    /\ phist' = Push(phist, 0 \in pending.pc) \cap Bits(PathBits)
    /\ \E beyond \in [{i \in Table \ {0} : HistLen[i] >= HistSize} -> BOOLEAN] :
         ziphist' = [i \in Table \ {0} |->
            Compress(ziphist[i], ghist', HistLen[i], ShiftOf(i, IdxBits),
                     LastDest(i, IdxBits, HistLen[i]), IdxBits,
                     i \in DOMAIN beyond /\ beyond[i])]

Update(taken) ==
    /\ pending.kind = "C"
    /\ tables' = IF LearnsFrom(taken)
                 THEN [i \in Table |->
                        [tables[i] EXCEPT ![pending.index[i]] = Train(@, taken)]]
                 ELSE tables
    /\ EnterHistory(taken)
    /\ pending' = Idle

\* An unconditional branch is taken.
UpdateUnconditional ==
    /\ pending.kind = "U"
    /\ EnterHistory(TRUE)
    /\ pending' = Idle
    /\ UNCHANGED tables

Next ==
    \/ \E pc \in PCs : Predict(pc) \/ PredictUnconditional(pc)
    \/ \E taken \in BOOLEAN : Update(taken)
    \/ UpdateUnconditional

Spec == Init /\ [][Next]_vars

(***************************************************************************)
(* The histories that the indices are made of stand for the same branches: *)
(* the folded history of each table is that of its last HistLen[i] branches.   *)
(***************************************************************************)
HistoriesAgree ==
    \A i \in Table \ {0} :
        ziphist[i] = FoldOf(ghist, HistLen[i], ShiftOf(i, IdxBits), IdxBits)

=============================================================================

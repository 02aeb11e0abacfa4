----------------------------- MODULE OgehlProofs -----------------------------
(***************************************************************************)
(* Proofs about the O-GEHL predictor of Ogehl.tla, for all its parameters, *)
(* and about the lengths that makeTables() gives its tables.               *)
(***************************************************************************)
EXTENDS Ogehl, MakeTables, FiniteSetTheorems, WellFoundedInduction, TLAPS

-----------------------------------------------------------------------------
(***************************************************************************)
(* The lengths are defined recursively: each of them follows from the one  *)
(* before.  What all have is shown with a least one that would not have it.*)
(***************************************************************************)
LEMMA SmallestOf ==
    ASSUME NEW J, J \subseteq Nat, J # {}
    PROVE  \E k \in J : \A m \in J : ~ m < k
<1> DEFINE R == {ss \in Nat \X Nat : ss[1] < ss[2]}
<1>1. IsWellFoundedOn(R, Nat)
  BY NatLessThanWellFounded DEF OpToRel
<1> HIDE DEF R
<1>2. PICK k \in J : \A m \in J : ~ <<m, k>> \in R
  BY <1>1, WFMin, Zenon
<1> QED  BY <1>2 DEF R

GeometricStep(f, l1, alpha, i) ==
    IF i = 0 THEN 0 ELSE IF i = 1 THEN l1
    ELSE CeilDiv(f[i - 1] * alpha[1], alpha[2])
Solves(f, l1, alpha, count) ==
    f = [i \in 0 .. count - 1 |-> GeometricStep(f, l1, alpha, i)]

LEMMA SolvesAt ==
    ASSUME NEW f, NEW l1, NEW alpha, NEW count \in Nat, Solves(f, l1, alpha, count),
           NEW i \in 0 .. count - 1
    PROVE  f[i] = GeometricStep(f, l1, alpha, i)
<1>1. f = [j \in 0 .. count - 1 |-> GeometricStep(f, l1, alpha, j)]
  BY DEF Solves
<1> QED  BY <1>1, Zenon

\* There are lengths that follow from one another,
LEMMA GeometricExists ==
    ASSUME NEW l1, NEW alpha, NEW count \in Nat
    PROVE  \E f : Solves(f, l1, alpha, count)
<1> DEFINE Fails == {n \in Nat : ~ \E f : Solves(f, l1, alpha, n)}
<1>1. SUFFICES ASSUME Fails # {} PROVE FALSE
  OBVIOUS
<1>2. PICK n \in Fails : \A m \in Fails : ~ m < n
  BY <1>1, SmallestOf, Zenon
<1>3. n # 0
  <2> DEFINE f == [i \in {} |-> 0]
  <2>1. f = [i \in 0 .. 0 - 1 |-> GeometricStep(f, l1, alpha, i)]
    OBVIOUS
  <2> HIDE DEF f
  <2> QED  BY <2>1 DEF Solves
<1>4. n - 1 \in Nat /\ ~ n - 1 \in Fails
  BY <1>2, <1>3
<1>5. PICK f : Solves(f, l1, alpha, n - 1)
  BY <1>4
<1> DEFINE g == [i \in 0 .. n - 1 |->
                   IF i = n - 1 THEN GeometricStep(f, l1, alpha, i) ELSE f[i]]
<1>6. ASSUME NEW i \in 0 .. n - 1 PROVE g[i] = GeometricStep(g, l1, alpha, i)
  <2>1. g[i] = GeometricStep(f, l1, alpha, i)
    <3>1. CASE i = n - 1
      BY <3>1
    <3>2. CASE i # n - 1
      <4>1. i \in 0 .. (n - 1) - 1
        BY <1>4, <3>2
      <4>2. f[i] = GeometricStep(f, l1, alpha, i)
        BY <1>4, <1>5, <4>1, SolvesAt
      <4> QED  BY <3>2, <4>2
    <3> QED  BY <3>1, <3>2
  <2>2. i > 0 => i - 1 \in 0 .. n - 1 /\ i - 1 # n - 1
    BY <1>4
  <2>3. i > 0 => g[i - 1] = f[i - 1]
    BY <2>2
  <2> HIDE DEF g
  <2> QED  BY <2>1, <2>3 DEF GeometricStep
<1>7. g = [i \in 0 .. n - 1 |-> GeometricStep(g, l1, alpha, i)]
  <2>1. g = [i \in 0 .. n - 1 |-> g[i]]
    OBVIOUS
  <2> HIDE DEF g
  <2> QED  BY <2>1, <1>6
<1> HIDE DEF g
<1> QED  BY <1>7 DEF Solves

\* and Geometric() has them.
LEMMA GeometricSolves ==
    ASSUME NEW l1, NEW alpha, NEW count \in Nat
    PROVE  Solves(Geometric(l1, alpha, count), l1, alpha, count)
<1>1. PICK f : Solves(f, l1, alpha, count)
  BY GeometricExists
<1>2. f = [i \in 0 .. count - 1 |-> IF i = 0 THEN 0 ELSE IF i = 1 THEN l1
              ELSE CeilDiv(f[i - 1] * alpha[1], alpha[2])]
  BY <1>1, Zenon DEF Solves, GeometricStep
<1> QED  BY <1>2, Zenon DEF Geometric, Solves, GeometricStep

\* More lengths begin with the same ones.
LEMMA GeometricPrefix ==
    ASSUME NEW l1, NEW alpha, NEW m \in Nat, NEW n \in Nat, m <= n
    PROVE  /\ DOMAIN Geometric(l1, alpha, n) = 0 .. n - 1
           /\ \A i \in 0 .. m - 1 : Geometric(l1, alpha, m)[i] = Geometric(l1, alpha, n)[i]
<1> DEFINE f == Geometric(l1, alpha, m)
           g == Geometric(l1, alpha, n)
           Differ == {i \in Nat : i < m /\ f[i] # g[i]}
<1>1. Solves(f, l1, alpha, m) /\ Solves(g, l1, alpha, n)
  BY GeometricSolves
<1>2. DOMAIN g = 0 .. n - 1
  BY <1>1 DEF Solves
<1> HIDE DEF f, g
<1>3. ASSUME Differ # {} PROVE FALSE
  <2>1. PICK i \in Differ : \A j \in Differ : ~ j < i
    BY <1>3, SmallestOf, Zenon
  <2>2. i \in 0 .. m - 1 /\ i \in 0 .. n - 1
    BY <2>1
  <2>3. f[i] = GeometricStep(f, l1, alpha, i) /\ g[i] = GeometricStep(g, l1, alpha, i)
    BY <1>1, <2>2, SolvesAt
  <2>4. i > 0 => f[i - 1] = g[i - 1]
    BY <2>1
  <2> QED  BY <2>1, <2>3, <2>4 DEF GeometricStep
<1> QED  BY <1>2, <1>3 DEF f, g

LEMMA GeometricFirst ==
    ASSUME NEW l1, NEW alpha, NEW count \in Nat \ {0}
    PROVE  Geometric(l1, alpha, count)[0] = 0
<1> DEFINE f == Geometric(l1, alpha, count)
<1>1. Solves(f, l1, alpha, count) /\ 0 \in 0 .. count - 1
  BY GeometricSolves
<1> HIDE DEF f
<1>2. f[0] = GeometricStep(f, l1, alpha, 0)
  BY <1>1, SolvesAt
<1> QED
  BY <1>2 DEF GeometricStep, f

LEMMA CeilDivType ==
    ASSUME NEW a \in Nat, NEW b \in Nat, NEW d \in Nat \ {0}
    PROVE  CeilDiv(a * b, d) \in Nat
<1> DEFINE c == a * b + d - 1
<1>1. c \in Nat
  <2>1. a * b \in Nat
    OBVIOUS
  <2> QED
    BY <2>1
<1> HIDE DEF c
<1>2. c \div d \in Nat
  BY <1>1
<1> QED
  BY <1>2 DEF CeilDiv, c

\* Lengths are natural numbers.
LEMMA GeometricType ==
    ASSUME NEW l1 \in Nat, NEW alpha \in Nat \X (Nat \ {0}), NEW count \in Nat
    PROVE  Geometric(l1, alpha, count) \in [0 .. count - 1 -> Nat]
<1> DEFINE f == Geometric(l1, alpha, count)
           Strays == {i \in Nat : i < count /\ f[i] \notin Nat}
<1>1. Solves(f, l1, alpha, count)
  BY GeometricSolves
<1> HIDE DEF f
<1>2. ASSUME Strays # {} PROVE FALSE
  <2>1. PICK i \in Strays : \A j \in Strays : ~ j < i
    BY <1>2, SmallestOf, Zenon
  <2>2. i \in 0 .. count - 1
    BY <2>1
  <2>3. f[i] = GeometricStep(f, l1, alpha, i)
    BY <1>1, <2>2, SolvesAt
  <2>4. i > 0 => f[i - 1] \in Nat
    BY <2>1, <2>2
  <2>5. alpha[1] \in Nat /\ alpha[2] \in Nat \ {0}
    OBVIOUS
  <2>6. i > 0 => CeilDiv(f[i - 1] * alpha[1], alpha[2]) \in Nat
    BY <2>4, <2>5, CeilDivType
  <2> QED
    BY <2>1, <2>2, <2>3, <2>6 DEF GeometricStep
<1>3. f = [i \in 0 .. count - 1 |-> GeometricStep(f, l1, alpha, i)]
  BY <1>1 DEF Solves
<1>4. \A i \in 0 .. count - 1 : f[i] \in Nat
  BY <1>2
<1>5. DOMAIN f = 0 .. count - 1 /\ f = [i \in DOMAIN f |-> f[i]]
  <2>1. DOMAIN f = 0 .. count - 1
    BY <1>3
  <2>2. f = [i \in DOMAIN f |-> f[i]]
    <3> DEFINE e(i) == GeometricStep(f, l1, alpha, i)
    <3>1. f = [i \in 0 .. count - 1 |-> e(i)]
      BY <1>3
    <3> HIDE DEF e
    <3> QED  BY <3>1
  <2> QED  BY <2>1, <2>2
<1> QED
  BY <1>4, <1>5 DEF f

LEMMA ShortHistType == \A i \in Table : ShortHist[i] \in Nat
<1> DEFINE count == NumTables + Addtl
<1>1. count \in Nat /\ L1 \in Nat /\ Alpha \in Nat \X (Nat \ {0})
  BY SizeAssumption
<1>2. AllLengths = Geometric(L1, Alpha, count)
  BY DEF AllLengths
<1>3. \A i \in Table : i \in 0 .. count - 1
  BY SizeAssumption DEF Table
<1> HIDE DEF count
<1>4. AllLengths \in [0 .. count - 1 -> Nat]
  <2>1. Geometric(L1, Alpha, count) \in [0 .. count - 1 -> Nat]
    BY <1>1, GeometricType, Zenon
  <2> QED
    BY <1>2, <2>1
<1> QED
  BY <1>3, <1>4 DEF ShortHist

-----------------------------------------------------------------------------

(***************************************************************************)
(* A counter stays between its bounds (SaturatingCounter.hpp 21-27).       *)
(***************************************************************************)
LEMMA CounterKept ==
    ASSUME NEW bits, 2 ^ (bits - 1) \in Nat \ {0}, NEW c \in Counter(bits)
    PROVE  /\ Inc(c, bits) \in Counter(bits) /\ Dec(c, bits) \in Counter(bits)
           /\ 0 \in Counter(bits)
<1> DEFINE half == 2 ^ (bits - 1)
<1>1. half \in Nat \ {0} /\ c \in -half .. half - 1
  BY DEF Counter, Lowest, Highest
<1> HIDE DEF half
<1>2. /\ Inc(c, bits) = (IF c < half - 1 THEN c + 1 ELSE half - 1)
      /\ Dec(c, bits) = (IF c > -half THEN c - 1 ELSE -half)
      /\ Counter(bits) = -half .. half - 1
  BY DEF Inc, Dec, Counter, Lowest, Highest, half
<1> QED BY <1>1, <1>2

(***************************************************************************)
(* The fold of a table is an index (ogehl.hpp 192).                        *)
(***************************************************************************)
LEMMA CompressIsIndex ==
    ASSUME NEW f, NEW h, NEW l, NEW s, NEW d, NEW b
    PROVE  Compress(f, h, l, s, d, IdxBits, b) \in Index
BY DEF Compress, Index

(***************************************************************************)
(* The indices of the tables are in range (ogehl.hpp 207).                 *)
(***************************************************************************)
LEMMA TableIndexInRange ==
    ASSUME NEW i, NEW pc PROVE TableIndex(i, pc) \in Index
BY DEF TableIndex, Index

\* Where predict() has read the tables is where update() is going to train
\* them: nothing that the index depends on changes in between.
IndexKept ==
    pending.kind = "C" =>
        pending.index = [i \in Table |-> TableIndex(i, pending.pc)]

IInv == TypeOK /\ IndexKept

LEMMA InitOK == Init => IInv
<1> SUFFICES ASSUME Init PROVE IInv OBVIOUS
<1>1. tables \in [Table -> [Index -> Counter(CtrBits)]]
  <2>1. 0 \in Counter(CtrBits)
    <3>1. 2 ^ (CtrBits - 1) \in Nat \ {0}
      BY WidthAssumption
    <3> DEFINE half == 2 ^ (CtrBits - 1)
    <3> HIDE DEF half
    <3>2. half \in Nat \ {0} /\ Counter(CtrBits) = -half .. half - 1
      BY <3>1 DEF half, Counter, Lowest, Highest
    <3> QED BY <3>2
  <2> QED BY <2>1 DEF Init
<1>2. tc \in Counter(TCBits) /\ ac \in Counter(ACBits)
  <2> DEFINE t == 2 ^ (TCBits - 1)  a == 2 ^ (ACBits - 1)
  <2>1. t \in Nat \ {0} /\ a \in Nat \ {0}
    BY WidthAssumption
  <2>2. Counter(TCBits) = -t .. t - 1 /\ Counter(ACBits) = -a .. a - 1
    BY DEF Counter, Lowest, Highest
  <2> HIDE DEF t, a
  <2> QED BY <2>1, <2>2 DEF Init
<1>3. /\ useLong \in BOOLEAN /\ comp \in [Table \ {0} -> Index]
      /\ hist \subseteq Bits(HistSize) /\ path \subseteq Bits(PathBits)
      /\ tags \in [Index -> BOOLEAN]
  BY DEF Init, Index
<1>5. theta \in Int /\ miss \in Nat /\ correct \in Nat /\ ops \in Nat
  BY WidthAssumption DEF Init
<1>4. pending = Idle /\ IndexKept /\ dyn \in Adaptations
  BY DEF Init, IndexKept, Idle
<1> QED BY <1>1, <1>2, <1>3, <1>4, <1>5 DEF IInv, TypeOK

(***************************************************************************)
(* predict() writes nothing but the prediction.                            *)
(***************************************************************************)
LEMMA PredictKept ==
    ASSUME IInv, UNCHANGED dyn,
           NEW pc \in PCs, Predict(pc) \/ PredictUnconditional(pc)
    PROVE  IInv'
<1> USE DEF IInv
<1>1. UNCHANGED <<dyn, tables, useLong, comp, hist, path, theta, tc, ac, tags,
                  miss, correct, ops>>
  BY DEF Predict, PredictUnconditional, history
<1>2. /\ pending'.kind \in {"C", "U"} /\ pending'.pc \in PCs
      /\ pending'.direction \in BOOLEAN
  <2>1. CASE Predict(pc)
    <3> DEFINE index == [i \in Table |-> TableIndex(i, pc)]
    <3>1. pending' = [kind |-> "C", pc |-> pc, index |-> index,
                      sum |-> Sum(index), direction |-> Sum(index) >= 0]
      BY <2>1 DEF Predict
    <3>2. (Sum(index) >= 0) \in BOOLEAN
      OBVIOUS
    <3> HIDE DEF index
    <3> QED BY <3>1, <3>2
  <2>2. CASE PredictUnconditional(pc)
    BY <2>2 DEF PredictUnconditional
  <2> QED BY <2>1, <2>2
<1>3. \A i, q : TableIndex(i, q)' = TableIndex(i, q')
  BY <1>1 DEF TableIndex
<1>4. IndexKept'
  <2>1. CASE Predict(pc)
    <3>1. /\ pending'.kind = "C" /\ pending'.pc = pc
          /\ pending'.index = [i \in Table |-> TableIndex(i, pc)]
      BY <2>1 DEF Predict
    <3>2. \A i \in Table : TableIndex(i, pending.pc)' = TableIndex(i, pc)
      BY <1>1, <3>1 DEF TableIndex
    <3> QED BY <3>1, <3>2 DEF IndexKept
  <2>2. CASE PredictUnconditional(pc)
    BY <2>2 DEF PredictUnconditional, IndexKept
  <2> QED BY <2>1, <2>2
<1>5. TypeOK'
  BY <1>1, <1>2 DEF TypeOK
<1> QED BY <1>4, <1>5

(***************************************************************************)
(* The histories and the folds keep their widths.                          *)
(***************************************************************************)
LEMMA HistoryKept ==
    ASSUME NEW taken, EnterHistory(taken)
    PROVE  /\ comp' \in [Table \ {0} -> Index]
           /\ hist' \subseteq Bits(HistSize) /\ path' \subseteq Bits(PathBits)
BY CompressIsIndex DEF EnterHistory, Push

LEMMA UpdateUnconditionalKept ==
    ASSUME IInv, UNCHANGED dyn, UpdateUnconditional PROVE IInv'
<1>1. /\ comp' \in [Table \ {0} -> Index]
      /\ hist' \subseteq Bits(HistSize) /\ path' \subseteq Bits(PathBits)
  BY HistoryKept DEF UpdateUnconditional
<1>2. pending' = Idle /\ ops' \in Nat
  BY DEF UpdateUnconditional, IInv, TypeOK
<1>3. UNCHANGED <<dyn, tables, useLong, theta, tc, ac, tags, miss, correct>>
  BY DEF UpdateUnconditional
<1> QED BY <1>1, <1>2, <1>3 DEF IInv, TypeOK, IndexKept, Idle

(***************************************************************************)
(* What is learned from a branch keeps the tables and counters in range.   *)
(***************************************************************************)
LEMMA LearnKept ==
    ASSUME IInv, NEW taken \in BOOLEAN, Learn(taken)
    PROVE  /\ tables' \in [Table -> [Index -> Counter(CtrBits)]]
           /\ useLong' \in BOOLEAN /\ ac' \in Counter(ACBits)
           /\ tags' \in [Index -> BOOLEAN]
           /\ miss' \in Nat /\ correct' \in Nat
<1> USE DEF IInv
<1>1. tables' \in [Table -> [Index -> Counter(CtrBits)]]
  <2>1. \A c \in Counter(CtrBits) : Train(c, taken) \in Counter(CtrBits)
    BY CounterKept, WidthAssumption DEF Train
  <2> SUFFICES ASSUME NEW i \in Table
               PROVE  [tables[i] EXCEPT ![TableIndex(i, pending.pc)] = Train(@, taken)]
                          \in [Index -> Counter(CtrBits)]
    BY DEF Learn, TrainTables
  <2> QED BY <2>1, TableIndexInRange DEF TypeOK
<1>2. useLong' \in BOOLEAN /\ ac' \in Counter(ACBits) /\ tags' \in [Index -> BOOLEAN]
  <2>1. CASE ~dyn.hist
    BY <2>1 DEF Learn, TypeOK
  <2>2. CASE dyn.hist
    <3>1. DynamicHistoryFit
      BY <2>2 DEF Learn
    <3> DEFINE index == TableIndex(Back, pending.pc)
               bit == 0 \in pending.pc
    <3>2. index \in Index /\ bit \in BOOLEAN
      BY TableIndexInRange
    <3>3. ac' = (IF bit = tags[index] THEN Inc(ac, ACBits) ELSE Dec4(ac))
      BY <3>1 DEF DynamicHistoryFit
    <3>4. ac' \in Counter(ACBits)
      BY <3>3, CounterKept, WidthAssumption DEF Dec4, TypeOK
    <3>5. useLong' \in BOOLEAN
      <4>1. useLong' \in IF IsSaturated(ac', ACBits) THEN {bit = tags[index]} ELSE BOOLEAN
        BY <3>1 DEF DynamicHistoryFit
      <4>2. (bit = tags[index]) \in BOOLEAN
        OBVIOUS
      <4> QED BY <4>1, <4>2
    <3>6. tags' = [tags EXCEPT ![index] = bit]
      BY <3>1 DEF DynamicHistoryFit
    <3>7. tags' \in [Index -> BOOLEAN]
      <4> HIDE DEF index, bit
      <4> QED BY <3>2, <3>6 DEF TypeOK
    <3> QED BY <3>4, <3>5, <3>7
  <2> QED BY <2>1, <2>2
<1>3. miss' \in Nat /\ correct' \in Nat
  BY DEF Learn, TypeOK
<1> QED BY <1>1, <1>2, <1>3

(***************************************************************************)
(* _dynamicThresholdFit() keeps its counter in range.                      *)
(***************************************************************************)
LEMMA ThresholdKept ==
    ASSUME IInv, NEW taken \in BOOLEAN, DynamicThresholdFit(taken)
    PROVE  theta' \in Int /\ tc' \in Counter(TCBits)
<1> DEFINE counter == IF Incorrect(taken) THEN Inc(tc, TCBits) ELSE Dec(tc, TCBits)
           step == IF Incorrect(taken) THEN 1 ELSE -1
<1>1. counter \in Counter(TCBits) /\ 0 \in Counter(TCBits) /\ tc \in Counter(TCBits)
  BY CounterKept, WidthAssumption DEF IInv, TypeOK
<1>2. step \in Int /\ theta \in Int
  BY DEF IInv, TypeOK
<1>3. /\ theta' \in {theta, theta + step}
      /\ tc' \in {tc, counter, 0}
  BY DEF DynamicThresholdFit
<1> HIDE DEF counter, step
<1> QED BY <1>1, <1>2, <1>3

LEMMA UpdateKept ==
    ASSUME IInv, UNCHANGED dyn, NEW taken \in BOOLEAN, Update(taken) PROVE IInv'
<1>1. /\ comp' \in [Table \ {0} -> Index]
      /\ hist' \subseteq Bits(HistSize) /\ path' \subseteq Bits(PathBits)
  BY HistoryKept DEF Update
<1>2. theta' \in Int /\ tc' \in Counter(TCBits)
  BY ThresholdKept DEF Update
<1>3. /\ tables' \in [Table -> [Index -> Counter(CtrBits)]]
      /\ useLong' \in BOOLEAN /\ ac' \in Counter(ACBits)
      /\ tags' \in [Index -> BOOLEAN]
      /\ miss' \in Nat /\ correct' \in Nat
  <2>1. CASE Updates(taken)
    BY <2>1, LearnKept DEF Update
  <2>2. CASE ~Updates(taken)
    BY <2>2 DEF Update, IInv, TypeOK
  <2> QED BY <2>1, <2>2
<1>4. pending' = Idle /\ ops' \in Nat /\ dyn' \in Adaptations
  BY DEF Update, IInv, TypeOK
<1> QED BY <1>1, <1>2, <1>3, <1>4 DEF IInv, TypeOK, IndexKept, Idle

LEMMA StutterKept == ASSUME IInv, UNCHANGED vars PROVE IInv'
<1>1. UNCHANGED <<dyn, tables, useLong, comp, hist, path, theta, tc, ac, tags,
                  miss, correct, pending, ops>>
  BY DEF vars
<1> QED BY <1>1 DEF IInv, TypeOK, IndexKept, TableIndex

LEMMA NextKept == ASSUME IInv, [Next]_vars PROVE IInv'
<1> USE DEF Next
<1>1. CASE UNCHANGED dyn /\ \E pc \in PCs : Predict(pc) \/ PredictUnconditional(pc)
  BY <1>1, PredictKept
<1>2. CASE UNCHANGED dyn /\ \E taken \in BOOLEAN : Update(taken)
  BY <1>2, UpdateKept
<1>3. CASE UNCHANGED dyn /\ UpdateUnconditional
  BY <1>3, UpdateUnconditionalKept
<1>4. CASE UNCHANGED vars
  BY <1>4, StutterKept
<1> QED BY <1>1, <1>2, <1>3, <1>4 DEF Next

LEMMA Invariance == Spec => []IInv
<1>1. Init => IInv
  BY InitOK
<1>2. IInv /\ [Next]_vars => IInv'
  BY NextKept
<1> QED BY <1>1, <1>2, PTL DEF Spec

(***************************************************************************)
(* Every counter stays within its width, every index within its table and  *)
(* every history within its length.                                        *)
(***************************************************************************)
THEOREM TypeCorrect == Spec => []TypeOK
<1>1. IInv => TypeOK
  BY DEF IInv
<1> QED BY <1>1, Invariance, PTL

(***************************************************************************)
(* No counter is trained but those that the prediction has read.           *)
(***************************************************************************)
THEOREM TrainsReadCorrect == Spec => TrainsWhatItRead
<1>1. ASSUME IInv, [Next]_vars, NEW i \in Table, NEW x \in Index,
             tables'[i][x] # tables[i][x]
      PROVE  pending.kind = "C" /\ x = pending.index[i]
  <2>1. CASE \E pc \in PCs : Predict(pc) \/ PredictUnconditional(pc)
    BY <1>1, <2>1 DEF Predict, PredictUnconditional
  <2>2. CASE UpdateUnconditional \/ UNCHANGED vars
    BY <1>1, <2>2 DEF UpdateUnconditional, vars
  <2>3. ASSUME NEW taken \in BOOLEAN, Update(taken)
        PROVE  pending.kind = "C" /\ x = pending.index[i]
    <3>1. pending.kind = "C"
      BY <2>3 DEF Update
    <3>2. pending.index[i] = TableIndex(i, pending.pc)
      BY <1>1, <3>1 DEF IInv, IndexKept
    <3>3. Updates(taken) /\ Learn(taken)
      BY <1>1, <2>3 DEF Update
    <3>4. tables'[i] = [tables[i] EXCEPT ![TableIndex(i, pending.pc)] = Train(@, taken)]
      BY <3>3 DEF Learn, TrainTables
    <3>5. tables[i] \in [Index -> Counter(CtrBits)]
      BY <1>1 DEF IInv, TypeOK
    <3> QED BY <1>1, <3>1, <3>2, <3>4, <3>5
  <2> QED BY <1>1, <2>1, <2>2, <2>3 DEF Next
<1>2. IInv /\ [Next]_vars =>
        [\A i \in Table, x \in Index :
            tables'[i][x] # tables[i][x]
                => pending.kind = "C" /\ x = pending.index[i]]_vars
  BY <1>1
<1> QED BY <1>2, Invariance, PTL DEF Spec, TrainsWhatItRead

(***************************************************************************)
(* The threshold.                                                          *)
(***************************************************************************)

\* What update() does to the threshold and to the counts of updates.
LEMMA ThresholdStep ==
    ASSUME IInv, NEW taken \in BOOLEAN, Update(taken)
    PROVE  /\ Incorrect(taken) \in BOOLEAN
           /\ Updates(taken) =>
                /\ miss' = miss + (IF Incorrect(taken) THEN 1 ELSE 0)
                /\ correct' = correct + (IF Incorrect(taken) THEN 0 ELSE 1)
           /\ ~Updates(taken) => UNCHANGED <<theta, tc, miss, correct>>
           /\ DynamicThresholdFit(taken)
BY DEF Update, Learn, DynamicThresholdFit, Incorrect

LEMMA ThetaKept ==
    ASSUME IInv, ThetaBounded, [Next]_vars PROVE ThetaBounded'
<1>1. CASE UNCHANGED theta
  BY <1>1 DEF ThetaBounded
<1>2. ASSUME NEW taken \in BOOLEAN, Update(taken) PROVE ThetaBounded'
  <2>1. theta \in Int /\ theta >= -1
    BY DEF IInv, TypeOK, ThetaBounded
  <2>2. DynamicThresholdFit(taken)
    BY <1>2 DEF Update
  <2>3. CASE Incorrect(taken)
    BY <2>1, <2>2, <2>3 DEF DynamicThresholdFit, ThetaBounded
  <2>4. CASE ~Incorrect(taken) /\ UpdateCorrect(taken)
    <3>1. theta >= 0
      BY <2>1, <2>4 DEF UpdateCorrect, LowThreshold
    <3>2. theta' \in {theta, theta - 1}
      BY <2>1, <2>2, <2>4 DEF DynamicThresholdFit
    <3> QED BY <2>1, <3>1, <3>2 DEF ThetaBounded
  <2>5. CASE ~Updates(taken)
    BY <2>1, <2>2, <2>5 DEF DynamicThresholdFit, ThetaBounded
  <2> QED BY <2>3, <2>4, <2>5 DEF Updates
<1>3. [Next]_vars => UNCHANGED theta \/ \E taken \in BOOLEAN : Update(taken)
  BY DEF Next, vars, Predict, PredictUnconditional, UpdateUnconditional
<1> QED BY <1>1, <1>2, <1>3

(***************************************************************************)
(* The threshold never falls below -1, whatever is executed.               *)
(***************************************************************************)
THEOREM ThetaNeverBelow == Spec => []ThetaBounded
<1>1. Init => ThetaBounded
  BY WidthAssumption DEF Init, ThetaBounded
<1>2. IInv /\ ThetaBounded /\ [Next]_vars => ThetaBounded'
  BY ThetaKept
<1> QED BY <1>1, <1>2, Invariance, PTL DEF Spec

\* The account of the threshold, with the counter off its bounds: it is reset
\* when it gets there.
Account ==
    dyn.theta /\ Highest(TCBits) > 0 =>
        /\ Lowest(TCBits) < tc /\ tc < Highest(TCBits)
        /\ ThetaAccountsForUpdates

\* One more of a multiple.
LEMMA OneMore ==
    ASSUME NEW n \in Int, NEW k \in Int
    PROVE  (n + 1) * k = n * k + k
OBVIOUS

LEMMA AccountKept == ASSUME IInv, Account, [Next]_vars PROVE Account'
<1>1. CASE UNCHANGED <<dyn, theta, tc, miss, correct>>
  BY <1>1 DEF Account, ThetaAccountsForUpdates
<1>2. ASSUME NEW taken \in BOOLEAN, Update(taken), UNCHANGED dyn PROVE Account'
  <2> SUFFICES ASSUME dyn.theta, Highest(TCBits) > 0 PROVE Account'
    BY <1>2 DEF Account
  <2> DEFINE H == Highest(TCBits)
             counter == IF Incorrect(taken) THEN Inc(tc, TCBits) ELSE Dec(tc, TCBits)
             step == IF Incorrect(taken) THEN 1 ELSE -1
  <2>1. H \in Nat \ {0} /\ Lowest(TCBits) = -H - 1
    <3> DEFINE half == 2 ^ (TCBits - 1)
    <3>1. half \in Nat /\ H = half - 1 /\ Lowest(TCBits) = -half
      BY WidthAssumption DEF Highest, Lowest
    <3> HIDE DEF half
    <3> QED BY <3>1
  <2>2. /\ theta \in Int /\ Theta \in Nat /\ miss \in Nat /\ correct \in Nat
        /\ tc \in Int /\ -H - 1 < tc /\ tc < H
    <3>1. tc \in Int
      BY <2>1 DEF IInv, TypeOK, Counter
    <3> QED BY <2>1, <3>1, WidthAssumption DEF IInv, TypeOK, Account
  <2>3. PICK up \in 0 .. miss, down \in 0 .. correct :
          /\ theta = Theta + up - down
          /\ miss - correct = tc + up * H + down * (-H - 1)
    BY <2>1 DEF Account, ThetaAccountsForUpdates
  <2>4. CASE ~Updates(taken)
    <3>1. UNCHANGED <<theta, tc, miss, correct>>
      BY <1>2, <2>4, ThresholdStep
    <3> QED BY <1>1, <1>2, <3>1
  <2>5. ASSUME Updates(taken), Incorrect(taken) PROVE Account'
    <3>1. miss' = miss + 1 /\ correct' = correct
      BY <1>2, <2>2, <2>5, ThresholdStep
    <3>2. IF tc + 1 = H THEN theta' = theta + 1 /\ tc' = 0
                        ELSE theta' = theta /\ tc' = tc + 1
      <4>1. Inc(tc, TCBits) = tc + 1
        BY <2>2 DEF Inc
      <4>2. IsSaturated(tc + 1, TCBits) <=> tc + 1 = H
        BY <2>1, <2>2 DEF IsSaturated
      <4> QED BY <1>2, <2>5, <4>1, <4>2, ThresholdStep DEF DynamicThresholdFit
    <3>3. CASE tc + 1 = H
      <4>1. (up + 1) * H = up * H + H
        BY <2>1, <2>3
      <4>2. up + 1 \in 0 .. miss' /\ down \in 0 .. correct'
        BY <2>2, <2>3, <3>1
      <4>3. /\ theta' = Theta + (up + 1) - down
            /\ miss' - correct' = tc' + (up + 1) * H + down * (-H - 1)
        <5> DEFINE uH == up * H  dL == down * (-H - 1)
        <5>1. uH \in Int /\ dL \in Int
          BY <2>1, <2>3
        <5>2. miss - correct = tc + uH + dL
          BY <2>3
        <5>3. (up + 1) * H = uH + H
          BY <4>1
        <5> HIDE DEF uH, dL
        <5>4. miss' - correct' = tc' + (uH + H) + dL
          BY <2>1, <2>2, <3>1, <3>2, <3>3, <5>1, <5>2
        <5>5. theta' = Theta + (up + 1) - down
          BY <2>2, <2>3, <3>2, <3>3
        <5> QED BY <5>3, <5>4, <5>5 DEF dL
      <4> QED BY <2>1, <3>2, <3>3, <4>2, <4>3 DEF Account, ThetaAccountsForUpdates
    <3>4. CASE tc + 1 # H
      <4>1. up \in 0 .. miss' /\ down \in 0 .. correct'
        BY <2>2, <2>3, <3>1
      <4>2. miss' - correct' = tc' + up * H + down * (-H - 1)
        <5> DEFINE uH == up * H  dL == down * (-H - 1)
        <5>1. uH \in Int /\ dL \in Int
          BY <2>1, <2>3
        <5>2. miss - correct = tc + uH + dL
          BY <2>3
        <5> HIDE DEF uH, dL
        <5>3. miss' - correct' = tc' + uH + dL
          BY <2>2, <3>1, <3>2, <3>4, <5>1, <5>2
        <5> QED BY <5>3 DEF uH, dL
      <4>3. -H - 1 < tc' /\ tc' < H /\ theta' = theta
        BY <2>1, <2>2, <3>2, <3>4
      <4> QED BY <2>1, <2>3, <4>1, <4>2, <4>3 DEF Account, ThetaAccountsForUpdates
    <3> QED BY <3>3, <3>4
  <2>6. ASSUME Updates(taken), ~Incorrect(taken) PROVE Account'
    <3>1. miss' = miss /\ correct' = correct + 1
      BY <1>2, <2>2, <2>6, ThresholdStep
    <3>2. IF tc - 1 = -H - 1 THEN theta' = theta - 1 /\ tc' = 0
                             ELSE theta' = theta /\ tc' = tc - 1
      <4>1. Dec(tc, TCBits) = tc - 1
        BY <2>1, <2>2 DEF Dec
      <4>2. IsSaturated(tc - 1, TCBits) <=> tc - 1 = -H - 1
        BY <2>1, <2>2 DEF IsSaturated
      <4>3. theta + (-1) = theta - 1
        BY <2>2
      <4> QED BY <1>2, <2>6, <4>1, <4>2, <4>3, ThresholdStep DEF DynamicThresholdFit
    <3>3. CASE tc - 1 = -H - 1
      <4>2. up \in 0 .. miss' /\ down + 1 \in 0 .. correct'
        BY <2>2, <2>3, <3>1
      <4>3. /\ theta' = Theta + up - (down + 1)
            /\ miss' - correct' = tc' + up * H + (down + 1) * (-H - 1)
        <5> DEFINE uH == up * H  dL == down * (-H - 1)
        <5>1. uH \in Int /\ dL \in Int
          BY <2>1, <2>3
        <5>2. miss - correct = tc + uH + dL
          BY <2>3
        <5>3. (down + 1) * (-H - 1) = dL + (-H - 1)
          <6>1. -H - 1 \in Int /\ down \in Int
            BY <2>1, <2>3
          <6> QED BY <6>1, OneMore
        <5> HIDE DEF uH, dL
        <5>4. miss' - correct' = tc' + uH + (dL + (-H - 1))
          BY <2>1, <2>2, <3>1, <3>2, <3>3, <5>1, <5>2
        <5>5. theta' = Theta + up - (down + 1)
          BY <2>2, <2>3, <3>2, <3>3
        <5> QED BY <5>3, <5>4, <5>5 DEF uH
      <4> QED BY <2>1, <3>2, <3>3, <4>2, <4>3 DEF Account, ThetaAccountsForUpdates
    <3>4. CASE tc - 1 # -H - 1
      <4>1. up \in 0 .. miss' /\ down \in 0 .. correct'
        BY <2>2, <2>3, <3>1
      <4>2. miss' - correct' = tc' + up * H + down * (-H - 1)
        <5> DEFINE uH == up * H  dL == down * (-H - 1)
        <5>1. uH \in Int /\ dL \in Int
          BY <2>1, <2>3
        <5>2. miss - correct = tc + uH + dL
          BY <2>3
        <5> HIDE DEF uH, dL
        <5>3. miss' - correct' = tc' + uH + dL
          BY <2>2, <3>1, <3>2, <3>4, <5>1, <5>2
        <5> QED BY <5>3 DEF uH, dL
      <4>3. -H - 1 < tc' /\ tc' < H /\ theta' = theta
        BY <2>1, <2>2, <3>2, <3>4
      <4> QED BY <2>1, <2>3, <4>1, <4>2, <4>3 DEF Account, ThetaAccountsForUpdates
    <3> QED BY <3>3, <3>4
  <2> QED BY <2>4, <2>5, <2>6
<1>3. [Next]_vars => \/ UNCHANGED <<dyn, theta, tc, miss, correct>>
                     \/ \E taken \in BOOLEAN : Update(taken) /\ UNCHANGED dyn
  BY DEF Next, vars, Predict, PredictUnconditional, UpdateUnconditional
<1> QED BY <1>1, <1>2, <1>3

(***************************************************************************)
(* The threshold is moved by nothing but the balance of updates on wrong   *)
(* and on right predictions.                                               *)
(***************************************************************************)
THEOREM ThetaAccounts == Spec => []ThetaAccountsForUpdates
<1>1. Init => Account
  <2> SUFFICES ASSUME Init, Highest(TCBits) > 0 PROVE Account
    BY DEF Account
  <2> DEFINE H == Highest(TCBits)
  <2>1. H \in Nat \ {0} /\ Lowest(TCBits) = -H - 1
    <3> DEFINE half == 2 ^ (TCBits - 1)
    <3>1. half \in Nat /\ H = half - 1 /\ Lowest(TCBits) = -half
      BY WidthAssumption DEF Highest, Lowest
    <3> HIDE DEF half
    <3> QED BY <3>1
  <2>2. theta = Theta /\ Theta \in Nat /\ tc = 0 /\ miss = 0 /\ correct = 0
    BY WidthAssumption DEF Init
  <2>3. 0 * H = 0 /\ 0 * (-H - 1) = 0
    BY <2>1
  <2>4. /\ 0 \in 0 .. miss /\ 0 \in 0 .. correct /\ theta = Theta + 0 - 0
        /\ miss - correct = tc + 0 * H + 0 * (-H - 1)
    BY <2>2, <2>3
  <2> QED BY <2>1, <2>2, <2>4 DEF Account, ThetaAccountsForUpdates
<1>2. IInv /\ Account /\ [Next]_vars => Account'
  BY AccountKept
<1>3. Account => ThetaAccountsForUpdates
  BY DEF Account, ThetaAccountsForUpdates
<1> QED BY <1>1, <1>2, <1>3, Invariance, PTL DEF Spec

-----------------------------------------------------------------------------
(***************************************************************************)
(* With the adaptations switched off this is the predictor of Gehl.tla.    *)
(* The definitions that both modules take from the same place mean the     *)
(* same there.                                                             *)
(***************************************************************************)
LEMMA SameBits ==
    /\ G!Table = Table /\ G!Index = Index /\ G!Idle = Idle
    /\ \A n : G!Bits(n) = Bits(n)
    /\ \A h, bit : G!Push(h, bit) = Push(h, bit)
    /\ \A a, b, c : G!Xor3(a, b, c) = Xor3(a, b, c)
    /\ \A i, n : G!ShiftOf(i, n) = ShiftOf(i, n)
    /\ \A i, n, l : G!LastDest(i, n, l) = LastDest(i, n, l)
BY DEF G!Table, Table, G!Index, Index, G!Idle, Idle, G!Bits, Bits, G!Push, Push,
       G!ShiftLeft, ShiftLeft, G!BitIf, BitIf, G!Xor3, Xor3, G!SymDiff, SymDiff,
       G!ShiftOf, ShiftOf, G!LastDest, LastDest

LEMMA SameCompress ==
    \A f, h, l, s, d, n, b : G!Compress(f, h, l, s, d, n, b) = Compress(f, h, l, s, d, n, b)
BY DEF G!Compress, Compress, G!Bits, Bits, G!ShiftLeft, ShiftLeft, G!ShiftRight, ShiftRight,
       G!BitIf, BitIf, G!ReadBit, ReadBit, G!SymDiff, SymDiff

LEMMA SameTrain == \A c, taken : G!Train(c, taken) = Train(c, taken)
BY DEF G!Train, Train, G!Inc, Inc, G!Dec, Dec, G!Highest, Highest, G!Lowest, Lowest

LEMMA SameSum == \A index : G!Sum(index) = Sum(index)
<1>1. ASSUME NEW f PROVE G!SumFunction(f) = SumFunction(f)
  BY DEF G!SumFunction, SumFunction, G!SumFunctionOnSet, SumFunctionOnSet,
         G!FoldFunctionOnSet, FoldFunctionOnSet, G!MapThenFoldSet, MapThenFoldSet
<1> QED
  BY <1>1 DEF G!Sum, Sum, G!Table, Table

\* The lengths of Gehl are the first of those of Ogehl.
LEMMA SameLengths ==
    /\ \A i \in Table : G!HistLen[i] = ShortHist[i]
    /\ ShortHist[0] = 0 /\ G!PathBits = PathBits
<1>1. G!HistLen = Geometric(L1, Alpha, NumTables)
  BY DEF G!HistLen, G!Geometric, Geometric, G!CeilDiv, CeilDiv
<1>2. /\ NumTables \in Nat /\ NumTables + Addtl \in Nat /\ NumTables <= NumTables + Addtl
      /\ 0 \in Table /\ Back \in Table /\ G!Back = Back
  BY SizeAssumption DEF Table, Back, G!Back
<1>3. \A i \in Table : G!HistLen[i] = AllLengths[i]
  BY <1>1, <1>2, GeometricPrefix DEF AllLengths, Table
<1>4. AllLengths[0] = 0
  <2>1. NumTables + Addtl \in Nat \ {0}
    BY SizeAssumption
  <2> QED
    BY <2>1, GeometricFirst DEF AllLengths
<1>5. \A i \in Table : ShortHist[i] = AllLengths[i]
  BY DEF ShortHist
<1> QED
  BY <1>2, <1>3, <1>4, <1>5 DEF G!PathBits, PathBits, G!Least, Least

\* Nothing adapts.
Fixed == Static => useLong = FALSE /\ theta = Theta

LEMMA FixedKept == ASSUME Fixed, [Next]_vars PROVE Fixed'
<1>1. CASE UNCHANGED vars
  BY <1>1 DEF Fixed, Static, vars
<1>2. CASE \E pc \in PCs : Predict(pc) \/ PredictUnconditional(pc)
  BY <1>2 DEF Predict, PredictUnconditional, Next, Fixed, Static, vars
<1>3. ASSUME NEW taken \in BOOLEAN, Update(taken), UNCHANGED dyn PROVE Fixed'
  BY <1>3 DEF Update, Learn, DynamicThresholdFit, Fixed, Static
<1>4. CASE UpdateUnconditional /\ UNCHANGED dyn
  BY <1>4 DEF UpdateUnconditional, Fixed, Static
<1> QED
  BY <1>1, <1>2, <1>3, <1>4 DEF Next, vars

LEMMA SameIndex ==
    ASSUME TypeOK, useLong = FALSE, NEW i \in Table, NEW pc
    PROVE  G!GehlIndex(i, pc) = TableIndex(i, pc)
<1>1. HistBits(useLong) = ShortHist /\ G!HistLen[i] = ShortHist[i]
  BY SameLengths DEF HistBits
<1>2. path \subseteq Bits(PathBits)
  BY DEF TypeOK
<1>3. CASE i = 0
  <2>1. Bits(ShortHist[i]) = {}
    BY <1>3, SameLengths DEF Bits
  <2>2. TableIndex(i, pc) = Xor3(pc, {}, {}) \cap Bits(IdxBits)
    BY <1>1, <1>3, <2>1 DEF TableIndex
  <2>3. Xor3(pc, {}, {}) = pc
    BY DEF Xor3, SymDiff
  <2> QED
    BY <1>3, <2>2, <2>3, SameBits DEF G!GehlIndex
<1>4. CASE i # 0
  <2> DEFINE mask == Bits(ShortHist[i])
             short == Bits(Least(MaxPath, ShortHist[i]))
  <2>1. ShortHist[i] \in Nat /\ ShortHist[Back] \in Nat
    BY SizeAssumption, ShortHistType DEF Table, Back
  <2>2. path \cap mask = path \cap short
    BY <1>2, <2>1, SizeAssumption DEF PathBits, Bits, Least
  <2>3. G!GehlIndex(i, pc) = Xor3(pc, comp[i] \cap mask, path \cap short) \cap Bits(IdxBits)
    BY <1>1, <1>4, SameBits DEF G!GehlIndex, G!Least, Least
  <2>4. TableIndex(i, pc) = Xor3(pc, path \cap mask, comp[i] \cap mask) \cap Bits(IdxBits)
    BY <1>1, <1>4 DEF TableIndex
  <2>5. \A a, b, c : Xor3(a, b, c) = Xor3(a, c, b)
    BY DEF Xor3, SymDiff
  <2> QED
    BY <2>2, <2>3, <2>4, <2>5
<1> QED
  BY <1>3, <1>4

LEMMA SameHistory ==
    ASSUME useLong' = FALSE, NEW taken, EnterHistory(taken)
    PROVE  G!EnterHistory(taken)
<1>1. HistBits(useLong') = ShortHist /\ \A i \in Table : G!HistLen[i] = ShortHist[i]
  BY SameLengths DEF HistBits
<1>2. hist' = G!Push(hist, taken) /\ path' = G!Push(path, 0 \in pending.pc) \cap G!Bits(G!PathBits)
  BY SameBits, SameLengths DEF EnterHistory
<1>3. PICK beyond \in [{i \in Table \ {0} : ShortHist[i] >= HistSize} -> BOOLEAN] :
        comp' = [i \in Table \ {0} |->
            Compress(comp[i], hist', ShortHist[i], ShiftOf(i, IdxBits),
                     LastDest(i, IdxBits, ShortHist[i]), IdxBits,
                     i \in DOMAIN beyond /\ beyond[i])]
  BY <1>1 DEF EnterHistory
<1>4. {i \in G!Table \ {0} : G!HistLen[i] >= HistSize} = {i \in Table \ {0} : ShortHist[i] >= HistSize}
  BY <1>1, SameBits
<1>5. comp' = [i \in G!Table \ {0} |->
            G!Compress(comp[i], hist', G!HistLen[i], G!ShiftOf(i, IdxBits),
                       G!LastDest(i, IdxBits, G!HistLen[i]), IdxBits,
                       i \in DOMAIN beyond /\ beyond[i])]
  <2>1. ASSUME NEW i \in Table \ {0}
        PROVE  Compress(comp[i], hist', ShortHist[i], ShiftOf(i, IdxBits),
                     LastDest(i, IdxBits, ShortHist[i]), IdxBits,
                     i \in DOMAIN beyond /\ beyond[i])
               = G!Compress(comp[i], hist', G!HistLen[i], G!ShiftOf(i, IdxBits),
                       G!LastDest(i, IdxBits, G!HistLen[i]), IdxBits,
                       i \in DOMAIN beyond /\ beyond[i])
    <3>1. G!HistLen[i] = ShortHist[i]
      BY <1>1
    <3> QED
      BY <3>1, SameBits, SameCompress, Zenon
  <2> QED
    BY <1>3, <2>1, SameBits
<1> QED
  BY <1>2, <1>4, <1>5 DEF G!EnterHistory

LEMMA PredictIsGehl ==
    ASSUME IInv, useLong = FALSE, NEW pc \in PCs, Predict(pc) PROVE G!Predict(pc)
<1>1. [i \in G!Table |-> G!GehlIndex(i, pc)] = [i \in Table |-> TableIndex(i, pc)]
  BY SameBits, SameIndex DEF IInv
<1> QED
  BY <1>1, SameBits, SameSum DEF Predict, G!Predict, history

LEMMA UpdateIsGehl ==
    ASSUME IInv, Fixed, Static, useLong' = FALSE, NEW taken \in BOOLEAN, Update(taken)
    PROVE  G!Update(taken)
<1>1. pending.kind = "C" /\ pending' = G!Idle /\ G!EnterHistory(taken)
  BY SameHistory, SameBits DEF Update
<1>2. G!LearnsFrom(taken) <=> Updates(taken)
  BY DEF G!LearnsFrom, G!LowConfidence, Updates, UpdateCorrect, Incorrect, LowThreshold, Fixed
<1>3. CASE Updates(taken)
  <2>1. tables' = [i \in Table |->
          [tables[i] EXCEPT ![TableIndex(i, pending.pc)] = Train(@, taken)]]
    BY <1>3 DEF Update, Learn, TrainTables
  <2>2. \A i \in Table : pending.index[i] = TableIndex(i, pending.pc)
    BY <1>1 DEF IInv, IndexKept
  <2>3. tables' = [i \in G!Table |->
          [tables[i] EXCEPT ![pending.index[i]] = G!Train(@, taken)]]
    BY <2>1, <2>2, SameBits, SameTrain
  <2> QED
    BY <1>1, <1>2, <1>3, <2>3 DEF G!Update
<1>4. CASE ~ Updates(taken)
  BY <1>1, <1>2, <1>4 DEF Update, G!Update
<1> QED
  BY <1>3, <1>4

(***************************************************************************)
(* An O-GEHL predictor that adapts neither its threshold nor its lengths   *)
(* is the predictor of gehl.h, whatever its sizes.                         *)
(***************************************************************************)
THEOREM GehlRefinement == Spec => ImplementsGehl
<1>1. Init => Fixed /\ (Static => G!Init)
  BY SameBits DEF Init, Fixed, G!Init
<1>2. Fixed /\ [Next]_vars => Fixed'
  BY FixedKept
<1>3. ASSUME IInv, Fixed, Fixed', [Next]_vars PROVE [Static => G!Next]_(G!vars)
  <2> SUFFICES ASSUME Static PROVE G!Next \/ UNCHANGED G!vars
    OBVIOUS
  <2>1. useLong = FALSE
    BY <1>3 DEF Fixed
  <2>2. CASE UNCHANGED vars
    BY <2>2 DEF vars, history, G!vars
  <2>3. CASE Next
    <3>1. useLong' = FALSE
      BY <1>3, <2>3 DEF Fixed, Static, Next
    <3>2. ASSUME NEW pc \in PCs, Predict(pc) PROVE G!Next
      BY <1>3, <2>1, <3>2, PredictIsGehl DEF G!Next
    <3>3. ASSUME NEW pc \in PCs, PredictUnconditional(pc) PROVE G!Next
      BY <3>3, SameBits DEF PredictUnconditional, G!PredictUnconditional, history, G!Next
    <3>4. ASSUME NEW taken \in BOOLEAN, Update(taken) PROVE G!Next
      BY <1>3, <3>1, <3>4, UpdateIsGehl DEF G!Next
    <3>5. CASE UpdateUnconditional
      BY <3>1, <3>5, SameHistory, SameBits DEF UpdateUnconditional, G!UpdateUnconditional, G!Next
    <3> QED
      BY <2>3, <3>2, <3>3, <3>4, <3>5 DEF Next
  <2> QED
    BY <1>3, <2>2, <2>3
<1> QED
  BY <1>1, <1>2, <1>3, Invariance, PTL DEF Spec, ImplementsGehl

-----------------------------------------------------------------------------
(***************************************************************************)
(* makeTables(): the lengths that the tables get.                          *)
(***************************************************************************)

\* Division of a number by a positive one.
LEMMA Quotient ==
    ASSUME NEW m \in Nat, NEW n \in Nat \ {0}
    PROVE  /\ m % n \in 0 .. n - 1 /\ m \div n \in Nat
           /\ m = n * (m \div n) + (m % n)
<1> DEFINE q == m \div n
           r == m % n
<1>1. r \in 0 .. n - 1
  OBVIOUS
<1>2. q \in Int /\ m = n * q + r
  OBVIOUS
<1> HIDE DEF q, r
<1>3. ~ (q <= -1)
  BY <1>1, <1>2
<1> QED BY <1>1, <1>2, <1>3 DEF q, r

\* Multiples of jump, and how many of them there are.
Multiple(j, jump) == j % jump = 0

LEMMA MultipleIs ==
    ASSUME NEW j \in Nat, NEW jump \in Nat \ {0}
    PROVE  Multiple(j, jump) <=> j = jump * (j \div jump)
<1>1. j % jump \in 0 .. jump - 1 /\ j \div jump \in Nat /\ j = jump * (j \div jump) + (j % jump)
  BY Quotient
<1> QED BY <1>1 DEF Multiple

LEMMA MultipleOf ==
    ASSUME NEW q \in Nat, NEW jump \in Nat \ {0}
    PROVE  jump * q \in Nat /\ Multiple(jump * q, jump) /\ (jump * q) \div jump = q
<1> DEFINE j == jump * q
           d == j \div jump
           r == j % jump
<1>1. j \in Nat
  OBVIOUS
<1> HIDE DEF j
<1>2. r \in 0 .. jump - 1 /\ d \in Nat /\ j = jump * d + r
  BY <1>1, Quotient
<1> HIDE DEF d, r
<1>3. jump * (q - d) = r
  BY <1>2 DEF j
<1>4. q - d \in Int /\ ~ (q - d >= 1) /\ ~ (q - d <= -1)
  BY <1>2, <1>3
<1>5. d = q /\ r = 0
  BY <1>2, <1>3, <1>4
<1> QED BY <1>1, <1>5 DEF j, d, r, Multiple

LEMMA MultiplesCount ==
    ASSUME NEW N \in Nat, NEW jump \in Nat \ {0}
    PROVE  Cardinality({j \in 1 .. N : Multiple(j, jump)}) = N \div jump
<1> DEFINE S == {j \in 1 .. N : Multiple(j, jump)}
           q == N \div jump
           f == [k \in 1 .. q |-> jump * k]
<1>1. q \in Nat /\ jump * q <= N /\ N < jump * (q + 1)
  <2> DEFINE r == N % jump
  <2>1. q \in Nat /\ r \in 0 .. jump - 1 /\ N = jump * q + r
    BY Quotient
  <2> HIDE DEF q, r
  <2> QED BY <2>1
<1> HIDE DEF q
<1>2. ASSUME NEW k \in 1 .. q PROVE jump * k \in S
  <2>1. jump * k >= 1 /\ jump * k <= jump * q
    <3>1. jump * (q - k) >= 0 /\ jump * (k - 1) >= 0
      BY <1>1
    <3> QED BY <1>1, <3>1
  <2>2. k \in Nat
    BY <1>1
  <2>3. jump * k \in Nat /\ Multiple(jump * k, jump)
    BY <2>2, MultipleOf
  <2> DEFINE j == jump * k
  <2>4. j \in 1 .. N /\ Multiple(j, jump)
    BY <1>1, <2>1, <2>3
  <2> HIDE DEF j
  <2>5. j \in S
    BY <2>4
  <2> QED BY <2>5 DEF j
<1>3. ASSUME NEW k \in 1 .. q, NEW m \in 1 .. q, jump * k = jump * m PROVE k = m
  <2>1. k \in Nat /\ m \in Nat
    BY <1>1
  <2>2. (jump * k) \div jump = k /\ (jump * m) \div jump = m
    BY <2>1, MultipleOf
  <2> QED BY <1>3, <2>2
<1>4. ASSUME NEW j \in S PROVE \E k \in 1 .. q : jump * k = j
  <2> DEFINE k == j \div jump
  <2>1. j \in 1 .. N /\ j \in Nat
    OBVIOUS
  <2>2. k \in Nat /\ j = jump * k
    BY <2>1, Quotient, MultipleIs
  <2> HIDE DEF k
  <2>3. ~ (k <= 0) /\ ~ (k >= q + 1)
    <3>1. k = 0 => jump * k = 0
      BY <2>2
    <3>2. k >= q + 1 => jump * (k - (q + 1)) >= 0
      BY <1>1, <2>2
    <3>3. jump * (k - (q + 1)) = jump * k - jump * (q + 1)
      BY <1>1, <2>2
    <3> QED BY <1>1, <2>1, <2>2, <3>1, <3>2, <3>3
  <2>4. k \in 1 .. q
    BY <1>1, <2>2, <2>3
  <2> QED BY <2>2, <2>4
<1> HIDE DEF S
<1>5. f \in Bijection(1 .. q, S)
  <2>1. f \in [1 .. q -> S]
    BY <1>2
  <2>2. \A k, m \in 1 .. q : f[k] = f[m] => k = m
    BY <1>3
  <2>3. \A j \in S : \E k \in 1 .. q : f[k] = j
    BY <1>4
  <2> HIDE DEF f
  <2> QED BY <2>1, <2>2, <2>3 DEF Bijection, Injection, Surjection, IsInjective
<1>6. IsFiniteSet(1 .. q) /\ Cardinality(1 .. q) = q
  BY <1>1, FS_Interval
<1>7. Cardinality(S) = Cardinality(1 .. q)
  BY <1>5, <1>6, FS_Bijection DEF ExistsBijection
<1> QED BY <1>6, <1>7 DEF S, q

\* What the assertions of the constructors accept.
Accepted(num, addtl) == num \in Nat /\ addtl \in Nat /\ num > 1 /\ addtl <= num - 2

\* The tables up to the i-th that take an additional length.
Taken(i, num, addtl) == {j \in 1 .. i : TakesAdditional(j, num, addtl)}
Rank(i, num, addtl) == Cardinality(Taken(i, num, addtl))

LEMMA TakenFinite ==
    ASSUME NEW i \in Int, NEW num, NEW addtl
    PROVE  /\ IsFiniteSet(Taken(i, num, addtl)) /\ Rank(i, num, addtl) \in Nat
           /\ \A j \in Int : j <= i => /\ Taken(j, num, addtl) \subseteq Taken(i, num, addtl)
                                       /\ Rank(j, num, addtl) <= Rank(i, num, addtl)
<1>1. IsFiniteSet(1 .. i)
  BY FS_Interval
<1>2. Taken(i, num, addtl) \in SUBSET (1 .. i)
  BY DEF Taken
<1>3. IsFiniteSet(Taken(i, num, addtl))
  BY <1>1, <1>2, FS_Subset
<1>4. \A j \in Int : j <= i => Taken(j, num, addtl) \in SUBSET Taken(i, num, addtl)
  BY DEF Taken
<1>5. \A j \in Int : j <= i => Rank(j, num, addtl) <= Rank(i, num, addtl)
  BY <1>3, <1>4, FS_Subset DEF Rank
<1> QED BY <1>3, <1>4, <1>5, FS_CardinalityType DEF Rank

\* A table that takes a length has a greater rank than all before it.
LEMMA RankIncreases ==
    ASSUME NEW i \in Int, NEW j \in Int, NEW num, NEW addtl,
           j < i, i >= 1, TakesAdditional(i, num, addtl)
    PROVE  Rank(j, num, addtl) < Rank(i, num, addtl)
<1> DEFINE S == Taken(j, num, addtl)
           T == Taken(i, num, addtl)
<1>1. i \in T /\ i \notin S
  BY DEF Taken
<1>2. IsFiniteSet(T) /\ S \in SUBSET T /\ Cardinality(S) \in Nat /\ Cardinality(T) \in Nat
  BY TakenFinite DEF Rank
<1> HIDE DEF S, T
<1>3. Cardinality(S) <= Cardinality(T) /\ Cardinality(S) # Cardinality(T)
  BY <1>1, <1>2, FS_Subset
<1> QED BY <1>2, <1>3 DEF Rank, S, T

\* With more than one additional length, those that take one are multiples.
LEMMA Multiples ==
    ASSUME NEW num, NEW addtl, Accepted(num, addtl), addtl > 1
    PROVE  /\ JumpSize(num, addtl) \in Nat \ {0}
           /\ \A i : TakesAdditional(i, num, addtl)
                       <=> i # num - 1 /\ Multiple(i, JumpSize(num, addtl))
           /\ \A i \in 0 .. num - 2 : Rank(i, num, addtl) = i \div JumpSize(num, addtl)
<1> DEFINE jump == JumpSize(num, addtl)
<1>1. num \in Nat /\ addtl \in Nat \ {0} /\ num - 2 \in Nat /\ addtl <= num - 2
  BY DEF Accepted
<1>2. jump = (num - 2) \div addtl
  BY <1>1 DEF JumpSize
<1>3. jump \in Nat \ {0}
  <2> DEFINE m == num - 2
             r == m % addtl
  <2>1. m \in Nat /\ addtl <= m
    BY <1>1
  <2> HIDE DEF m
  <2>2. jump \in Nat /\ r \in 0 .. addtl - 1 /\ m = addtl * jump + r
    BY <1>1, <1>2, <2>1, Quotient DEF m
  <2> HIDE DEF r, jump
  <2>3. jump # 0
    BY <1>1, <2>1, <2>2
  <2> QED BY <2>2, <2>3
<1>4. \A i : TakesAdditional(i, num, addtl) <=> i # num - 1 /\ Multiple(i, jump)
  BY <1>1 DEF TakesAdditional, Multiple
<1> HIDE DEF jump
<1>5. ASSUME NEW i \in 0 .. num - 2 PROVE Rank(i, num, addtl) = i \div jump
  <2>1. Taken(i, num, addtl) = {j \in 1 .. i : Multiple(j, jump)}
    BY <1>1, <1>4 DEF Taken
  <2> QED BY <1>3, <2>1, MultiplesCount DEF Rank
<1> QED BY <1>3, <1>4, <1>5 DEF jump

LEMMA One ==
    ASSUME NEW num, Accepted(num, 1)
    PROVE  /\ num \div 2 \in 1 .. num - 2
           /\ \A i : TakesAdditional(i, num, 1) <=> i = num \div 2
           /\ Rank(num \div 2, num, 1) = 1
<1> DEFINE h == num \div 2
<1>1. num \in Nat /\ num >= 3
  BY DEF Accepted
<1>2. h \in 1 .. num - 2
  BY <1>1
<1>3. \A i : TakesAdditional(i, num, 1) <=> i = h
  BY DEF TakesAdditional
<1> HIDE DEF h
<1>4. Taken(h, num, 1) = {h}
  BY <1>1, <1>2, <1>3 DEF Taken
<1>5. Rank(h, num, 1) = 1
  BY <1>4, FS_Singleton DEF Rank
<1> QED BY <1>2, <1>3, <1>5 DEF h

(***************************************************************************)
(* The additional lengths are spread over the inner tables: a table that   *)
(* takes one is not the last, and when they come out even the ranks of the *)
(* tables that do are exactly 1 to addtl (ogehl.hpp 364-383).              *)
(***************************************************************************)
LEMMA Spread ==
    ASSUME NEW num, NEW addtl, Accepted(num, addtl), Divides(num, addtl)
    PROVE  /\ \A i \in 1 .. num - 1 : TakesAdditional(i, num, addtl)
                => i <= num - 2 /\ Rank(i, num, addtl) \in 1 .. addtl
           /\ \A q \in 1 .. addtl : \E i \in 1 .. num - 2 :
                TakesAdditional(i, num, addtl) /\ Rank(i, num, addtl) = q
<1>1. num \in Nat /\ addtl \in Nat /\ num > 1
  BY DEF Accepted
<1>2. CASE addtl = 0
  BY <1>1, <1>2 DEF TakesAdditional
<1>3. CASE addtl = 1
  BY <1>1, <1>3, One
<1>4. CASE addtl > 1
  <2> DEFINE jump == JumpSize(num, addtl)
             m == num - 2
  <2>1. /\ jump \in Nat \ {0} /\ m \in Nat
        /\ \A i : TakesAdditional(i, num, addtl) <=> i # num - 1 /\ Multiple(i, jump)
        /\ \A i \in 0 .. m : Rank(i, num, addtl) = i \div jump
    BY <1>4, Multiples DEF Accepted
  <2>2. m \div jump = addtl
    BY <1>1, <1>4 DEF Divides
  <2> HIDE DEF jump
  <2>3. m < jump * (addtl + 1) /\ jump * addtl <= m
    <3> DEFINE r == m % jump
    <3> HIDE DEF m
    <3>1. r \in 0 .. jump - 1 /\ m = jump * addtl + r
      BY <2>1, <2>2, Quotient
    <3> HIDE DEF r
    <3> QED BY <1>1, <2>1, <3>1
  <2>4. ASSUME NEW i \in 1 .. num - 1, TakesAdditional(i, num, addtl)
        PROVE  i <= num - 2 /\ Rank(i, num, addtl) \in 1 .. addtl
    <3> DEFINE q == i \div jump
    <3>1. i \in 1 .. m /\ i \in Nat /\ Multiple(i, jump) /\ Rank(i, num, addtl) = q
      BY <1>1, <2>1, <2>4
    <3>2. q \in Nat /\ i = jump * q
      BY <2>1, <3>1, Quotient, MultipleIs
    <3> HIDE DEF q
    <3>3. ~ (q <= 0)
      <4>1. q = 0 => jump * q = 0
        BY <2>1
      <4> QED BY <3>1, <3>2, <4>1
    <3>4. ~ (q >= addtl + 1)
      <4>1. jump * (q - (addtl + 1)) = jump * q - jump * (addtl + 1)
        BY <1>1, <2>1, <3>2
      <4>2. q >= addtl + 1 => jump * (q - (addtl + 1)) >= 0
        BY <1>1, <2>1, <3>2
      <4> QED BY <1>1, <2>1, <2>3, <3>1, <3>2, <4>1, <4>2
    <3> QED BY <1>1, <3>1, <3>2, <3>3, <3>4
  <2>5. ASSUME NEW q \in 1 .. addtl
        PROVE  \E i \in 1 .. num - 2 :
                 TakesAdditional(i, num, addtl) /\ Rank(i, num, addtl) = q
    <3> DEFINE i == jump * q
    <3>1. q \in Nat /\ q >= 1
      OBVIOUS
    <3>2. i \in Nat /\ Multiple(i, jump) /\ i \div jump = q
      BY <2>1, <3>1, MultipleOf
    <3>3. i \in 1 .. m
      <4>1. jump * (addtl - q) >= 0 /\ jump * (q - 1) >= 0
        BY <1>1, <2>1
      <4>2. jump * (addtl - q) = jump * addtl - i /\ jump * (q - 1) = i - jump
        BY <1>1, <2>1
      <4> QED BY <1>1, <2>1, <2>3, <3>2, <4>1, <4>2
    <3> HIDE DEF i
    <3>4. TakesAdditional(i, num, addtl) /\ Rank(i, num, addtl) = q
      BY <1>1, <2>1, <3>2, <3>3
    <3> QED BY <3>3, <3>4
  <2> QED BY <2>4, <2>5
<1> QED BY <1>1, <1>2, <1>3, <1>4

-----------------------------------------------------------------------------
\* The tables built so far have the lengths of the closed form, and the
\* counter has counted those that took an additional one.
MakeInv ==
    /\ config \in Configurations
    /\ built \in Seq([short : Int, long : Int]) /\ Len(built) \in 1 .. config.tables
    /\ longCounter = Rank(Len(built) - 1, config.tables, config.addtl)
    /\ ClosedForm

LEMMA AcceptedConfig ==
    ASSUME config \in Configurations PROVE Accepted(config.tables, config.addtl)
BY ConfigurationsAssumption DEF Accepted

LEMMA LongIs ==
    ASSUME NEW i, NEW num, NEW addtl
    PROVE  LongIndex(i, num, addtl) =
             IF i > 0 /\ TakesAdditional(i, num, addtl)
             THEN Rank(i, num, addtl) + num - 1 ELSE i
BY DEF LongIndex, Rank, Taken

\* The next table counts if it takes a length.
LEMMA RankNext ==
    ASSUME NEW i \in Nat \ {0}, NEW num, NEW addtl
    PROVE  Rank(i, num, addtl) = IF TakesAdditional(i, num, addtl)
                                 THEN Rank(i - 1, num, addtl) + 1
                                 ELSE Rank(i - 1, num, addtl)
<1> DEFINE S == Taken(i - 1, num, addtl)
<1>1. IsFiniteSet(S) /\ i \notin S
  <2>1. i - 1 \in Int /\ i \notin 1 .. i - 1
    OBVIOUS
  <2>2. IsFiniteSet(Taken(i - 1, num, addtl))
    BY <2>1, TakenFinite
  <2>3. i \notin Taken(i - 1, num, addtl)
    BY <2>1 DEF Taken
  <2> QED BY <2>2, <2>3
<1>2. Taken(i, num, addtl) = IF TakesAdditional(i, num, addtl) THEN S \cup {i} ELSE S
  BY DEF Taken
<1> HIDE DEF S
<1>3. Cardinality(S \cup {i}) = Cardinality(S) + 1
  BY <1>1, FS_AddElement
<1> QED BY <1>2, <1>3 DEF Rank, S

LEMMA InitiallyMade == MakeInit => MakeInv
<1> SUFFICES ASSUME MakeInit PROVE MakeInv
  OBVIOUS
<1>1. config \in Configurations /\ Accepted(config.tables, config.addtl)
  BY AcceptedConfig DEF MakeInit
<1>2. built = <<[short |-> 0, long |-> 0]>> /\ longCounter = 0
  BY DEF MakeInit
<1>3. /\ built \in Seq([short : Int, long : Int]) /\ Len(built) = 1
      /\ built[1] = [short |-> 0, long |-> 0]
  BY <1>2
<1>4. Rank(0, config.tables, config.addtl) = 0
  <2>1. Taken(0, config.tables, config.addtl) = {}
    BY DEF Taken
  <2> QED BY <2>1, FS_EmptySet DEF Rank
<1>5. LongIndex(0, config.tables, config.addtl) = 0
  BY LongIs
<1> QED BY <1>1, <1>2, <1>3, <1>4, <1>5 DEF MakeInv, ClosedForm, Accepted

LEMMA StepMade == MakeInv /\ [MakeNext]_makeVars => MakeInv'
<1> SUFFICES ASSUME MakeInv, [MakeNext]_makeVars PROVE MakeInv'
  OBVIOUS
<1>1. CASE Build
  <2> DEFINE i == Len(built)
             num == config.tables
             addtl == config.addtl
             takes == TakesAdditional(i, num, addtl)
             row == [short |-> i, long |-> LongIndex(i, num, addtl)]
  <2>1. i \in Nat \ {0} /\ i < num /\ num \in Nat /\ config' = config
    BY <1>1, AcceptedConfig DEF Build, MakeInv, Accepted
  <2>2. longCounter = Rank(i - 1, num, addtl) /\ longCounter \in Nat
    BY <2>1, TakenFinite DEF MakeInv
  <2>3. longCounter' = IF takes THEN longCounter + 1 ELSE longCounter
    BY <1>1 DEF Build
  <2>4. longCounter' = Rank(i, num, addtl) /\ longCounter' \in Nat
    BY <2>1, <2>2, <2>3, RankNext
  <2>5. LongIndex(i, num, addtl) = IF takes THEN longCounter' + num - 1 ELSE i
    BY <2>1, <2>4, LongIs
  <2>6. built' = Append(built, row)
    BY <1>1, <2>5 DEF Build
  <2>7. row \in [short : Int, long : Int]
    BY <2>1, <2>4, <2>5
  <2> HIDE DEF row
  <2>8. /\ built' \in Seq([short : Int, long : Int]) /\ Len(built') = i + 1
        /\ \A k \in 1 .. i : built'[k] = built[k]
        /\ built'[i + 1] = row
    BY <2>6, <2>7 DEF MakeInv
  <2>9. ClosedForm'
    <3>1. ASSUME NEW k \in 1 .. i + 1
          PROVE  built'[k] = [short |-> k - 1, long |-> LongIndex(k - 1, num, addtl)]
      <4>1. CASE k \in 1 .. i
        BY <2>8, <4>1 DEF MakeInv, ClosedForm
      <4>2. CASE k = i + 1
        <5>1. k - 1 = i
          BY <2>1, <4>2
        <5> QED BY <2>8, <4>2, <5>1 DEF row
      <4> QED BY <2>1, <4>1, <4>2
    <3> QED BY <2>1, <2>8, <3>1 DEF ClosedForm
  <2> QED BY <2>1, <2>4, <2>8, <2>9 DEF MakeInv
<1>2. CASE UNCHANGED makeVars
  BY <1>2 DEF MakeInv, ClosedForm, makeVars
<1> QED BY <1>1, <1>2 DEF MakeNext

(***************************************************************************)
(* For every number of tables and of additional lengths that the           *)
(* assertions accept, makeTables() gives its tables the lengths of the     *)
(* closed form that the predictor's module uses (ogehl.hpp 350-391).       *)
(***************************************************************************)
THEOREM MakesClosedForm == MakeSpec => []ClosedForm
<1>1. MakeInv => ClosedForm
  BY DEF MakeInv
<1> QED BY InitiallyMade, StepMade, <1>1, PTL DEF MakeSpec

\* The additional lengths come out even in every configuration.
ComeOutEven == \A c \in Configurations : Divides(c.tables, c.addtl)

\* What a table built has, in terms of ranks.
LEMMA BuiltIs ==
    ASSUME MakeInv
    PROVE  /\ config.tables \in Nat /\ config.addtl \in Nat /\ config.tables > 1
           /\ \A k \in 1 .. Len(built) : built[k].long =
                IF k > 1 /\ TakesAdditional(k - 1, config.tables, config.addtl)
                THEN Rank(k - 1, config.tables, config.addtl) + config.tables - 1 ELSE k - 1
<1>1. Accepted(config.tables, config.addtl)
  BY AcceptedConfig DEF MakeInv
<1>2. ASSUME NEW k \in 1 .. Len(built)
      PROVE  built[k].long =
                IF k > 1 /\ TakesAdditional(k - 1, config.tables, config.addtl)
                THEN Rank(k - 1, config.tables, config.addtl) + config.tables - 1 ELSE k - 1
  <2>1. built[k].long = LongIndex(k - 1, config.tables, config.addtl)
    <3>1. built[k] = [short |-> k - 1,
                      long |-> LongIndex(k - 1, config.tables, config.addtl)]
      BY DEF MakeInv, ClosedForm
    <3> QED BY <3>1
  <2>2. k \in Int /\ (k - 1 > 0 <=> k > 1)
    BY DEF MakeInv
  <2> QED BY <2>1, <2>2, LongIs
<1> QED BY <1>1, <1>2 DEF Accepted

(***************************************************************************)
(* When the additional lengths come out even, every index that is looked   *)
(* up is that of a length: the assertion of Lengths::at() (ogehl.hpp 337)  *)
(* never fails, for every number of tables.                                *)
(***************************************************************************)
THEOREM IndexStaysInRange == ComeOutEven /\ MakeSpec => []IndexInRange
<1> SUFFICES ASSUME ComeOutEven PROVE MakeSpec => []IndexInRange
  OBVIOUS
<1>1. MakeInv => IndexInRange
  <2> SUFFICES ASSUME MakeInv, NEW k \in 1 .. Len(built)
               PROVE  built[k].long < config.tables + config.addtl
    BY DEF IndexInRange
  <2> DEFINE num == config.tables
             addtl == config.addtl
             i == k - 1
  <2>1. Accepted(num, addtl) /\ Divides(num, addtl)
    BY AcceptedConfig DEF MakeInv, ComeOutEven
  <2>2. i \in 0 .. num - 1 /\ num \in Nat /\ addtl \in Nat
    BY BuiltIs DEF MakeInv
  <2>3. built[k].long = IF i > 0 /\ TakesAdditional(i, num, addtl)
                        THEN Rank(i, num, addtl) + num - 1 ELSE i
    <3>1. k > 1 <=> i > 0
      BY DEF MakeInv
    <3> QED BY <3>1, BuiltIs
  <2> HIDE DEF num, addtl, i
  <2>4. i > 0 /\ TakesAdditional(i, num, addtl) => Rank(i, num, addtl) \in 1 .. addtl
    BY <2>1, <2>2, Spread
  <2> QED BY <2>2, <2>3, <2>4 DEF num, addtl
<1> QED BY InitiallyMade, StepMade, <1>1, PTL DEF MakeSpec

(***************************************************************************)
(* When they come out even, each additional length is the long one of      *)
(* exactly one table, never of the first or the last, and longer lengths   *)
(* go to later tables (ogehl.tex 40; ogehl.hpp 364-383), for every number  *)
(* of tables and of additional lengths.                                    *)
(***************************************************************************)
THEOREM EachUsedOnce == ComeOutEven /\ MakeSpec => []EachAdditionalUsedOnce
<1> SUFFICES ASSUME ComeOutEven PROVE MakeSpec => []EachAdditionalUsedOnce
  OBVIOUS
<1>1. MakeInv => EachAdditionalUsedOnce
  <2> SUFFICES ASSUME MakeInv, Finished PROVE EachAdditionalUsedOnce
    BY DEF EachAdditionalUsedOnce
  <2> DEFINE num == config.tables
             addtl == config.addtl
             Adds(k) == k > 1 /\ TakesAdditional(k - 1, num, addtl)
             R(k) == Rank(k - 1, num, addtl)
  <2>1. Accepted(num, addtl) /\ Divides(num, addtl)
    BY AcceptedConfig DEF MakeInv, ComeOutEven
  <2>2. num \in Nat /\ addtl \in Nat /\ num > 1 /\ Len(built) = num
    BY BuiltIs DEF Finished
  <2>3. \A k \in 1 .. num : built[k].long = IF Adds(k) THEN R(k) + num - 1 ELSE k - 1
    BY <2>2, BuiltIs
  <2>4. \A k \in 1 .. num : Adds(k) => k < num /\ R(k) \in 1 .. addtl
    <3> SUFFICES ASSUME NEW k \in 1 .. num, Adds(k) PROVE k < num /\ R(k) \in 1 .. addtl
      OBVIOUS
    <3>1. k - 1 \in 1 .. num - 1 /\ TakesAdditional(k - 1, num, addtl)
      BY <2>2
    <3>2. k - 1 <= num - 2 /\ R(k) \in 1 .. addtl
      BY <2>1, <3>1, Spread
    <3> QED BY <2>2, <3>2
  <2>5. \A j, k \in 1 .. num : j < k /\ Adds(k) => R(j) < R(k)
    <3> SUFFICES ASSUME NEW j \in 1 .. num, NEW k \in 1 .. num, j < k, Adds(k)
                 PROVE  R(j) < R(k)
      OBVIOUS
    <3>1. j - 1 \in Int /\ k - 1 \in Int /\ j - 1 < k - 1 /\ k - 1 >= 1
      BY <2>2
    <3> QED BY <3>1, RankIncreases
  <2>6. \A q \in 1 .. addtl : \E k \in 1 .. num : Adds(k) /\ R(k) = q
    <3> SUFFICES ASSUME NEW q \in 1 .. addtl PROVE \E k \in 1 .. num : Adds(k) /\ R(k) = q
      OBVIOUS
    <3>1. PICK i \in 1 .. num - 2 : TakesAdditional(i, num, addtl) /\ Rank(i, num, addtl) = q
      BY <2>1, Spread
    <3> DEFINE k == i + 1
    <3>2. k \in 1 .. num /\ k > 1 /\ k - 1 = i
      BY <2>2
    <3> HIDE DEF k
    <3>3. Adds(k) /\ R(k) = q
      BY <3>1, <3>2
    <3> QED BY <3>2, <3>3
  <2> HIDE DEF num, addtl, Adds, R
  <2>7. \A k \in 1 .. num : built[k].long >= num <=> Adds(k)
    BY <2>2, <2>3, <2>4
  <2>8. ASSUME NEW a \in num .. num + addtl - 1
        PROVE  Cardinality({k \in 1 .. num : built[k].long = a}) = 1
    <3>1. PICK k \in 1 .. num : Adds(k) /\ R(k) = a - num + 1
      <4>1. a - num + 1 \in 1 .. addtl
        BY <2>2
      <4> QED BY <2>6, <4>1
    <3>2. built[k].long = a
      BY <2>2, <2>3, <3>1
    <3>3. ASSUME NEW m \in 1 .. num, built[m].long = a PROVE m = k
      <4>1. Adds(m) /\ R(m) = R(k)
        BY <2>2, <2>3, <2>4, <2>7, <3>1, <3>3
      <4>2. R(k) \in Int /\ ~ m < k /\ ~ k < m
        BY <2>4, <2>5, <3>1, <4>1
      <4> QED BY <2>2, <4>2
    <3>4. {m \in 1 .. num : built[m].long = a} = {k}
      BY <3>2, <3>3
    <3> QED BY <3>4, FS_Singleton
  <2>9. built[num].long = num - 1
    BY <2>2, <2>3, <2>4
  <2>10. ASSUME NEW j \in 1 .. num, NEW k \in 1 .. num, j < k,
                built[j].long >= num, built[k].long >= num
         PROVE  built[j].long < built[k].long
    <3>1. Adds(j) /\ Adds(k)
      BY <2>7, <2>10
    <3>2. R(j) < R(k) /\ R(j) \in Int /\ R(k) \in Int
      BY <2>4, <2>5, <2>10, <3>1
    <3> QED BY <2>2, <2>3, <3>1, <3>2
  <2> QED BY <2>2, <2>8, <2>9, <2>10 DEF EachAdditionalUsedOnce, num, addtl
<1> QED BY InitiallyMade, StepMade, <1>1, PTL DEF MakeSpec
=============================================================================

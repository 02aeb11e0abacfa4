---------------------------- MODULE FoldingProofs ----------------------------
(***************************************************************************)
(* Facts about the folded histories of Folding, for every number of index  *)
(* bits and every length: the fold that compress() keeps by looking at the *)
(* youngest and the oldest direction only is the fold of the history.      *)
(* From them, the theorems about FoldedHistory, and those about the        *)
(* histories of the GEHL predictor in PredictDriverProofs.                 *)
(***************************************************************************)
EXTENDS FoldedHistory, FiniteSetTheorems, TLAPS

(***************************************************************************)
(* Remainders.                                                             *)
(***************************************************************************)

\* What a division leaves.
LEMMA Division ==
    ASSUME NEW m \in Nat, NEW n \in Nat \ {0}
    PROVE  /\ m % n \in 0 .. n - 1 /\ m \div n \in Nat
           /\ m = n * (m \div n) + (m % n)
<1>1. m % n \in 0 .. n - 1
  OBVIOUS
<1>2. m \div n \in Int /\ m = n * (m \div n) + (m % n)
  OBVIOUS
<1> DEFINE q == m \div n
           r == m % n
<1>3. q \in Int /\ r \in 0 .. n - 1 /\ m = n * q + r
  BY <1>1, <1>2
<1> HIDE DEF q, r
<1>4. ~ (q <= -1)
  BY <1>3
<1>5. q \in Nat
  BY <1>3, <1>4
<1> QED BY <1>1, <1>2, <1>5 DEF q

\* A remainder is what is left of any multiple.
LEMMA RemainderIs ==
    ASSUME NEW n \in Nat \ {0}, NEW q \in Nat, NEW r \in 0 .. n - 1
    PROVE  (n * q + r) % n = r
<1> DEFINE x == n * q + r
<1>1. x \in Nat
  OBVIOUS
<1>2. x % n \in 0 .. n - 1 /\ x \div n \in Nat /\ x = n * (x \div n) + (x % n)
  BY <1>1, Division
<1> HIDE DEF x
<1>3. n * (q - (x \div n)) = (x % n) - r
  BY <1>1, <1>2 DEF x
<1>4. q - (x \div n) = 0
  <2> DEFINE d == q - (x \div n)
  <2>1. d \in Int /\ n * d < n /\ n * d > -n
    BY <1>2, <1>3
  <2> HIDE DEF d
  <2>2. ~ (d >= 1) /\ ~ (d <= -1)
    BY <2>1
  <2> QED BY <2>1, <2>2 DEF d
<1> QED BY <1>2, <1>3, <1>4 DEF x

\* Where the direction that is j branches old stands in the fold.
Position(j, shift, n) == (shift * j) % n

\* A branch moves a position on by the shift, around the end.
LEMMA PositionNext ==
    ASSUME NEW n \in Nat \ {0}, NEW shift \in 0 .. n - 1, NEW j \in Nat
    PROVE  /\ Position(j, shift, n) \in 0 .. n - 1
           /\ Position(j + 1, shift, n) = IF Position(j, shift, n) + shift < n
                                          THEN Position(j, shift, n) + shift
                                          ELSE Position(j, shift, n) + shift - n
<1> DEFINE m == shift * j
           k == shift * (j + 1)
           r == m % n
           q == m \div n
<1>1. m \in Nat /\ k = m + shift
  OBVIOUS
<1>2. Position(j, shift, n) = r /\ Position(j + 1, shift, n) = k % n
  BY DEF Position
<1> HIDE DEF m, k
<1>3. r \in 0 .. n - 1 /\ q \in Nat /\ m = n * q + r
  BY <1>1, Division
<1> HIDE DEF r, q
<1>4. CASE r + shift < n
  <2>1. k = n * q + (r + shift) /\ r + shift \in 0 .. n - 1
    BY <1>1, <1>3, <1>4
  <2>2. k % n = r + shift
    BY <1>3, <2>1, RemainderIs
  <2> QED BY <1>2, <1>3, <1>4, <2>2
<1>5. CASE ~ (r + shift < n)
  <2>1. k = n * (q + 1) + (r + shift - n) /\ r + shift - n \in 0 .. n - 1
    BY <1>1, <1>3, <1>5
  <2>2. q + 1 \in Nat
    BY <1>3
  <2>3. k % n = r + shift - n
    BY <2>1, <2>2, RemainderIs
  <2> QED BY <1>2, <1>3, <1>5, <2>3
<1> QED BY <1>4, <1>5

\* Which position moves to b.
From(b, shift, n) == IF b >= shift THEN b - shift ELSE b + n - shift

LEMMA PositionMoves ==
    ASSUME NEW n \in Nat \ {0}, NEW shift \in 0 .. n - 1, NEW b \in 0 .. n - 1,
           NEW j \in Nat
    PROVE  /\ From(b, shift, n) \in 0 .. n - 1
           /\ Position(j + 1, shift, n) = b <=> Position(j, shift, n) = From(b, shift, n)
<1> DEFINE r == Position(j, shift, n)
<1>1. r \in 0 .. n - 1
  BY PositionNext
<1>2. Position(j + 1, shift, n) = IF r + shift < n THEN r + shift ELSE r + shift - n
  BY PositionNext
<1> HIDE DEF r
<1>3. From(b, shift, n) \in 0 .. n - 1
  BY DEF From
<1>4. (IF r + shift < n THEN r + shift ELSE r + shift - n) = b <=> r = From(b, shift, n)
  BY <1>1 DEF From
<1> QED BY <1>2, <1>3, <1>4 DEF r

(***************************************************************************)
(* The shift of a table is prime with its number of index bits.            *)
(***************************************************************************)
LEMMA ShiftIsPrime ==
    ASSUME NEW t \in Nat, NEW n \in Nat \ {0}
    PROVE  /\ ShiftOf(t, n) \in 0 .. n - 1
           /\ \A k \in 1 .. n - 1 : (ShiftOf(t, n) * k) % n # 0
<1> DEFINE s == (IF t % 2 = 1 THEN t ELSE 1) % n
<1>1. s \in 0 .. n - 1
  BY Division
<1>2. ASSUME NEW k \in 1 .. n - 1 PROVE (1 * k) % n = k
  <2>1. n * 0 + k = 1 * k /\ k \in 0 .. n - 1 /\ 0 \in Nat
    OBVIOUS
  <2> QED BY <2>1, RemainderIs
<1> HIDE DEF s
<1>3. ShiftOf(t, n) = IF \E k \in 1 .. n - 1 : (s * k) % n = 0 THEN 1 ELSE s
  BY DEF ShiftOf, s
<1>4. CASE \E k \in 1 .. n - 1 : (s * k) % n = 0
  <2>1. ShiftOf(t, n) = 1 /\ n > 1
    BY <1>3, <1>4
  <2>2. \A k \in 1 .. n - 1 : (1 * k) % n # 0
    BY <1>2
  <2> QED BY <2>1, <2>2
<1>5. CASE ~ \E k \in 1 .. n - 1 : (s * k) % n = 0
  BY <1>1, <1>3, <1>5
<1> QED BY <1>4, <1>5

\* Where the oldest direction is cancelled.
LEMMA DestInRange ==
    ASSUME NEW t \in Nat, NEW n \in Nat \ {0}, NEW len \in Nat
    PROVE  /\ LastDest(t, n, len) \in 0 .. n - 1
           /\ LastDest(t, n, len) = Position(len, ShiftOf(t, n), n)
<1>1. ShiftOf(t, n) \in Nat
  BY ShiftIsPrime
<1>2. ShiftOf(t, n) * len \in Nat
  BY <1>1
<1> QED BY <1>2, Division DEF LastDest, Position

(***************************************************************************)
(* Adding modulo 2: the parity of the directions that meet at a position.  *)
(***************************************************************************)
OddSize(S) == Cardinality(S) % 2 = 1

LEMMA OddEmpty == ~ OddSize({})
  BY FS_EmptySet DEF OddSize

LEMMA OddNext == \A c \in Nat : (c + 1) % 2 = 1 <=> ~ (c % 2 = 1)
  OBVIOUS

\* Adding or taking away one element turns the parity.
LEMMA OddToggle ==
    ASSUME NEW S, IsFiniteSet(S), NEW x
    PROVE  /\ x \notin S => (OddSize(S \cup {x}) <=> ~ OddSize(S))
           /\ x \in S => (OddSize(S \ {x}) <=> ~ OddSize(S))
           /\ OddSize(SymDiff(S, {x})) <=> ~ OddSize(S)
<1>1. Cardinality(S) \in Nat
  BY FS_CardinalityType
<1>2. CASE x \notin S
  <2>1. Cardinality(S \cup {x}) = Cardinality(S) + 1
    BY <1>2, FS_AddElement
  <2>2. SymDiff(S, {x}) = S \cup {x}
    BY <1>2 DEF SymDiff
  <2> QED BY <1>1, <1>2, <2>1, <2>2, OddNext DEF OddSize
<1>3. CASE x \in S
  <2>1. Cardinality(S \ {x}) = Cardinality(S) - 1 /\ IsFiniteSet(S \ {x})
    BY <1>3, FS_RemoveElement
  <2>2. Cardinality(S \ {x}) \in Nat /\ Cardinality(S) = Cardinality(S \ {x}) + 1
    BY <1>1, <2>1, FS_CardinalityType
  <2>3. SymDiff(S, {x}) = S \ {x}
    BY <1>3 DEF SymDiff
  <2> QED BY <1>3, <2>2, <2>3, OddNext DEF OddSize
<1> QED BY <1>2, <1>3

\* Every direction one branch older: as many as before.
Older(S) == {j + 1 : j \in S}

LEMMA OddShifted ==
    ASSUME NEW S \in SUBSET Nat, IsFiniteSet(S)
    PROVE  /\ IsFiniteSet(Older(S))
           /\ OddSize(Older(S)) <=> OddSize(S)
<1> DEFINE T == Older(S)
           f == [j \in S |-> j + 1]
<1>1. f \in [S -> T]
  BY DEF Older
<1>2. \A i, j \in S : f[i] = f[j] => i = j
  OBVIOUS
<1>3. \A t \in T : \E j \in S : f[j] = t
  BY DEF Older
<1> HIDE DEF f, T
<1>4. f \in Bijection(S, T)
  BY <1>1, <1>2, <1>3 DEF Bijection, Injection, Surjection, IsInjective
<1>5. IsFiniteSet(T) /\ Cardinality(T) = Cardinality(S)
  BY <1>4, FS_Bijection DEF ExistsBijection
<1> QED BY <1>5 DEF OddSize, T

(***************************************************************************)
(* The fold of a history.                                                  *)
(***************************************************************************)

\* The directions among the last len that meet at position b.
Meet(h, len, shift, n, b) == {j \in h : j < len /\ Position(j, shift, n) = b}

LEMMA FoldIs ==
    ASSUME NEW h, NEW len, NEW shift, NEW n
    PROVE  FoldOf(h, len, shift, n) = {b \in Bits(n) : OddSize(Meet(h, len, shift, n, b))}
  BY DEF FoldOf, OddSize, Meet, Position

LEMMA MeetFinite ==
    ASSUME NEW h \in SUBSET Nat, NEW len \in Nat, NEW shift, NEW n, NEW b
    PROVE  /\ IsFiniteSet(Meet(h, len, shift, n, b))
           /\ Meet(h, len, shift, n, b) \in SUBSET Nat
<1> DEFINE M == Meet(h, len, shift, n, b)
<1>1. M \subseteq h /\ \A j \in M : j < len
  BY Zenon DEF Meet
<1> HIDE DEF M
<1>2. M \in SUBSET Nat /\ \A j \in M : j <= len
  BY <1>1
<1>3. IsFiniteSet(M)
  BY <1>2, FS_BoundedSetOfNaturals
<1> QED BY <1>2, <1>3 DEF M

\* A history that has just been written to.
LEMMA PushIs ==
    ASSUME NEW h \in SUBSET Bits(HistSize), NEW bit \in BOOLEAN
    PROVE  /\ Push(h, bit) \in SUBSET Bits(HistSize)
           /\ 0 \in Push(h, bit) <=> bit
           /\ \A j \in Nat : j + 1 < HistSize => (j + 1 \in Push(h, bit) <=> j \in h)
<1>1. HistSize \in Nat \ {0}
  BY HistSizeAssumption
<1>2. \A k : k \in Push(h, bit) <=>
             k \in 0 .. HistSize - 1 /\ ((\E j \in h : k = j + 1) \/ (bit /\ k = 0))
  BY DEF Push, ShiftLeft, BitIf, Bits
<1>3. h \subseteq 0 .. HistSize - 1
  BY DEF Bits
<1> QED BY <1>1, <1>2, <1>3 DEF Bits

\* Who meets at b after the write: those who met at the position that moves
\* to b, the oldest of the last len left out, and the new direction at 0.
LEMMA MeetAfter ==
    ASSUME NEW h \in SUBSET Bits(HistSize), NEW bit \in BOOLEAN,
           NEW n \in Nat \ {0}, NEW shift \in 0 .. n - 1,
           NEW len \in Nat \ {0}, len < HistSize, NEW b \in 0 .. n - 1
    PROVE  Meet(Push(h, bit), len, shift, n, b)
             = Older(Meet(h, len, shift, n, From(b, shift, n)) \ {len - 1})
                 \cup BitIf(bit /\ b = 0, 0)
<1> DEFINE M == Meet(h, len, shift, n, From(b, shift, n)) \ {len - 1}
<1>1. h \subseteq Nat /\ HistSize \in Nat
  BY HistSizeAssumption DEF Bits
<1>3. ASSUME NEW j \in Nat
      PROVE  j + 1 \in Meet(Push(h, bit), len, shift, n, b) <=> j \in M
  <2>1. j + 1 < len => (j + 1 \in Push(h, bit) <=> j \in h)
    BY <1>1, PushIs
  <2>2. Position(j + 1, shift, n) = b <=> Position(j, shift, n) = From(b, shift, n)
    BY PositionMoves
  <2> QED BY <2>1, <2>2 DEF Meet
<1>4. 0 \in Meet(Push(h, bit), len, shift, n, b) <=> bit /\ b = 0
  <2>1. shift * 0 = 0 /\ n * 0 + 0 = 0 /\ 0 \in 0 .. n - 1
    OBVIOUS
  <2>2. Position(0, shift, n) = 0
    BY <2>1, RemainderIs DEF Position
  <2> QED BY <2>2, PushIs DEF Meet
<1>5. Meet(Push(h, bit), len, shift, n, b) \subseteq Nat /\ M \subseteq Nat
  <2>1. Push(h, bit) \subseteq Nat
    BY <1>1, PushIs DEF Bits
  <2> QED BY <1>1, <2>1 DEF Meet
<1> HIDE DEF M
<1>6. \A x \in Nat : x = 0 \/ (x - 1 \in Nat /\ x = (x - 1) + 1)
  OBVIOUS
<1>7. ASSUME NEW x
      PROVE  x \in Meet(Push(h, bit), len, shift, n, b)
               <=> x \in Older(M) \cup BitIf(bit /\ b = 0, 0)
  <2>1. CASE x \in Nat /\ x # 0
    <3>1. x - 1 \in Nat /\ x = (x - 1) + 1
      BY <1>6, <2>1
    <3>2. x \in Older(M) <=> x - 1 \in M
      <4>1. x \in Older(M) <=> \E j \in M : x = j + 1
        BY Zenon DEF Older
      <4>2. \A j \in M : x = j + 1 <=> x - 1 = j
        BY <1>5, <3>1
      <4> QED BY <4>1, <4>2
    <3> QED BY <1>3, <2>1, <3>1, <3>2 DEF BitIf
  <2>2. CASE x = 0
    <3>1. x \notin Older(M)
      <4>1. \A j \in M : j + 1 # 0
        BY <1>5
      <4> QED BY <2>2, <4>1 DEF Older
    <3> QED BY <1>4, <2>2, <3>1 DEF BitIf
  <2>3. CASE x \notin Nat
    <3>1. x \notin Older(M)
      BY <1>5, <2>3 DEF Older
    <3> QED BY <1>5, <2>3, <3>1 DEF BitIf
  <2> QED BY <2>1, <2>2, <2>3
<1> QED BY <1>7 DEF M

(***************************************************************************)
(* The bits that compress() keeps.  The fold is first shifted, then the    *)
(* bits that have left its n positions come in again from below.           *)
(***************************************************************************)
LEMMA InCompress ==
    ASSUME NEW n \in Nat \ {0}, NEW shift \in 0 .. n - 1, NEW dest \in 0 .. n - 1,
           NEW fold \in SUBSET Bits(n), NEW h, NEW len \in Nat \ {0},
           NEW beyond, NEW b \in 0 .. n - 1
    PROVE  b \in Compress(fold, h, len, shift, dest, n, beyond)
             <=> ((From(b, shift, n) \in fold <=> 0 \in h /\ b = 0)
                    <=> (ReadBit(h, len, beyond) /\ b = dest))
<1> DEFINE shifted == ShiftLeft(fold, shift)
           entered == SymDiff(shifted, h \cap {0})
           old == BitIf(ReadBit(h, len, beyond), dest)
           left == SymDiff(entered, old)
<1>1. b \in Compress(fold, h, len, shift, dest, n, beyond)
        <=> b \in SymDiff(left, ShiftRight(left, n))
  BY DEF Compress, Bits
<1>2. fold \subseteq 0 .. n - 1
  BY DEF Bits
<1>3. /\ b \in shifted <=> b >= shift /\ b - shift \in fold
      /\ b + n \in shifted <=> b + n - shift \in fold
      /\ shifted \subseteq Nat
  BY <1>2 DEF ShiftLeft
<1>4. /\ b \in old <=> ReadBit(h, len, beyond) /\ b = dest
      /\ b + n \notin old
      /\ old \subseteq Nat
  BY DEF BitIf
<1> HIDE DEF old, shifted
<1>5. /\ b \in entered <=> ~ (b \in shifted <=> 0 \in h /\ b = 0)
      /\ b + n \in entered <=> b + n \in shifted
      /\ entered \subseteq Nat
  <2>1. b + n # 0 /\ 0 \in Nat
    OBVIOUS
  <2>2. \A x : x \in h \cap {0} <=> 0 \in h /\ x = 0
    OBVIOUS
  <2>3. \A x : x \in entered <=> ~ (x \in shifted <=> x \in h \cap {0})
    BY DEF SymDiff
  <2> HIDE DEF entered
  <2> QED BY <1>3, <2>1, <2>2, <2>3
<1> HIDE DEF entered
<1>6. /\ b \in left <=> ~ (b \in entered <=> b \in old)
      /\ b + n \in left <=> b + n \in entered
      /\ left \subseteq Nat
  BY <1>4, <1>5 DEF SymDiff
<1> HIDE DEF left
<1>7. b \in ShiftRight(left, n) <=> b + n \in left
  <2>1. \A x \in left : x >= n => (b = x - n <=> x = b + n)
    BY <1>6
  <2>2. b + n >= n /\ b + n - n = b
    OBVIOUS
  <2> QED BY <2>1, <2>2 DEF ShiftRight
<1>8. b \in SymDiff(left, ShiftRight(left, n)) <=> ~ (b \in left <=> b + n \in left)
  BY <1>7 DEF SymDiff
<1>9. CASE b >= shift
  <2>1. b + n - shift \notin fold /\ From(b, shift, n) = b - shift
    BY <1>2, <1>9 DEF From
  <2> QED BY <1>1, <1>3, <1>4, <1>5, <1>6, <1>8, <1>9, <2>1
<1>10. CASE ~ (b >= shift)
  <2>1. From(b, shift, n) = b + n - shift
    BY <1>10 DEF From
  <2> QED BY <1>1, <1>3, <1>4, <1>5, <1>6, <1>8, <1>10, <2>1
<1> QED BY <1>9, <1>10

\* The bits of the fold of the history after the write, in the same terms.
LEMMA InFoldAfter ==
    ASSUME NEW h \in SUBSET Bits(HistSize), NEW bit \in BOOLEAN,
           NEW n \in Nat \ {0}, NEW shift \in 0 .. n - 1,
           NEW len \in Nat \ {0}, len < HistSize, NEW b \in 0 .. n - 1
    PROVE  b \in FoldOf(Push(h, bit), len, shift, n)
             <=> ((From(b, shift, n) \in FoldOf(h, len, shift, n) <=> bit /\ b = 0)
                    <=> (len - 1 \in h /\ b = Position(len, shift, n)))
<1> DEFINE c == From(b, shift, n)
           M == Meet(h, len, shift, n, c)
           M1 == M \ {len - 1}
           T == Older(M1)
<1>1. h \in SUBSET Nat /\ HistSize \in Nat
  BY HistSizeAssumption DEF Bits
<1>2. c \in 0 .. n - 1 /\ 0 \in Nat
  BY PositionMoves
<1>3. len - 1 \in M <=> len - 1 \in h /\ b = Position(len, shift, n)
  <2> DEFINE j == len - 1
  <2>1. j \in Nat /\ j + 1 = len
    OBVIOUS
  <2> HIDE DEF j
  <2>2. Position(j + 1, shift, n) = b <=> Position(j, shift, n) = c
    BY <2>1, PositionMoves
  <2>3. j \in M <=> j \in h /\ b = Position(len, shift, n)
    BY <2>1, <2>2 DEF Meet
  <2> QED BY <2>3 DEF j
<1>4. IsFiniteSet(M) /\ M \in SUBSET Nat
  BY <1>1, MeetFinite
<1>5. Meet(Push(h, bit), len, shift, n, b) = T \cup BitIf(bit /\ b = 0, 0)
  BY MeetAfter
<1>6. b \in FoldOf(Push(h, bit), len, shift, n) <=> OddSize(T \cup BitIf(bit /\ b = 0, 0))
  BY <1>5, FoldIs DEF Bits
<1>7. c \in FoldOf(h, len, shift, n) <=> OddSize(M)
  BY <1>2, FoldIs DEF Bits
<1> HIDE DEF c, M
<1>8. IsFiniteSet(M1) /\ M1 \in SUBSET Nat
  BY <1>4, FS_RemoveElement
<1>9. OddSize(M1) <=> ~ (OddSize(M) <=> len - 1 \in M)
  <2>1. CASE len - 1 \in M
    BY <1>4, <2>1, OddToggle
  <2>2. CASE len - 1 \notin M
    <3>1. M1 = M
      BY <2>2
    <3> QED BY <2>2, <3>1
  <2> QED BY <2>1, <2>2
<1> HIDE DEF M1
<1>10. IsFiniteSet(T) /\ (OddSize(T) <=> OddSize(M1)) /\ 0 \notin T
  <2>1. 0 \notin T
    BY <1>8 DEF Older
  <2> QED BY <1>8, <2>1, OddShifted
<1> HIDE DEF T
<1>11. OddSize(T \cup BitIf(bit /\ b = 0, 0)) <=> ~ (OddSize(T) <=> bit /\ b = 0)
  <2>1. CASE bit /\ b = 0
    BY <1>10, <2>1, OddToggle DEF BitIf
  <2>2. CASE ~ (bit /\ b = 0)
    <3>1. T \cup BitIf(bit /\ b = 0, 0) = T
      BY <2>2 DEF BitIf
    <3> QED BY <2>2, <3>1
  <2> QED BY <2>1, <2>2
<1> QED BY <1>3, <1>6, <1>7, <1>9, <1>10, <1>11 DEF c

(***************************************************************************)
(* A history that is shorter than the bitset stays folded exactly: what    *)
(* compress() does with the youngest and the oldest direction is the fold  *)
(* of the new history (ogehl.hpp 181-195, gehl.h 50-56).                   *)
(***************************************************************************)
LEMMA CompressFolds ==
    ASSUME NEW h \in SUBSET Bits(HistSize), NEW bit \in BOOLEAN,
           NEW n \in Nat \ {0}, NEW shift \in 0 .. n - 1,
           NEW len \in Nat, len < HistSize,
           NEW dest \in 0 .. n - 1, dest = Position(len, shift, n),
           NEW beyond \in BOOLEAN
    PROVE  Compress(FoldOf(h, len, shift, n), Push(h, bit), len, shift, dest, n, beyond)
             = FoldOf(Push(h, bit), len, shift, n)
<1> DEFINE F == FoldOf(h, len, shift, n)
           C == Compress(F, Push(h, bit), len, shift, dest, n, beyond)
           G == FoldOf(Push(h, bit), len, shift, n)
<1>1. CASE len = 0
  <2>1. C = {}
    BY <1>1 DEF Compress
  <2>2. Push(h, bit) \subseteq Nat
    <3>1. Bits(HistSize) \subseteq Nat
      BY HistSizeAssumption DEF Bits
    <3> QED BY <3>1, PushIs
  <2>3. \A b : Meet(Push(h, bit), 0, shift, n, b) = {}
    BY <2>2 DEF Meet
  <2>4. G = {}
    BY <1>1, <2>3, FoldIs, OddEmpty
  <2> QED BY <2>1, <2>4
<1>2. CASE len # 0
  <2>1. len \in Nat \ {0} /\ HistSize \in Nat
    BY <1>2, HistSizeAssumption
  <2>2. F \in SUBSET Bits(n) /\ G \in SUBSET Bits(n)
    BY DEF FoldOf
  <2>4. C \in SUBSET Bits(n)
    BY <1>2 DEF Compress
  <2>5. ReadBit(Push(h, bit), len, beyond) <=> len - 1 \in h
    <3> DEFINE j == len - 1
    <3>1. j \in Nat /\ j + 1 = len
      BY <2>1
    <3> HIDE DEF j
    <3>2. j + 1 \in Push(h, bit) <=> j \in h
      BY <3>1, PushIs
    <3> QED BY <3>1, <3>2 DEF ReadBit, j
  <2>6. 0 \in Push(h, bit) <=> bit
    BY PushIs
  <2>7. ASSUME NEW b \in 0 .. n - 1 PROVE b \in C <=> b \in G
    <3>1. b \in C <=> ((From(b, shift, n) \in F <=> bit /\ b = 0)
                         <=> (len - 1 \in h /\ b = dest))
      <4> HIDE DEF F
      <4>1. b \in C <=> ((From(b, shift, n) \in F <=> 0 \in Push(h, bit) /\ b = 0)
               <=> (ReadBit(Push(h, bit), len, beyond) /\ b = dest))
        BY <2>1, <2>2, InCompress
      <4> QED BY <2>5, <2>6, <4>1
    <3> QED BY <2>1, <3>1, InFoldAfter
  <2> HIDE DEF C, G
  <2> QED BY <2>2, <2>4, <2>7 DEF Bits, C, G
<1> QED BY <1>1, <1>2

\* Nothing is folded from an empty history.
LEMMA EmptyFold == \A len, shift, n : FoldOf({}, len, shift, n) = {}
<1> SUFFICES ASSUME NEW len, NEW shift, NEW n PROVE FoldOf({}, len, shift, n) = {}
  OBVIOUS
<1>1. \A b : Meet({}, len, shift, n, b) = {}
  BY DEF Meet
<1> QED BY <1>1, FoldIs, OddEmpty

(***************************************************************************)
(* The folded history of a table.                                          *)
(***************************************************************************)
HistoryFits ==
    /\ geometry \in Geometries /\ useLong \in BOOLEAN
    /\ history \subseteq Bits(HistSize)

LEMMA GeometryIs ==
    ASSUME geometry \in Geometries
    PROVE  /\ geometry.table \in Nat /\ geometry.n \in Nat \ {0}
           /\ geometry.short \in Nat /\ geometry.long \in Nat
  BY GeometriesAssumption DEF Geometry

LEMMA HistoryFitsInit == FoldInit => HistoryFits
  BY DEF FoldInit, HistoryFits

LEMMA HistoryFitsStep == HistoryFits /\ [FoldNext]_foldVars => HistoryFits'
<1> SUFFICES ASSUME HistoryFits, [FoldNext]_foldVars PROVE HistoryFits'
  OBVIOUS
<1>1. ASSUME NEW taken \in BOOLEAN, EnterBranch(taken) PROVE HistoryFits'
  <2>1. Push(history, taken) \in SUBSET Bits(HistSize)
    BY PushIs DEF HistoryFits
  <2> QED BY <1>1, <2>1 DEF HistoryFits, EnterBranch
<1>2. CASE Switch
  BY <1>2 DEF HistoryFits, Switch
<1>3. CASE UNCHANGED foldVars
  BY <1>3 DEF HistoryFits, foldVars
<1> QED BY <1>1, <1>2, <1>3 DEF FoldNext

\* A table has one length, shorter than the bitset, as in gehl.h; telling it
\* to switch then changes nothing.
OneShortLength == \A g \in Geometries : g.long = g.short /\ g.short < HistSize

LEMMA FoldExactInit == FoldInit => FoldExact
  BY EmptyFold DEF FoldInit, FoldExact

LEMMA FoldExactStep ==
    OneShortLength /\ HistoryFits /\ FoldExact /\ [FoldNext]_foldVars => FoldExact'
<1> SUFFICES ASSUME OneShortLength, HistoryFits, FoldExact, [FoldNext]_foldVars
             PROVE  FoldExact'
  OBVIOUS
<1>1. /\ geometry.n \in Nat \ {0} /\ geometry.table \in Nat
      /\ HistBits = geometry.short /\ geometry.short \in Nat
      /\ HistBits < HistSize /\ geometry.long = geometry.short
  BY GeometryIs DEF HistoryFits, OneShortLength, HistBits
<1>2. ASSUME NEW taken \in BOOLEAN, EnterBranch(taken) PROVE FoldExact'
  <2>1. /\ Shift \in 0 .. geometry.n - 1 /\ Dest = Position(HistBits, Shift, geometry.n)
        /\ Dest \in 0 .. geometry.n - 1
    BY <1>1, DestInRange, ShiftIsPrime DEF Shift, Dest
  <2>2. PICK beyond \in BOOLEAN : comp' = Compress(comp, Push(history, taken), HistBits, Shift, Dest,
                                       geometry.n, beyond)
    BY <1>2 DEF EnterBranch
  <2>3. comp' = FoldOf(Push(history, taken), HistBits, Shift, geometry.n)
    <3>1. history \in SUBSET Bits(HistSize) /\ HistBits \in Nat
      BY <1>1 DEF HistoryFits
    <3>2. Compress(FoldOf(history, HistBits, Shift, geometry.n), Push(history, taken),
                   HistBits, Shift, Dest, geometry.n, beyond)
            = FoldOf(Push(history, taken), HistBits, Shift, geometry.n)
      BY <1>1, <2>1, <3>1, CompressFolds
    <3> QED BY <2>1, <2>2, <3>2 DEF FoldExact
  <2>4. /\ history' = Push(history, taken)
        /\ HistBits' = HistBits /\ Shift' = Shift /\ geometry' = geometry
    BY <1>2 DEF EnterBranch, HistBits, Shift
  <2> QED BY <2>3, <2>4 DEF FoldExact
<1>3. CASE Switch
  <2>1. HistBits' = HistBits /\ Shift' = Shift
    BY <1>1, <1>3 DEF Switch, HistBits, Shift
  <2> QED BY <1>3, <2>1 DEF Switch, FoldExact
<1>4. CASE UNCHANGED foldVars
  <2>1. HistBits' = HistBits /\ Shift' = Shift
    BY <1>4 DEF foldVars, HistBits, Shift
  <2> QED BY <1>4, <2>1 DEF foldVars, FoldExact
<1> QED BY <1>2, <1>3, <1>4 DEF FoldNext

(***************************************************************************)
(* The folded history of every table with one length shorter than the      *)
(* bitset is, after every sequence of branches, the fold of exactly the    *)
(* last directions (gehl.h 50-56; ogehl.hpp 181-195 for a table without an *)
(* additional length).                                                     *)
(***************************************************************************)
THEOREM FoldExactHolds == OneShortLength /\ FoldSpec => []FoldExact
<1> SUFFICES ASSUME OneShortLength PROVE FoldSpec => []FoldExact
  OBVIOUS
<1>1. FoldInit => HistoryFits /\ FoldExact
  BY HistoryFitsInit, FoldExactInit
<1>2. HistoryFits /\ FoldExact /\ [FoldNext]_foldVars
        => (HistoryFits /\ FoldExact)'
  BY HistoryFitsStep, FoldExactStep
<1> QED BY <1>1, <1>2, PTL DEF FoldSpec

\* One direction that turns turns one bit of the fold: that of its position.
LEMMA TurnedDirection ==
    ASSUME NEW h \in SUBSET Nat, NEW len \in Nat, NEW shift, NEW n,
           NEW j \in Nat, j < len, NEW b \in Bits(n)
    PROVE  b \in FoldOf(SymDiff(h, {j}), len, shift, n)
             <=> ~ (b \in FoldOf(h, len, shift, n) <=> Position(j, shift, n) = b)
<1> DEFINE M == Meet(h, len, shift, n, b)
           N == Meet(SymDiff(h, {j}), len, shift, n, b)
<1>1. IsFiniteSet(M)
  BY MeetFinite
<1>2. CASE Position(j, shift, n) = b
  <2>1. N = SymDiff(M, {j})
    BY <1>2 DEF Meet, SymDiff
  <2>2. OddSize(N) <=> ~ OddSize(M)
    <3> HIDE DEF M, N
    <3> QED BY <1>1, <2>1, OddToggle
  <2> QED BY <1>2, <2>2, FoldIs
<1>3. CASE ~ Position(j, shift, n) = b
  <2>1. N = M
    BY <1>3 DEF Meet, SymDiff
  <2> QED BY <1>3, <2>1, FoldIs
<1> QED BY <1>2, <1>3

\* The last n directions have positions of their own.
LEMMA PositionsApart ==
    ASSUME NEW t \in Nat, NEW n \in Nat \ {0}, NEW j \in Bits(n), NEW k \in Bits(n), j < k
    PROVE  Position(j, ShiftOf(t, n), n) # Position(k, ShiftOf(t, n), n)
<1> DEFINE s == ShiftOf(t, n)
<1>1. s \in 0 .. n - 1 /\ \A d \in 1 .. n - 1 : (s * d) % n # 0
  BY ShiftIsPrime
<1> HIDE DEF s
<1> SUFFICES ASSUME (s * j) % n = (s * k) % n PROVE FALSE
  BY DEF s, Position
<1> DEFINE x == s * j
           y == s * (k - j)
           r == x % n
<1>2. x \in Nat /\ y \in Nat /\ s * k = x + y /\ k - j \in 1 .. n - 1
  BY <1>1 DEF Bits
<1>8. (x + y) % n = x % n
  BY <1>2
<1>3. r \in 0 .. n - 1 /\ x \div n \in Nat /\ x = n * (x \div n) + r
  <2> HIDE DEF x
  <2> QED BY <1>2, Division
<1>4. (x + y) % n = r /\ (x + y) \div n \in Nat /\ x + y = n * ((x + y) \div n) + r
  <2> HIDE DEF x, y
  <2>1. x + y \in Nat /\ (x + y) % n = x % n
    BY <1>2, <1>8
  <2> QED BY <2>1, Division
<1> DEFINE p == x \div n
           q == (x + y) \div n
<1> HIDE DEF x, y, r, p, q
<1>5. y = n * (q - p)
  BY <1>2, <1>3, <1>4 DEF p, q
<1>6. q - p \in Nat
  <2>1. q - p \in Int /\ n * (q - p) >= 0
    BY <1>2, <1>3, <1>4, <1>5 DEF p, q
  <2>2. ~ (q - p <= -1)
    BY <2>1
  <2> QED BY <2>1, <2>2
<1>7. y % n = 0
  <2>1. y = n * (q - p) + 0 /\ 0 \in 0 .. n - 1
    BY <1>5, <1>6
  <2> QED BY <1>6, <2>1, RemainderIs
<1> QED BY <1>1, <1>2, <1>7 DEF y

(***************************************************************************)
(* No two of the last n directions can stand for one another in the index: *)
(* whatever the history, turning the one gives another fold than turning   *)
(* the other (the search for a shift, gehl.h 37-46, ogehl.hpp 62-73).      *)
(***************************************************************************)
THEOREM RecentKeptApartHolds == FoldSpec => []RecentKeptApart
<1>1. HistoryFits => RecentKeptApart
  <2> SUFFICES ASSUME HistoryFits,
                      NEW j \in Bits(geometry.n), NEW k \in Bits(geometry.n),
                      j # k, j < HistBits, k < HistBits
               PROVE  FoldOf(SymDiff(history, {j}), HistBits, Shift, geometry.n)
                        # FoldOf(SymDiff(history, {k}), HistBits, Shift, geometry.n)
    BY DEF RecentKeptApart
  <2> DEFINE n == geometry.n
             b == Position(j, Shift, n)
             H(i) == FoldOf(SymDiff(history, {i}), HistBits, Shift, n)
  <2>1. n \in Nat \ {0} /\ geometry.table \in Nat /\ HistBits \in Nat
    BY GeometryIs DEF HistoryFits, HistBits
  <2>2. history \in SUBSET Nat
    BY HistSizeAssumption DEF HistoryFits, Bits
  <2>3. j \in Nat /\ k \in Nat /\ (j < k \/ k < j)
    BY <2>1 DEF Bits
  <2>4. b # Position(k, Shift, n)
    BY <2>1, <2>3, PositionsApart DEF Shift
  <2>5. b \in Bits(n)
    <3>1. Shift \in Nat
      BY <2>1, ShiftIsPrime DEF Shift
    <3>2. Shift * j \in Nat
      BY <2>3, <3>1
    <3> QED BY <2>1, <3>2, Division DEF Bits, Position
  <2> HIDE DEF b
  <2>6. b \in H(j) <=> ~ (b \in FoldOf(history, HistBits, Shift, n) <=> Position(j, Shift, n) = b)
    BY <2>1, <2>2, <2>3, <2>5, TurnedDirection
  <2>7. b \in H(k) <=> ~ (b \in FoldOf(history, HistBits, Shift, n) <=> Position(k, Shift, n) = b)
    BY <2>1, <2>2, <2>3, <2>5, TurnedDirection
  <2> QED BY <2>4, <2>6, <2>7 DEF b
<1> QED BY <1>1, HistoryFitsInit, HistoryFitsStep, PTL DEF FoldSpec
=============================================================================

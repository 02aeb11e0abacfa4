--------------------------- MODULE DataflowProofs ---------------------------
(***************************************************************************)
(* Theorems about the data that flow through Processor, for every value of *)
(* the constants: the register an instruction in flight reads for a source *)
(* is the one program order gives it, and the pipeline with its values     *)
(* implements the machine that executes one instruction after the other.   *)
(***************************************************************************)
EXTENDS Dataflow, ProcessorProofs, WellFoundedInduction

\* A nonempty set of natural numbers has a least element, and one that is
\* bounded has a greatest.
LEMMA LeastOf ==
    ASSUME NEW J, J \subseteq Nat, J # {}
    PROVE  \E k \in J : \A m \in J : k <= m
<1> DEFINE R == {ss \in Nat \X Nat : ss[1] < ss[2]}
<1>1. IsWellFoundedOn(R, Nat)
  BY NatLessThanWellFounded DEF OpToRel
<1> HIDE DEF R
<1>2. PICK k \in J : \A m \in J : ~ <<m, k>> \in R
  BY <1>1, WFMin, Zenon
<1>3. \A m \in J : m \in Nat /\ k \in Nat /\ ~ (m < k)
  BY <1>2 DEF R
<1> QED  BY <1>3

LEMMA GreatestOf ==
    ASSUME NEW J, NEW n \in Nat, J \subseteq 0 .. n, J # {}
    PROVE  \E k \in J : \A m \in J : m <= k
<1> DEFINE K == {n - k : k \in J}
<1>1. \A k \in J : n - k \in Nat
  OBVIOUS
<1>2. K \subseteq Nat /\ K # {}
  BY <1>1
<1>3. PICK x \in K : \A y \in K : x <= y
  BY <1>2, LeastOf
<1>4. PICK k \in J : x = n - k
  OBVIOUS
<1>5. \A m \in J : n - k <= n - m
  BY <1>3, <1>4
<1> QED  BY <1>4, <1>5

-----------------------------------------------------------------------------
(***************************************************************************)
(* The register that holds the value an instruction at position j of the   *)
(* buffer r, of length n, would read for a: the one that the first writer  *)
(* from j on has displaced, or the one the map table has.                  *)
(***************************************************************************)
Writes(op, a) == \E d \in 1 .. 2 : ArchDest(op)[d] = a
WritersIn(r, a, J) == {k \in J : Writes(r[k].op, a)}

ValueFrom(r, n, map, a, j) ==
    LET later == WritersIn(r, a, j .. n)
    IN  IF later # {} THEN FirstFree(r[Oldest(later)], a) ELSE map[a]

\* It is known as soon as the first writer is, or that there is none.
LEMMA ValueOfFirst ==
    ASSUME NEW r, NEW n \in Nat, NEW map, NEW a, NEW j \in Nat,
           NEW k \in j .. n, Writes(r[k].op, a),
           \A m \in j .. k - 1 : ~ Writes(r[m].op, a)
    PROVE  ValueFrom(r, n, map, a, j) = FirstFree(r[k], a)
<1> DEFINE later == WritersIn(r, a, j .. n)
<1>1. k \in later /\ \A m \in later : m \in Nat /\ k <= m
  BY DEF WritersIn
<1>2. \A l \in later : (\A m \in later : l <= m) => l = k
  BY <1>1
<1>3. Oldest(later) = k
  BY <1>1, <1>2 DEF Oldest
<1> QED  BY <1>1, <1>3 DEF ValueFrom

LEMMA ValueOfNone ==
    ASSUME NEW r, NEW n \in Nat, NEW map, NEW a, NEW j \in Nat,
           \A m \in j .. n : ~ Writes(r[m].op, a)
    PROVE  ValueFrom(r, n, map, a, j) = map[a]
BY DEF ValueFrom, WritersIn

\* One of the two is the case.
LEMMA FirstOrNone ==
    ASSUME NEW r, NEW n \in Nat, NEW a, NEW j \in Nat
    PROVE  \/ \A m \in j .. n : ~ Writes(r[m].op, a)
           \/ \E k \in j .. n : /\ Writes(r[k].op, a)
                                /\ \A m \in j .. k - 1 : ~ Writes(r[m].op, a)
<1> DEFINE J == WritersIn(r, a, j .. n)
<1>1. J \subseteq Nat /\ \A m : m \in J <=> m \in j .. n /\ Writes(r[m].op, a)
  BY DEF WritersIn
<1>2. CASE J = {}
  BY <1>1, <1>2
<1>3. CASE J # {}
  <2> HIDE DEF J
  <2>1. PICK k \in J : \A m \in J : k <= m
    BY <1>1, <1>3, LeastOf
  <2>2. k \in j .. n /\ Writes(r[k].op, a)
    BY <1>1, <2>1
  <2>3. \A m \in j .. k - 1 : ~ Writes(r[m].op, a)
    BY <1>1, <2>1, <2>2
  <2> QED  BY <2>2, <2>3
<1> QED  BY <1>2, <1>3

\* The value depends on the operations and the displaced registers alone, and
\* moves with them when the oldest entries leave.
KeptOf(s, m, r, n) ==
    \A k \in 1 .. m : s[k].op = r[k + (n - m)].op /\ s[k].pfree = r[k + (n - m)].pfree

LEMMA ValueShift ==
    ASSUME NEW r, NEW n \in Nat, NEW s, NEW m \in 0 .. n, NEW map, NEW a,
           NEW j \in Nat \ {0}, KeptOf(s, m, r, n)
    PROVE  ValueFrom(s, m, map, a, j) = ValueFrom(r, n, map, a, j + (n - m))
<1> DEFINE d == n - m
           i == j + d
<1>1. /\ j \in Nat /\ m \in Nat /\ d \in Nat /\ n = m + d /\ i \in Nat
      /\ \A k \in 1 .. m : s[k].op = r[k + d].op /\ s[k].pfree = r[k + d].pfree
  BY DEF KeptOf
<1>0. i = j + d
  OBVIOUS
<1> HIDE DEF d, i
<1>2. ASSUME \A k \in j .. m : ~ Writes(s[k].op, a)
      PROVE  ValueFrom(s, m, map, a, j) = ValueFrom(r, n, map, a, i)
  <2>1. \A k \in i .. n : k - d \in j .. m /\ k - d \in 1 .. m /\ (k - d) + d = k
    BY <1>0, <1>1
  <2>2. \A k \in i .. n : ~ Writes(r[k].op, a)
    BY <1>1, <1>2, <2>1
  <2>3. ValueFrom(r, n, map, a, i) = map[a]
    BY <1>1, <2>2, ValueOfNone
  <2>4. ValueFrom(s, m, map, a, j) = map[a]
    BY <1>1, <1>2, ValueOfNone
  <2> QED  BY <2>3, <2>4
<1>3. ASSUME NEW k \in j .. m, Writes(s[k].op, a),
             \A l \in j .. k - 1 : ~ Writes(s[l].op, a)
      PROVE  ValueFrom(s, m, map, a, j) = ValueFrom(r, n, map, a, i)
  <2>1. /\ k \in 1 .. m /\ k + d \in i .. n
        /\ \A l \in i .. (k + d) - 1 :
              l - d \in j .. k - 1 /\ l - d \in 1 .. m /\ (l - d) + d = l
    BY <1>0, <1>1
  <2>2. Writes(r[k + d].op, a) /\ s[k].op = r[k + d].op /\ s[k].pfree = r[k + d].pfree
    BY <1>1, <1>3, <2>1
  <2>3. \A l \in i .. (k + d) - 1 : ~ Writes(r[l].op, a)
    BY <1>1, <1>3, <2>1
  <2>4. ValueFrom(r, n, map, a, i) = FirstFree(r[k + d], a)
    BY <1>1, <2>1, <2>2, <2>3, ValueOfFirst
  <2>5. ValueFrom(s, m, map, a, j) = FirstFree(s[k], a)
    <3>1. j \in Nat /\ m \in Nat
      BY <1>1
    <3> QED  BY <1>3, <3>1, ValueOfFirst
  <2> QED  BY <2>2, <2>4, <2>5 DEF FirstFree
<1>4. ValueFrom(s, m, map, a, j) = ValueFrom(r, n, map, a, i)
  BY <1>1, <1>2, <1>3, FirstOrNone
<1> QED  BY <1>4 DEF i, d

-----------------------------------------------------------------------------
(***************************************************************************)
(* How the three actions that change the buffer change these values.       *)
(***************************************************************************)
ValueAt(a, j) == ValueFrom(rob, Len(rob), maptable, a, j)

LEMMA ValuesCommit ==
    ASSUME TypeOK, Commit, NEW a, NEW j \in Nat \ {0}
    PROVE  ValueAt(a, j)' = ValueAt(a, j + 1)
<1> DEFINE n == Len(rob)
           m == Len(rob')
<1>1. /\ n \in Nat /\ m \in Nat /\ n = m + 1 /\ maptable' = maptable
      /\ \A k \in 1 .. m : rob'[k] = rob[k + 1]
  BY CommitFacts, RobFacts DEF Commit
<1> HIDE DEF n, m
<1>2. \A k \in 1 .. m : rob'[k].op = rob[k + 1].op /\ rob'[k].pfree = rob[k + 1].pfree
  BY <1>1
<1>3. ValueFrom(rob', m, maptable, a, j) = ValueFrom(rob, n, maptable, a, j + 1)
  <2>1. n \in Nat /\ m \in 0 .. n /\ n - m = 1
    BY <1>1
  <2>2. KeptOf(rob', m, rob, n)
    BY <1>2, <2>1 DEF KeptOf
  <2>3. \A x, y : \A p \in Nat : \A q \in 0 .. p : KeptOf(y, q, x, p)
           => ValueFrom(y, q, maptable, a, j) = ValueFrom(x, p, maptable, a, j + (p - q))
    BY ValueShift
  <2>4. ValueFrom(rob', m, maptable, a, j) = ValueFrom(rob, n, maptable, a, j + (n - m))
    BY <2>1, <2>2, <2>3
  <2> QED  BY <2>1, <2>4
<1>4. /\ ValueAt(a, j)' = ValueFrom(rob', m, maptable', a, j)
      /\ ValueAt(a, j + 1) = ValueFrom(rob, n, maptable, a, j + 1)
  BY DEF ValueAt, n, m
<1> QED  BY <1>1, <1>3, <1>4

LEMMA ValuesIssue ==
    ASSUME TypeOK, Issue, NEW a, NEW j \in Nat \ {0}
    PROVE  ValueAt(a, j)' = ValueAt(a, j)
<1> DEFINE n == Len(rob)
<1>1. /\ n \in Nat /\ Len(rob') = n /\ maptable' = maptable
      /\ rob'[pos] = Execute(rob[pos]) /\ rob[pos] \in Entry
      /\ \A k \in 1 .. n : k # pos => rob'[k] = rob[k]
  BY IssueFacts, RobFacts DEF Issue
<1>2. \A k \in 1 .. n : rob'[k].op = rob[k].op /\ rob'[k].pfree = rob[k].pfree
  BY <1>1, ExecuteFields
<1> HIDE DEF n
<1>3. ValueFrom(rob', n, maptable, a, j) = ValueFrom(rob, n, maptable, a, j)
  <2>1. n \in Nat /\ n \in 0 .. n /\ j + (n - n) = j
    BY <1>1
  <2>2. KeptOf(rob', n, rob, n)
    BY <1>1, <1>2 DEF KeptOf
  <2>3. ValueFrom(rob', n, maptable, a, j) = ValueFrom(rob, n, maptable, a, j + (n - n))
    BY <2>1, <2>2, ValueShift
  <2> QED  BY <2>1, <2>3
<1>4. /\ ValueAt(a, j)' = ValueFrom(rob', Len(rob'), maptable', a, j)
      /\ ValueAt(a, j) = ValueFrom(rob, n, maptable, a, j)
  BY DEF ValueAt, n
<1> QED  BY <1>1, <1>3, <1>4

\* Renaming displaces the register that a writer's destination had, and maps
\* the destination to the register of its last write.
LEMMA RenameValues ==
    ASSUME TypeOK, NEW op \in Records, NEW miss \in BOOLEAN, CanRename(op),
           NEW a \in ArchReg
    PROVE  LET r == RenameInstruction(op)
               e == NewEntry(op, r, miss)
           IN  IF Writes(op, a)
               THEN LastDest(e, a) = r.map[a] /\ FirstFree(e, a) = maptable[a]
               ELSE r.map[a] = maptable[a]
<1> DEFINE a1 == ArchDest(op)[1]
           a2 == ArchDest(op)[2]
           r0 == Unrenamed
           r1 == RenameDest(r0, 1, a1)
           r2 == RenameDest(r1, 2, a2)
           e == NewEntry(op, r2, miss)
<1>1. a1 \in ArchReg \cup {NoReg} /\ a2 \in ArchReg \cup {NoReg} /\ a # NoReg
  BY DestType DEF ArchReg, NoReg
<1>2. /\ r0 \in Renamed /\ r0.free = freelist /\ r0.map = maptable
  BY DEF TypeOK, Unrenamed, Renamed, RegOrNone
<1> HIDE DEF r0
<1>3. /\ a1 # NoReg => Len(r0.free) >= 1
      /\ Len(freelist) \in Nat
  BY <1>2 DEF CanRename, TypeOK
<1>4. /\ r1 \in Renamed
  BY <1>1, <1>2, <1>3, RenameDestType
<1>5. /\ a = a1 => r1.pdest[1] = r1.map[a] /\ r1.pfree[1] = maptable[a]
      /\ a # a1 => r1.map[a] = maptable[a]
  BY <1>1, <1>2 DEF RenameDest, Renamed
<1> HIDE DEF r1
<1>6. /\ a = a2 => r2.pdest[2] = r2.map[a] /\ r2.pfree[2] = r1.map[a]
      /\ a # a2 => r2.map[a] = r1.map[a]
      /\ r2.pdest[1] = r1.pdest[1] /\ r2.pfree[1] = r1.pfree[1]
  BY <1>1, <1>4 DEF RenameDest, Renamed
<1> HIDE DEF r2
<1>7. e.op = op /\ e.pdest = r2.pdest /\ e.pfree = r2.pfree
  BY DEF NewEntry
<1>8. Writes(op, a) <=> a = a1 \/ a = a2
  BY DEF Writes
<1>9. /\ LastDest(e, a) = IF a2 = a THEN r2.pdest[2] ELSE r2.pdest[1]
      /\ FirstFree(e, a) = IF a1 = a THEN r2.pfree[1] ELSE r2.pfree[2]
  BY <1>7 DEF LastDest, FirstFree
<1> HIDE DEF e, a1, a2
<1>10. IF Writes(op, a)
       THEN LastDest(e, a) = r2.map[a] /\ FirstFree(e, a) = maptable[a]
       ELSE r2.map[a] = maptable[a]
  BY <1>5, <1>6, <1>8, <1>9
<1>11. r2 = RenameInstruction(op)
  BY DEF RenameInstruction, r0, r1, r2, a1, a2
<1> QED  BY <1>10, <1>11 DEF e

LEMMA ValuesFetch ==
    ASSUME TypeOK, NEW op \in Records, NEW miss \in BOOLEAN, Fetch(op, miss),
           NEW a \in ArchReg
    PROVE  /\ \A j \in 1 .. Len(rob) + 1 : ValueAt(a, j)' = ValueAt(a, j)
           /\ ValueAt(a, Len(rob) + 1) = maptable[a]
           /\ Writes(op, a) =>
                 LastDest(rob'[Len(rob) + 1], a)
                    = ValueFrom(rob', Len(rob'), maptable', a, Len(rob) + 2)
<1> DEFINE n == Len(rob)
           e == NewEntry(op, RenameInstruction(op), miss)
<1>1. /\ n \in Nat /\ n + 1 \in Nat /\ n + 2 \in Nat /\ Len(rob') = n + 1
      /\ rob'[n + 1] = e /\ \A k \in 1 .. n : rob'[k] = rob[k]
      /\ maptable' = RenameInstruction(op).map /\ CanRename(op)
      /\ e.op = op
  BY FetchFacts, RobFacts DEF Fetch, NewEntry
<1>2. IF Writes(op, a)
      THEN LastDest(e, a) = maptable'[a] /\ FirstFree(e, a) = maptable[a]
      ELSE maptable'[a] = maptable[a]
  BY <1>1, RenameValues
<1> HIDE DEF n, e
<1>3. ValueFrom(rob', n + 1, maptable', a, n + 2) = maptable'[a]
  BY <1>1, ValueOfNone
<1>4. ASSUME NEW j \in 1 .. n + 1
      PROVE  ValueFrom(rob', n + 1, maptable', a, j) = ValueFrom(rob, n, maptable, a, j)
  <2>1. j \in Nat
    BY <1>1
  <2>2. ASSUME NEW k \in j .. n, Writes(rob[k].op, a),
               \A m \in j .. k - 1 : ~ Writes(rob[m].op, a)
        PROVE  ValueFrom(rob', n + 1, maptable', a, j) = ValueFrom(rob, n, maptable, a, j)
    <3>1. k \in j .. n + 1 /\ rob'[k] = rob[k] /\ \A m \in j .. k - 1 : rob'[m] = rob[m]
      BY <1>1
    <3>2. ValueFrom(rob, n, maptable, a, j) = FirstFree(rob[k], a)
      BY <1>1, <2>1, <2>2, ValueOfFirst
    <3>3. Writes(rob'[k].op, a) /\ \A m \in j .. k - 1 : ~ Writes(rob'[m].op, a)
      BY <2>2, <3>1
    <3>4. ValueFrom(rob', n + 1, maptable', a, j) = FirstFree(rob'[k], a)
      BY <1>1, <2>1, <3>1, <3>3, ValueOfFirst
    <3> QED  BY <3>1, <3>2, <3>4
  <2>3. ASSUME \A m \in j .. n : ~ Writes(rob[m].op, a)
        PROVE  ValueFrom(rob', n + 1, maptable', a, j) = ValueFrom(rob, n, maptable, a, j)
    <3>1. ValueFrom(rob, n, maptable, a, j) = maptable[a]
      <4>1. n \in Nat
        BY <1>1
      <4> QED  BY <2>1, <2>3, <4>1, ValueOfNone
    <3>2. \A m \in j .. n : ~ Writes(rob'[m].op, a)
      BY <1>1, <2>3
    <3>3. CASE Writes(op, a)
      <4>1. n + 1 \in j .. n + 1 /\ Writes(rob'[n + 1].op, a) /\ (n + 1) - 1 = n
        BY <1>1, <3>3
      <4>2. ValueFrom(rob', n + 1, maptable', a, j) = FirstFree(rob'[n + 1], a)
        BY <1>1, <2>1, <3>2, <4>1, ValueOfFirst
      <4> QED  BY <1>1, <1>2, <3>1, <3>3, <4>2
    <3>4. CASE ~ Writes(op, a)
      <4>1. \A m \in j .. n + 1 : m \in j .. n \/ m = n + 1
        BY <1>1
      <4>2. \A m \in j .. n + 1 : ~ Writes(rob'[m].op, a)
        BY <1>1, <3>2, <3>4, <4>1
      <4>3. ValueFrom(rob', n + 1, maptable', a, j) = maptable'[a]
        BY <1>1, <2>1, <4>2, ValueOfNone
      <4> QED  BY <1>2, <3>1, <3>4, <4>3
    <3> QED  BY <3>3, <3>4
  <2> QED  BY <1>1, <2>1, <2>2, <2>3, FirstOrNone
<1>5. ValueFrom(rob, n, maptable, a, n + 1) = maptable[a]
  BY <1>1, ValueOfNone
<1>6. \A j : /\ ValueAt(a, j)' = ValueFrom(rob', Len(rob'), maptable', a, j)
             /\ ValueAt(a, j) = ValueFrom(rob, n, maptable, a, j)
  BY DEF ValueAt, n
<1>7. /\ \A j \in 1 .. n + 1 : ValueAt(a, j)' = ValueAt(a, j)
      /\ ValueAt(a, n + 1) = maptable[a]
      /\ Writes(op, a) => LastDest(rob'[n + 1], a)
                             = ValueFrom(rob', Len(rob'), maptable', a, n + 2)
  BY <1>1, <1>2, <1>3, <1>4, <1>5, <1>6
<1> QED  BY <1>7 DEF n

-----------------------------------------------------------------------------
(***************************************************************************)
(* The invariant: what an instruction reads is the value its position has, *)
(* and what it writes is the value the next position has.                  *)
(***************************************************************************)
ReadsItsPosition ==
    \A j \in DOMAIN rob :
        rob[j].psrc = {ValueAt(a, j) : a \in ArchSrc(rob[j].op)}

WritesTheNext ==
    \A j \in DOMAIN rob, a \in ArchReg :
        Writes(rob[j].op, a) => LastDest(rob[j], a) = ValueAt(a, j + 1)

SourceInv == TypeOK /\ ReadsItsPosition /\ WritesTheNext

LEMMA SourceCommit ==
    ASSUME SourceInv, Commit
    PROVE  ReadsItsPosition' /\ WritesTheNext'
<1>1. /\ TypeOK /\ Len(rob) \in Nat /\ DOMAIN rob = 1 .. Len(rob)
      /\ DOMAIN rob' = 1 .. Len(rob) - 1
      /\ \A j \in DOMAIN rob' : /\ j \in Nat \ {0} /\ j + 1 \in Nat \ {0}
                                /\ j + 1 \in DOMAIN rob /\ rob'[j] = rob[j + 1]
  BY CommitFacts, RobFacts DEF SourceInv
<1>2. \A a : \A j \in Nat \ {0} : ValueAt(a, j)' = ValueAt(a, j + 1)
  BY <1>1, ValuesCommit
<1>3. ReadsItsPosition'
  <2> SUFFICES ASSUME NEW j \in DOMAIN rob'
               PROVE  rob'[j].psrc = {ValueAt(a, j)' : a \in ArchSrc(rob'[j].op)}
    BY DEF ReadsItsPosition
  <2>1. rob[j + 1].psrc = {ValueAt(a, j + 1) : a \in ArchSrc(rob[j + 1].op)}
    BY <1>1 DEF SourceInv, ReadsItsPosition
  <2> QED  BY <1>1, <1>2, <2>1
<1>4. WritesTheNext'
  <2> SUFFICES ASSUME NEW j \in DOMAIN rob', NEW a \in ArchReg, Writes(rob'[j].op, a)
               PROVE  LastDest(rob'[j], a) = ValueAt(a, j + 1)'
    BY DEF WritesTheNext
  <2>1. LastDest(rob[j + 1], a) = ValueAt(a, (j + 1) + 1)
    BY <1>1 DEF SourceInv, WritesTheNext
  <2>2. ValueAt(a, j + 1)' = ValueAt(a, (j + 1) + 1)
    BY <1>1, <1>2
  <2> QED  BY <1>1, <2>1, <2>2
<1> QED  BY <1>3, <1>4

LEMMA SourceIssue ==
    ASSUME SourceInv, Issue
    PROVE  ReadsItsPosition' /\ WritesTheNext'
<1>1. /\ TypeOK /\ DOMAIN rob' = DOMAIN rob
      /\ \A j \in DOMAIN rob : j \in Nat \ {0} /\ j + 1 \in Nat \ {0}
      /\ rob'[pos] = Execute(rob[pos]) /\ rob[pos] \in Entry
      /\ \A j \in DOMAIN rob : j # pos => rob'[j] = rob[j]
  BY IssueFacts, RobFacts DEF SourceInv
<1>2. \A j \in DOMAIN rob : /\ rob'[j].op = rob[j].op /\ rob'[j].psrc = rob[j].psrc
                            /\ rob'[j].pdest = rob[j].pdest
  BY <1>1, ExecuteFields
<1>3. \A a : \A j \in Nat \ {0} : ValueAt(a, j)' = ValueAt(a, j)
  BY <1>1, ValuesIssue
<1>4. ReadsItsPosition'
  <2> SUFFICES ASSUME NEW j \in DOMAIN rob
               PROVE  rob'[j].psrc = {ValueAt(a, j)' : a \in ArchSrc(rob'[j].op)}
    BY <1>1 DEF ReadsItsPosition
  <2>1. rob[j].psrc = {ValueAt(a, j) : a \in ArchSrc(rob[j].op)}
    BY DEF SourceInv, ReadsItsPosition
  <2> QED  BY <1>1, <1>2, <1>3, <2>1
<1>5. WritesTheNext'
  <2> SUFFICES ASSUME NEW j \in DOMAIN rob, NEW a \in ArchReg, Writes(rob'[j].op, a)
               PROVE  LastDest(rob'[j], a) = ValueAt(a, j + 1)'
    BY <1>1 DEF WritesTheNext
  <2>1. LastDest(rob[j], a) = ValueAt(a, j + 1)
    BY <1>2 DEF SourceInv, WritesTheNext
  <2>2. LastDest(rob'[j], a) = LastDest(rob[j], a)
    BY <1>2 DEF LastDest
  <2> QED  BY <1>1, <1>3, <2>1, <2>2
<1> QED  BY <1>4, <1>5

LEMMA SourceFetch ==
    ASSUME SourceInv, NEW op \in Records, NEW miss \in BOOLEAN, Fetch(op, miss)
    PROVE  ReadsItsPosition' /\ WritesTheNext'
<1> DEFINE n == Len(rob)
           e == NewEntry(op, RenameInstruction(op), miss)
<1>1. /\ TypeOK /\ n \in Nat /\ DOMAIN rob = 1 .. n /\ DOMAIN rob' = 1 .. n + 1
      /\ rob'[n + 1] = e /\ \A j \in 1 .. n : rob'[j] = rob[j]
      /\ Len(rob') = n + 1
      /\ \A j \in 1 .. n : rob[j] \in Entry
  BY FetchFacts, RobFacts DEF SourceInv
<1>2. e.op = op /\ e.psrc = {maptable[a] : a \in ArchSrc(op)}
  BY DEF NewEntry
<1>3. ASSUME NEW a \in ArchReg
      PROVE  /\ \A j \in 1 .. n + 1 : ValueAt(a, j)' = ValueAt(a, j)
             /\ ValueAt(a, n + 1) = maptable[a]
             /\ Writes(op, a) => LastDest(rob'[n + 1], a)
                                    = ValueFrom(rob', Len(rob'), maptable', a, n + 2)
  BY <1>1, ValuesFetch
<1> HIDE DEF n, e
<1>4. ASSUME NEW j \in 1 .. n + 1
      PROVE  rob'[j].psrc = {ValueAt(a, j)' : a \in ArchSrc(rob'[j].op)}
  <2>1. CASE j \in 1 .. n
    <3>1. rob[j].psrc = {ValueAt(a, j) : a \in ArchSrc(rob[j].op)}
      BY <1>1, <2>1 DEF SourceInv, ReadsItsPosition
    <3>2. ArchSrc(rob[j].op) \subseteq ArchReg
      BY <1>1, <2>1, SrcType DEF Entry
    <3>3. \A a \in ArchSrc(rob[j].op) : ValueAt(a, j)' = ValueAt(a, j)
      BY <1>3, <3>2
    <3> QED  BY <1>1, <2>1, <3>1, <3>3
  <2>2. CASE j = n + 1
    <3>1. ArchSrc(op) \subseteq ArchReg
      BY SrcType
    <3>2. \A a \in ArchSrc(op) : ValueAt(a, j)' = maptable[a]
      BY <1>1, <1>3, <2>2, <3>1
    <3> QED  BY <1>1, <1>2, <2>2, <3>2
  <2> QED  BY <1>1, <2>1, <2>2
<1>5. ASSUME NEW j \in 1 .. n + 1, NEW a \in ArchReg, Writes(rob'[j].op, a)
      PROVE  LastDest(rob'[j], a) = ValueFrom(rob', Len(rob'), maptable', a, j + 1)
  <2>1. CASE j \in 1 .. n
    <3>1. LastDest(rob[j], a) = ValueAt(a, j + 1) /\ rob'[j] = rob[j]
      BY <1>1, <1>5, <2>1 DEF SourceInv, WritesTheNext
    <3>2. j + 1 \in 1 .. n + 1
      BY <1>1, <2>1
    <3>3. \A i : ValueAt(a, i)' = ValueFrom(rob', Len(rob'), maptable', a, i)
      BY DEF ValueAt
    <3> QED  BY <1>3, <3>1, <3>2, <3>3
  <2>2. CASE j = n + 1
    <3>1. j + 1 = n + 2
      BY <1>1, <2>2
    <3> QED  BY <1>1, <1>2, <1>3, <1>5, <2>2, <3>1
  <2> QED  BY <1>1, <2>1, <2>2
<1>6. ReadsItsPosition'
  BY <1>1, <1>4 DEF ReadsItsPosition
<1>7. WritesTheNext'
  BY <1>1, <1>5 DEF WritesTheNext, ValueAt
<1> QED  BY <1>6, <1>7

LEMMA SourceInductive == SourceInv /\ [Next]_vars => SourceInv'
<1> SUFFICES ASSUME SourceInv, [Next]_vars PROVE ReadsItsPosition' /\ WritesTheNext'
  BY TypeInductive DEF SourceInv
<1>1. CASE UNCHANGED <<maptable, rob>>
  BY <1>1 DEF SourceInv, ReadsItsPosition, WritesTheNext, ValueAt
<1> QED
  BY <1>1, SourceCommit, SourceIssue, SourceFetch DEF Next, CommitNothing, IssueSkip,
     IssueEnd, FetchUndefined, FetchEndOfTrace, FetchSuspended, FetchNothing,
     Advance, Stopped, vars

LEMMA SourceInit == Init => SourceInv
<1> SUFFICES ASSUME Init PROVE ReadsItsPosition /\ WritesTheNext
  BY TypeInit DEF SourceInv
<1>1. DOMAIN rob = {}
  BY DEF Init
<1> QED  BY <1>1 DEF ReadsItsPosition, WritesTheNext

\* With the youngest older writer there is none between it and j: both ways
\* of SourceOf to name the register agree with the value at j.
LEMMA SourceIsValue ==
    ASSUME SourceInv, NEW j \in DOMAIN rob, NEW a \in ArchReg
    PROVE  SourceOf(j, a) = ValueAt(a, j)
<1> DEFINE n == Len(rob)
           older == Writers(a, 1 .. j - 1)
           later == Writers(a, j .. n)
<1>1. n \in Nat /\ DOMAIN rob = 1 .. n /\ j \in 1 .. n
  BY RobFacts DEF SourceInv
<1>2. \A J, k : k \in Writers(a, J) <=> k \in J /\ Writes(rob[k].op, a)
  BY DEF Writers, Writes
<1>3. WritersIn(rob, a, j .. n) = later
  BY DEF WritersIn, Writers, Writes
<1>4. CASE older = {}
  BY <1>3, <1>4 DEF SourceOf, ValueAt, ValueFrom
<1>5. CASE older # {}
  <2>1. older \subseteq 0 .. j /\ j \in Nat
    BY <1>1, <1>2
  <2>2. PICK k \in older : \A m \in older : m <= k
    BY <1>5, <2>1, GreatestOf
  <2>3. \A l \in older : (\A m \in older : m <= l) => l = k
    BY <2>1, <2>2
  <2>4. Youngest(older) = k
    BY <2>2, <2>3 DEF Youngest
  <2>5. k \in 1 .. j - 1 /\ Writes(rob[k].op, a) /\ k \in DOMAIN rob
    BY <1>1, <1>2
  <2>6. SourceOf(j, a) = ValueAt(a, k + 1)
    BY <1>5, <2>4, <2>5 DEF SourceOf, SourceInv, WritesTheNext
  <2>7. WritersIn(rob, a, k + 1 .. n) = later
    <3>1. \A m \in k + 1 .. n : Writes(rob[m].op, a) => m \in j .. n
      <4> SUFFICES ASSUME NEW m \in k + 1 .. n, Writes(rob[m].op, a), ~ (m \in j .. n)
                   PROVE  FALSE
        OBVIOUS
      <4>1. m \in 1 .. j - 1 /\ ~ (m <= k)
        BY <1>1, <2>5
      <4> QED  BY <1>2, <2>2, <4>1
    <3>2. \A m \in j .. n : m \in k + 1 .. n
      BY <1>1, <2>5
    <3>3. \A m : m \in later <=> m \in j .. n /\ Writes(rob[m].op, a)
      BY <1>2
    <3> QED  BY <3>1, <3>2, <3>3 DEF WritersIn
  <2> QED  BY <1>3, <2>6, <2>7 DEF ValueAt, ValueFrom
<1> QED  BY <1>4, <1>5

\* Renaming keeps the data dependences of the program.
THEOREM SourcesCorrect == Spec => []SourcesFollowProgramOrder
<1>1. SourceInv => SourcesFollowProgramOrder
  <2> SUFFICES ASSUME SourceInv, NEW j \in DOMAIN rob
               PROVE  rob[j].psrc = {SourceOf(j, a) : a \in ArchSrc(rob[j].op)}
    BY DEF SourcesFollowProgramOrder
  <2>1. rob[j].psrc = {ValueAt(a, j) : a \in ArchSrc(rob[j].op)}
    BY DEF SourceInv, ReadsItsPosition
  <2>2. ArchSrc(rob[j].op) \subseteq ArchReg
    BY RobFacts, SrcType DEF SourceInv, Entry
  <2>3. \A a \in ArchSrc(rob[j].op) : SourceOf(j, a) = ValueAt(a, j)
    BY <2>2, SourceIsValue
  <2> QED  BY <2>1, <2>3
<1> QED  BY <1>1, SourceInit, SourceInductive, PTL DEF Spec

-----------------------------------------------------------------------------
(***************************************************************************)
(* Registers that are written.  The register with the value at a position  *)
(* is held, so that no instruction from there on has it as destination.    *)
(***************************************************************************)
DisplacesRegister ==
    \A j \in DOMAIN rob, a \in ArchReg :
        Writes(rob[j].op, a) => FirstFree(rob[j], a) \in PhyReg

OwnDistinct ==
    \A j \in DOMAIN rob : rob[j].pdest[1] # NoReg => rob[j].pdest[1] # rob[j].pdest[2]

WritesFresh ==
    \A a \in ArchReg, j, k \in DOMAIN rob, d \in 1 .. 2 :
        j <= k /\ rob[k].pdest[d] # NoReg => rob[k].pdest[d] # ValueAt(a, j)

FreshInv == /\ Conserved /\ SourceInv
            /\ DisplacesRegister /\ OwnDistinct /\ WritesFresh

\* Every value is in a register that the map table or a pending entry holds.
LEMMA ValueHeld ==
    ASSUME TypeOK, DisplacesRegister, NEW a \in ArchReg, NEW j \in Nat \ {0}
    PROVE  /\ ValueAt(a, j) \in PhyReg
           /\ \/ ValueAt(a, j) = maptable[a]
              \/ \E k \in DOMAIN rob, f \in 1 .. 2 : ValueAt(a, j) = rob[k].pfree[f]
<1> DEFINE n == Len(rob)
<1>1. n \in Nat /\ DOMAIN rob = 1 .. n /\ j \in Nat
  BY RobFacts
<1>2. ASSUME \A m \in j .. n : ~ Writes(rob[m].op, a)
      PROVE  ValueAt(a, j) = maptable[a] /\ maptable[a] \in PhyReg
  <2>1. ValueFrom(rob, n, maptable, a, j) = maptable[a]
    BY <1>1, <1>2, ValueOfNone
  <2> QED  BY <2>1 DEF ValueAt, TypeOK
<1>3. ASSUME NEW k \in j .. n, Writes(rob[k].op, a),
             \A m \in j .. k - 1 : ~ Writes(rob[m].op, a)
      PROVE  /\ ValueAt(a, j) \in PhyReg
             /\ \E l \in DOMAIN rob, f \in 1 .. 2 : ValueAt(a, j) = rob[l].pfree[f]
  <2>1. ValueFrom(rob, n, maptable, a, j) = FirstFree(rob[k], a)
    BY <1>1, <1>3, ValueOfFirst
  <2>2. k \in DOMAIN rob
    BY <1>1
  <2>3. FirstFree(rob[k], a) \in PhyReg
    BY <1>3, <2>2 DEF DisplacesRegister
  <2>4. FirstFree(rob[k], a) = rob[k].pfree[1] \/ FirstFree(rob[k], a) = rob[k].pfree[2]
    BY DEF FirstFree
  <2> QED  BY <2>1, <2>2, <2>3, <2>4 DEF ValueAt
<1>4. \/ \A m \in j .. n : ~ Writes(rob[m].op, a)
      \/ \E k \in j .. n : /\ Writes(rob[k].op, a)
                           /\ \A m \in j .. k - 1 : ~ Writes(rob[m].op, a)
  BY <1>1, FirstOrNone
<1> HIDE DEF n
<1> QED  BY <1>2, <1>3, <1>4

\* The two destinations of an instruction get different registers.
LEMMA RenameDistinct ==
    ASSUME TypeOK, NoSharing, NEW op \in Records, CanRename(op)
    PROVE  LET r == RenameInstruction(op)
           IN  r.pdest[1] # NoReg => r.pdest[1] # r.pdest[2]
<1> DEFINE a1 == ArchDest(op)[1]
           a2 == ArchDest(op)[2]
           r1 == RenameDest(Unrenamed, 1, a1)
           r2 == RenameDest(r1, 2, a2)
<1>1. r2 = RenameInstruction(op)
  BY DEF RenameInstruction
<1>2. /\ Unrenamed.free = freelist /\ Unrenamed.pdest = <<NoReg, NoReg>>
      /\ freelist \in Seq(PhyReg) /\ Len(freelist) \in Nat
      /\ DOMAIN freelist = 1 .. Len(freelist)
      /\ \A i, j \in DOMAIN freelist : freelist[i] = freelist[j] => i = j
  BY LenProperties DEF Unrenamed, TypeOK, NoSharing, Disjoint
<1>3. CASE a1 = NoReg
  <2>1. r1.pdest[1] = NoReg
    BY <1>2, <1>3 DEF RenameDest
  <2>2. r2.pdest[1] = NoReg
    <3>1. CASE a2 = NoReg
      BY <2>1, <3>1 DEF RenameDest
    <3>2. CASE a2 # NoReg
      <4>1. r1 = Unrenamed
        BY <1>3 DEF RenameDest
      <4>2. r2.pdest = [Unrenamed.pdest EXCEPT ![2] = Head(Unrenamed.free)]
        BY <3>2, <4>1 DEF RenameDest
      <4> QED  BY <1>2, <4>2
    <3> QED  BY <3>1, <3>2
  <2> QED  BY <1>1, <2>2
<1>4. CASE a1 # NoReg /\ a2 = NoReg
  <2>1. /\ r1.pdest = [Unrenamed.pdest EXCEPT ![1] = Head(Unrenamed.free)]
        /\ r2.pdest = r1.pdest
    BY <1>4 DEF RenameDest
  <2>2. r2.pdest[1] # NoReg => r2.pdest[1] # r2.pdest[2]
    BY <1>2, <2>1
  <2> QED  BY <1>1, <2>2
<1>5. CASE a1 # NoReg /\ a2 # NoReg
  <2>1. Len(freelist) >= 2 /\ freelist # <<>>
    BY <1>2, <1>5 DEF CanRename
  <2>2. /\ r1.pdest = [Unrenamed.pdest EXCEPT ![1] = Head(freelist)]
        /\ r1.free = Tail(freelist)
    BY <1>2, <1>5 DEF RenameDest
  <2>3. r2.pdest = [r1.pdest EXCEPT ![2] = Head(Tail(freelist))]
    BY <1>5, <2>2 DEF RenameDest
  <2>4. Head(freelist) = freelist[1] /\ Head(Tail(freelist)) = freelist[2]
    <3>1. /\ Tail(freelist) \in Seq(PhyReg) /\ Len(Tail(freelist)) = Len(freelist) - 1
          /\ \A i \in 1 .. Len(freelist) - 1 : Tail(freelist)[i] = freelist[i + 1]
          /\ Head(freelist) = freelist[1]
      BY <1>2, <2>1, HeadTailProperties
    <3>2. Tail(freelist) # <<>>
      BY <1>2, <2>1, <3>1, EmptySeq
    <3>3. Head(Tail(freelist)) = Tail(freelist)[1]
      BY <3>1, <3>2, HeadTailProperties
    <3> QED  BY <1>2, <2>1, <3>1, <3>3
  <2>5. freelist[1] # freelist[2]
    BY <1>2, <2>1
  <2>6. r2.pdest[1] = freelist[1] /\ r2.pdest[2] = freelist[2]
    <3> HIDE DEF r1, r2
    <3>1. r1.pdest = <<freelist[1], NoReg>>
      BY <1>2, <2>2, <2>4
    <3>2. r2.pdest = [r1.pdest EXCEPT ![2] = freelist[2]]
      BY <2>3, <2>4
    <3>3. DOMAIN r1.pdest = 1 .. 2 /\ r1.pdest[1] = freelist[1]
      BY <3>1
    <3> QED  BY <3>2, <3>3
  <2> QED  BY <1>1, <2>5, <2>6
<1> QED  BY <1>3, <1>4, <1>5

LEMMA FreshCommit ==
    ASSUME FreshInv, Commit
    PROVE  DisplacesRegister' /\ OwnDistinct' /\ WritesFresh'
<1>1. /\ TypeOK /\ Len(rob) \in Nat /\ DOMAIN rob = 1 .. Len(rob)
      /\ DOMAIN rob' = 1 .. Len(rob) - 1
      /\ \A j \in DOMAIN rob' : /\ j \in Nat \ {0} /\ j + 1 \in DOMAIN rob
                                /\ rob'[j] = rob[j + 1]
  BY CommitFacts, RobFacts DEF FreshInv, Conserved
<1>2. DisplacesRegister' /\ OwnDistinct'
  BY <1>1 DEF FreshInv, DisplacesRegister, OwnDistinct
<1>3. ASSUME NEW a \in ArchReg, NEW j \in DOMAIN rob', NEW k \in DOMAIN rob',
             NEW d \in 1 .. 2, j <= k, rob'[k].pdest[d] # NoReg
      PROVE  rob'[k].pdest[d] # ValueAt(a, j)'
  <2>1. j + 1 <= k + 1 /\ j + 1 \in DOMAIN rob /\ k + 1 \in DOMAIN rob
    BY <1>1, <1>3
  <2>2. ValueAt(a, j)' = ValueAt(a, j + 1)
    BY <1>1, ValuesCommit
  <2> QED  BY <1>1, <1>3, <2>1, <2>2 DEF FreshInv, WritesFresh
<1> QED  BY <1>2, <1>3 DEF WritesFresh

LEMMA FreshIssue ==
    ASSUME FreshInv, Issue
    PROVE  DisplacesRegister' /\ OwnDistinct' /\ WritesFresh'
<1>1. /\ TypeOK /\ DOMAIN rob' = DOMAIN rob /\ DOMAIN rob \subseteq Nat \ {0}
      /\ rob'[pos] = Execute(rob[pos]) /\ rob[pos] \in Entry
      /\ \A j \in DOMAIN rob : j # pos => rob'[j] = rob[j]
  BY IssueFacts, RobFacts DEF FreshInv, Conserved
<1>2. \A j \in DOMAIN rob : /\ rob'[j].op = rob[j].op
                            /\ rob'[j].pdest = rob[j].pdest /\ rob'[j].pfree = rob[j].pfree
  BY <1>1, ExecuteFields
<1>3. DisplacesRegister' /\ OwnDistinct'
  BY <1>1, <1>2 DEF FreshInv, DisplacesRegister, OwnDistinct, FirstFree
<1>4. \A a : \A j \in DOMAIN rob : ValueAt(a, j)' = ValueAt(a, j)
  BY <1>1, ValuesIssue
<1>5. ASSUME NEW a \in ArchReg, NEW j \in DOMAIN rob', NEW k \in DOMAIN rob',
             NEW d \in 1 .. 2, j <= k, rob'[k].pdest[d] # NoReg
      PROVE  rob'[k].pdest[d] # ValueAt(a, j)'
  BY <1>1, <1>2, <1>4, <1>5 DEF FreshInv, WritesFresh
<1> QED  BY <1>3, <1>5 DEF WritesFresh

LEMMA FreshFetch ==
    ASSUME FreshInv, NEW op \in Records, NEW miss \in BOOLEAN, Fetch(op, miss)
    PROVE  DisplacesRegister' /\ OwnDistinct' /\ WritesFresh'
<1> DEFINE n == Len(rob)
           r == RenameInstruction(op)
           e == NewEntry(op, r, miss)
<1>1. /\ TypeOK /\ n \in Nat /\ DOMAIN rob = 1 .. n /\ DOMAIN rob' = 1 .. n + 1
      /\ rob'[n + 1] = e /\ \A j \in 1 .. n : rob'[j] = rob[j]
      /\ CanRename(op) /\ DOMAIN maptable = ArchReg
  BY FetchFacts, RobFacts DEF FreshInv, Conserved, Fetch, TypeOK
<1>2. e.op = op /\ e.pdest = r.pdest
  BY DEF NewEntry
<1>3. ASSUME NEW a \in ArchReg
      PROVE  /\ Writes(op, a) => FirstFree(e, a) \in PhyReg
             /\ \A j \in 1 .. n + 1 : ValueAt(a, j)' = ValueAt(a, j)
  BY <1>1, RenameValues, ValuesFetch DEF TypeOK
<1>4. r.pdest[1] # NoReg => r.pdest[1] # r.pdest[2]
  BY <1>1, RenameDistinct DEF FreshInv, Conserved
<1>5. \A d \in 1 .. 2 : r.pdest[d] # NoReg => \E i \in DOMAIN freelist : freelist[i] = r.pdest[d]
  BY <1>1, RenameEffect
<1> HIDE DEF n, r, e
<1>6. DisplacesRegister'
  BY <1>1, <1>2, <1>3 DEF FreshInv, DisplacesRegister
<1>7. OwnDistinct'
  BY <1>1, <1>2, <1>4 DEF FreshInv, OwnDistinct
<1>8. ASSUME NEW a \in ArchReg, NEW j \in 1 .. n + 1, NEW k \in 1 .. n + 1,
             NEW d \in 1 .. 2, j <= k, rob'[k].pdest[d] # NoReg
      PROVE  rob'[k].pdest[d] # ValueAt(a, j)'
  <2>1. ValueAt(a, j)' = ValueAt(a, j) /\ j \in Nat \ {0}
    BY <1>1, <1>3
  <2>2. CASE k \in 1 .. n
    BY <1>1, <1>8, <2>1, <2>2 DEF FreshInv, WritesFresh
  <2>3. CASE k = n + 1
    <3>1. PICK i \in DOMAIN freelist : freelist[i] = rob'[k].pdest[d]
      BY <1>1, <1>2, <1>5, <1>8, <2>3
    <3>2. \/ ValueAt(a, j) = maptable[a]
          \/ \E l \in DOMAIN rob, f \in 1 .. 2 : ValueAt(a, j) = rob[l].pfree[f]
      BY <1>1, <2>1, ValueHeld DEF FreshInv
    <3>3. DOMAIN PendingFree = DOMAIN rob /\ \A l \in DOMAIN rob : PendingFree[l] = rob[l].pfree
      BY DEF PendingFree
    <3>4. freelist[i] # ValueAt(a, j)
      BY <1>1, <3>2, <3>3 DEF FreshInv, Conserved, NoSharing, Disjoint
    <3> QED  BY <2>1, <3>1, <3>4
  <2> QED  BY <1>1, <2>2, <2>3
<1> QED  BY <1>1, <1>6, <1>7, <1>8 DEF WritesFresh

LEMMA FreshInductive == FreshInv /\ [Next]_vars => FreshInv'
<1> SUFFICES ASSUME FreshInv, [Next]_vars
             PROVE  DisplacesRegister' /\ OwnDistinct' /\ WritesFresh'
  BY ConservedInductive, SourceInductive DEF FreshInv
<1>1. CASE UNCHANGED <<maptable, rob>>
  BY <1>1 DEF FreshInv, DisplacesRegister, OwnDistinct, WritesFresh, ValueAt
<1> QED
  BY <1>1, FreshCommit, FreshIssue, FreshFetch DEF Next, CommitNothing, IssueSkip,
     IssueEnd, FetchUndefined, FetchEndOfTrace, FetchSuspended, FetchNothing,
     Advance, Stopped, vars

LEMMA FreshInit == Init => FreshInv
<1> SUFFICES ASSUME Init PROVE DisplacesRegister /\ OwnDistinct /\ WritesFresh
  BY ConservedInit, SourceInit DEF FreshInv
<1>1. DOMAIN rob = {}
  BY DEF Init
<1> QED  BY <1>1 DEF DisplacesRegister, OwnDistinct, WritesFresh

-----------------------------------------------------------------------------
(***************************************************************************)
(* The values.  A register has the value of its producer from the cycle on *)
(* in which that is done, and what an issued instruction has read is what  *)
(* its sources still hold.                                                 *)
(***************************************************************************)
Content == [value : Int, from : Nat]
Retired == [op : Records, reads : SUBSET Int]

DataType ==
    /\ content \in [PhyReg -> Content]
    /\ reads \in Seq(SUBSET Int) /\ Len(reads) = Len(rob)
    /\ retired \in Seq(Retired) /\ Len(retired) = totalMicro - Len(rob)

Produced(c, e) ==
    \A d \in 1 .. 2 : e.pdest[d] # NoReg =>
        c[e.pdest[d]] =
            [value |-> ResultOf(e.age, IF e.pdest[d] = e.pdest[2] THEN 2 ELSE 1),
             from |-> e.doneCycle]

LEMMA ProducedFrom ==
    ASSUME NEW c, NEW e, Produced(c, e), NEW d \in 1 .. 2, NEW p,
           e.pdest[d] = p, p # NoReg
    PROVE  /\ c[p].from = e.doneCycle
           /\ c[p].value = ResultOf(e.age, IF p = e.pdest[2] THEN 2 ELSE 1)
<1>1. c[p] = [value |-> ResultOf(e.age, IF p = e.pdest[2] THEN 2 ELSE 1),
                    from |-> e.doneCycle]
  BY DEF Produced
<1> QED  BY <1>1

ResultsInPlace == \A j \in DOMAIN rob : rob[j].issued => Produced(content, rob[j])

OthersSettled ==
    \A p \in PhyReg :
        (\A j \in DOMAIN rob, d \in 1 .. 2 : rob[j].pdest[d] # p)
            => content[p].from <= currentCycle

ReadsKept ==
    \A j \in DOMAIN rob :
        rob[j].issued => reads[j] = {content[p].value : p \in rob[j].psrc}

\* What the proofs of Processor give: the buffer is in order, the scoreboard
\* is right and dependent instructions wait.
MachineInv == OrderInv /\ BoardInv /\ RawOrder /\ FreshInv

DataInv == MachineInv /\ DataType /\ ResultsInPlace /\ OthersSettled /\ ReadsKept

\* A step of Dataflow is a step of Processor.
LEMMA DataStep == [DataNext]_allVars => [Next]_vars
BY DEF DataNext, DataCommit, DataIssue, DataFetch, Next, allVars, dataVars

LEMMA MachineInductive == MachineInv /\ [Next]_vars => MachineInv'
BY OrderStep, BoardInductive, RawOrderInductive, FreshInductive DEF MachineInv

LEMMA MachineInit == Init => MachineInv
BY OrderInit, BoardInit, FreshInit DEF MachineInv, Init, RawOrder

LEMMA MachineType ==
    ASSUME MachineInv
    PROVE  /\ TypeOK /\ Len(rob) \in Nat /\ DOMAIN rob = 1 .. Len(rob)
           /\ currentCycle \in Nat /\ totalMicro \in Nat
           /\ \A j \in DOMAIN rob : /\ rob[j] \in Entry /\ j \in Nat \ {0}
                                    /\ rob[j].psrc \subseteq PhyReg
                                    /\ rob[j].op \in Records
                                    /\ \A d \in 1 .. 2 : rob[j].pdest[d] # NoReg
                                          => rob[j].pdest[d] \in PhyReg
<1>1. /\ TypeOK /\ Len(rob) \in Nat /\ DOMAIN rob = 1 .. Len(rob)
      /\ currentCycle \in Nat /\ totalMicro \in Nat
      /\ \A j \in DOMAIN rob : rob[j] \in Entry /\ j \in Nat \ {0}
  BY RobFacts DEF MachineInv, OrderInv, TypeOK
<1>2. ASSUME NEW e \in Entry
      PROVE  /\ e.psrc \subseteq PhyReg /\ e.op \in Records
             /\ \A d \in 1 .. 2 : e.pdest[d] # NoReg => e.pdest[d] \in PhyReg
  BY DEF Entry
<1> QED  BY <1>1, <1>2

LEMMA DataTypeCommit ==
    ASSUME DataInv, DataCommit
    PROVE  /\ DataType'
           /\ Head(rob) = rob[1] /\ Head(reads) = reads[1]
           /\ DOMAIN reads = DOMAIN rob /\ DOMAIN reads' = DOMAIN rob'
           /\ DOMAIN rob' = 1 .. Len(rob) - 1 /\ 1 \in DOMAIN rob
           /\ \A j \in DOMAIN rob' : /\ rob'[j] = rob[j + 1] /\ reads'[j] = reads[j + 1]
                                     /\ j + 1 \in DOMAIN rob /\ j \in Nat \ {0}
<1>1. /\ TypeOK /\ Len(rob) \in Nat /\ Len(rob) >= 1 /\ DOMAIN rob = 1 .. Len(rob)
      /\ Head(rob) = rob[1] /\ Len(rob') = Len(rob) - 1
      /\ DOMAIN rob' = 1 .. Len(rob) - 1 /\ rob[1].op \in Records
      /\ \A j \in 1 .. Len(rob) - 1 : rob'[j] = rob[j + 1]
      /\ totalMicro \in Nat
  <2>1. MachineInv /\ Commit
    BY DEF DataInv, DataCommit
  <2>2. /\ TypeOK /\ Len(rob) \in Nat /\ DOMAIN rob = 1 .. Len(rob) /\ totalMicro \in Nat
        /\ \A j \in DOMAIN rob : rob[j].op \in Records
    BY <2>1, MachineType
  <2>3. /\ Len(rob) >= 1 /\ Head(rob) = rob[1] /\ Len(rob') = Len(rob) - 1
        /\ DOMAIN rob' = 1 .. Len(rob) - 1
        /\ \A j \in 1 .. Len(rob) - 1 : rob'[j] = rob[j + 1]
    BY <2>1, <2>2, CommitFacts
  <2> QED  BY <2>2, <2>3
<1>2. /\ reads \in Seq(SUBSET Int) /\ reads # <<>> /\ reads' = Tail(reads)
      /\ Len(reads) = Len(rob)
  BY <1>1, EmptySeq DEF DataInv, DataType, DataCommit
<1>3. /\ Head(reads) = reads[1] /\ Head(reads) \in SUBSET Int
      /\ Tail(reads) \in Seq(SUBSET Int) /\ Len(Tail(reads)) = Len(reads) - 1
      /\ \A j \in 1 .. Len(reads) - 1 : Tail(reads)[j] = reads[j + 1]
      /\ DOMAIN reads = 1 .. Len(reads) /\ DOMAIN Tail(reads) = 1 .. Len(reads) - 1
  BY <1>2, HeadTailProperties, LenProperties
<1>4. [op |-> Head(rob).op, reads |-> Head(reads)] \in Retired
  BY <1>1, <1>3 DEF Retired
<1>5. /\ retired' \in Seq(Retired) /\ Len(retired') = Len(retired) + 1
  BY <1>4, AppendProperties DEF DataInv, DataType, DataCommit
<1>6. totalMicro' = totalMicro /\ content' = content
  BY DEF DataCommit, Commit
<1>7. DataType'
  BY <1>1, <1>2, <1>3, <1>5, <1>6 DEF DataInv, DataType
<1> QED  BY <1>1, <1>2, <1>3, <1>7

LEMMA DataCommitInductive ==
    ASSUME DataInv, DataCommit
    PROVE  ResultsInPlace' /\ OthersSettled' /\ ReadsKept'
<1>1. /\ DOMAIN reads = DOMAIN rob /\ 1 \in DOMAIN rob /\ Head(rob) = rob[1]
      /\ DOMAIN rob' = 1 .. Len(rob) - 1 /\ DOMAIN rob = 1 .. Len(rob) /\ Len(rob) \in Nat
      /\ \A j \in DOMAIN rob' : /\ rob'[j] = rob[j + 1] /\ reads'[j] = reads[j + 1]
                                /\ j + 1 \in DOMAIN rob
  BY DataTypeCommit, MachineType DEF DataInv
<1>2. /\ content' = content /\ currentCycle' = currentCycle
      /\ rob[1].issued /\ rob[1].doneCycle <= currentCycle
  BY <1>1 DEF DataCommit, Commit, IsDone
<1>3. ResultsInPlace' /\ ReadsKept'
  BY <1>1, <1>2 DEF DataInv, ResultsInPlace, ReadsKept, Produced
<1>4. ASSUME NEW p \in PhyReg,
             \A j \in DOMAIN rob', d \in 1 .. 2 : rob'[j].pdest[d] # p
      PROVE  content[p].from <= currentCycle
  <2>1. CASE \E d \in 1 .. 2 : rob[1].pdest[d] = p
    <3>1. p # NoReg
      BY DEF PhyReg, NoReg
    <3>2. Produced(content, rob[1])
      BY <1>1, <1>2 DEF DataInv, ResultsInPlace
    <3>3. content[p].from = rob[1].doneCycle
      BY <2>1, <3>1, <3>2, ProducedFrom
    <3> QED  BY <1>2, <3>3
  <2>2. CASE \A d \in 1 .. 2 : rob[1].pdest[d] # p
    <3>1. ASSUME NEW j \in DOMAIN rob, NEW d \in 1 .. 2
          PROVE  rob[j].pdest[d] # p
      <4>1. j = 1 \/ (j - 1 \in DOMAIN rob' /\ (j - 1) + 1 = j)
        BY <1>1
      <4> QED  BY <1>1, <1>4, <2>2, <4>1
    <3> QED  BY <3>1 DEF DataInv, OthersSettled
  <2> QED  BY <2>1, <2>2
<1>5. OthersSettled'
  BY <1>2, <1>4 DEF OthersSettled
<1> QED  BY <1>3, <1>5

\* The operands of the instruction that issues have arrived, and what it
\* writes is the source of no instruction that has issued.
LEMMA OperandsArrived ==
    ASSUME DataInv, Issue, NEW p \in rob[pos].psrc
    PROVE  ReadReg(p) = content[p].value
<1>1. /\ pos \in DOMAIN rob /\ OperandsReady(rob[pos]) /\ p \in PhyReg /\ p # NoReg
      /\ currentCycle \in Nat
  BY IssueFacts, MachineType DEF DataInv, IsReady, PhyReg, NoReg
<1>2. CASE \A j \in DOMAIN rob, d \in 1 .. 2 : rob[j].pdest[d] # p
  BY <1>1, <1>2 DEF DataInv, OthersSettled, ReadReg
<1>3. ASSUME NEW j \in DOMAIN rob, NEW d \in 1 .. 2, rob[j].pdest[d] = p
      PROVE  ReadReg(p) = content[p].value
  <2>1. Remaining(rob[j]) = 0
    BY <1>1, <1>3 DEF OperandsReady, DataInv, MachineInv, BoardInv, ScoreboardExact
  <2>2. rob[j] \in Entry
    BY MachineType DEF DataInv
  <2>3. rob[j].issued /\ rob[j].doneCycle <= currentCycle
    BY <1>1, <2>1, <2>2 DEF Remaining, IsDone, Entry, NoCycle
  <2>4. Produced(content, rob[j])
    BY <2>3 DEF DataInv, ResultsInPlace
  <2>5. content[p].from = rob[j].doneCycle
    BY <1>1, <1>3, <2>4, ProducedFrom
  <2> QED  BY <2>3, <2>5 DEF ReadReg
<1> QED  BY <1>2, <1>3

LEMMA SourcesNotWritten ==
    ASSUME MachineInv, Issue, NEW j \in DOMAIN rob, rob[j].issued \/ j = pos,
           NEW p \in rob[j].psrc, NEW d \in 1 .. 2
    PROVE  rob[pos].pdest[d] # p
<1>1. /\ pos \in DOMAIN rob /\ ~ rob[pos].issued /\ p \in PhyReg /\ p # NoReg
      /\ DOMAIN rob = 1 .. Len(rob) /\ Len(rob) \in Nat
      /\ ArchSrc(rob[j].op) \subseteq ArchReg
  BY IssueFacts, MachineType, SrcType DEF PhyReg, NoReg
<1>2. CASE j <= pos
  <2>1. PICK a \in ArchSrc(rob[j].op) : p = ValueAt(a, j)
    BY DEF MachineInv, FreshInv, SourceInv, ReadsItsPosition
  <2> QED  BY <1>1, <1>2, <2>1 DEF MachineInv, FreshInv, WritesFresh
<1>3. CASE pos < j
  <2>1. j # pos /\ rob[j].issued
    BY <1>1, <1>3
  <2> QED  BY <1>1, <1>3, <2>1 DEF MachineInv, RawOrder, DependsOn
<1> QED  BY <1>1, <1>2, <1>3

LEMMA DataIssueInductive ==
    ASSUME DataInv, DataIssue
    PROVE  /\ DataType' /\ ResultsInPlace' /\ OthersSettled' /\ ReadsKept'
           /\ \A p \in PhyReg : (\A d \in 1 .. 2 : rob[pos].pdest[d] # p)
                 => content'[p] = content[p]
<1> DEFINE e == rob[pos]
           x == Execute(e)
           produced(p) == [value |-> ResultOf(e.age, IF p = e.pdest[2] THEN 2 ELSE 1),
                           from |-> x.doneCycle]
<1>1. /\ MachineInv /\ Issue /\ TypeOK
      /\ Len(rob) \in Nat /\ DOMAIN rob = 1 .. Len(rob)
      /\ currentCycle \in Nat /\ totalMicro \in Nat
      /\ \A j \in DOMAIN rob : /\ rob[j] \in Entry /\ rob[j].psrc \subseteq PhyReg
                               /\ rob[j].op \in Records
  BY MachineType DEF DataInv, DataIssue
<1>2. /\ pos \in DOMAIN rob /\ ~ e.issued /\ rob'[pos] = x
      /\ Len(rob') = Len(rob) /\ DOMAIN rob' = DOMAIN rob
      /\ \A j \in DOMAIN rob : j # pos => rob'[j] = rob[j]
      /\ currentCycle' = currentCycle /\ totalMicro' = totalMicro
  BY <1>1, IssueFacts DEF Issue
<1>3. /\ x.issued /\ x.psrc = e.psrc /\ x.pdest = e.pdest /\ x.age = e.age
      /\ x.doneCycle \in Nat /\ e.age \in Nat
  <2>1. e \in Entry /\ e.op \in Records
    BY <1>1, <1>2
  <2>2. x.doneCycle = currentCycle + Latency(e.op) /\ Latency(e.op) \in Nat
    BY <1>1, <2>1, ExecuteFields, LatencyType
  <2> QED  BY <1>1, <2>1, <2>2, ExecuteFields DEF Entry
<1>4. /\ content \in [PhyReg -> Content] /\ reads \in Seq(SUBSET Int)
      /\ Len(reads) = Len(rob) /\ DOMAIN reads = DOMAIN rob
      /\ retired' = retired
  BY <1>1, LenProperties DEF DataInv, DataType, DataIssue
<1>5. /\ reads' = [reads EXCEPT ![pos] = {ReadReg(p) : p \in e.psrc}]
      /\ content' = [p \in PhyReg |-> IF \E d \in 1 .. 2 : p = e.pdest[d]
                                      THEN produced(p) ELSE content[p]]
  BY DEF DataIssue
<1>6. \A p \in PhyReg : produced(p) \in Content
  BY <1>3 DEF Content, ResultOf
<1> HIDE DEF e, x, produced
<1>7. content' \in [PhyReg -> Content]
  BY <1>4, <1>5, <1>6
<1>8. \A p \in e.psrc : ReadReg(p) = content[p].value
  BY <1>1, OperandsArrived DEF DataInv, e
<1>9. reads' \in Seq(SUBSET Int) /\ Len(reads') = Len(reads)
  <2>1. {ReadReg(p) : p \in e.psrc} \in SUBSET Int
    <3>1. \A p \in e.psrc : p \in PhyReg
      BY <1>1, <1>2 DEF e
    <3> QED  BY <1>4, <1>8, <3>1 DEF Content
  <2> QED  BY <1>2, <1>4, <1>5, <2>1, ExceptSeq
<1>10. DataType'
  BY <1>2, <1>4, <1>7, <1>9 DEF DataInv, DataType
<1>11. \A p \in PhyReg : (\A d \in 1 .. 2 : e.pdest[d] # p) => content'[p] = content[p]
  BY <1>5
<1>12. ASSUME NEW j \in DOMAIN rob, rob'[j].issued
       PROVE  Produced(content', rob'[j])
  <2> SUFFICES ASSUME NEW d \in 1 .. 2, rob'[j].pdest[d] # NoReg
               PROVE  content'[rob'[j].pdest[d]] =
                         [value |-> ResultOf(rob'[j].age, IF rob'[j].pdest[d] = rob'[j].pdest[2]
                                                          THEN 2 ELSE 1),
                          from |-> rob'[j].doneCycle]
    BY DEF Produced
  <2>1. CASE j = pos
    <3> DEFINE p == e.pdest[d]
    <3>1. p # NoReg /\ rob'[j] = x /\ e \in Entry
      BY <1>1, <1>2, <1>3, <2>1 DEF e
    <3>2. p \in PhyReg
      BY <3>1 DEF Entry
    <3>3. content'[p] = produced(p)
      BY <1>5, <3>2
    <3> QED  BY <1>3, <3>1, <3>3 DEF produced
  <2>2. CASE j # pos
    <3>1. rob'[j] = rob[j] /\ rob[j] \in Entry
      BY <1>1, <1>2, <2>2
    <3>2. rob[j].pdest[d] \in PhyReg /\ \A c \in 1 .. 2 : e.pdest[c] # rob[j].pdest[d]
      BY <1>1, <1>2, <2>2, <3>1
         DEF Entry, e, MachineInv, BoardInv, DestInv, DestsDistinct
    <3>3. content'[rob[j].pdest[d]] = content[rob[j].pdest[d]]
      BY <1>11, <3>2
    <3>4. Produced(content, rob[j])
      BY <1>12, <3>1 DEF DataInv, ResultsInPlace
    <3> QED  BY <3>1, <3>3, <3>4 DEF Produced
  <2> QED  BY <2>1, <2>2
<1>13. ResultsInPlace'
  BY <1>2, <1>12 DEF ResultsInPlace
<1>14. OthersSettled'
  <2>1. \A j \in DOMAIN rob : rob'[j].pdest = rob[j].pdest
    BY <1>2, <1>3 DEF e
  <2> SUFFICES ASSUME NEW p \in PhyReg,
                      \A j \in DOMAIN rob, d \in 1 .. 2 : rob[j].pdest[d] # p
               PROVE  content'[p].from <= currentCycle
    BY <1>2, <2>1 DEF OthersSettled
  <2>2. content'[p] = content[p]
    BY <1>2, <1>11 DEF e
  <2> QED  BY <2>2 DEF DataInv, OthersSettled
<1>15. ASSUME NEW j \in DOMAIN rob, rob'[j].issued
       PROVE  reads'[j] = {content'[p].value : p \in rob'[j].psrc}
  <2>1. rob'[j].psrc = rob[j].psrc /\ (rob[j].issued \/ j = pos)
    BY <1>2, <1>3, <1>15 DEF e
  <2>2. \A p \in rob[j].psrc : content'[p] = content[p]
    <3> SUFFICES ASSUME NEW p \in rob[j].psrc PROVE content'[p] = content[p]
      OBVIOUS
    <3>1. \A d \in 1 .. 2 : e.pdest[d] # p
      BY <1>1, <2>1, SourcesNotWritten DEF e
    <3> QED  BY <1>1, <1>11, <3>1
  <2>3. CASE j = pos
    <3>1. reads'[j] = {ReadReg(p) : p \in rob[j].psrc}
      BY <1>2, <1>4, <1>5, <2>3 DEF e
    <3>2. \A p \in rob[j].psrc : ReadReg(p) = content'[p].value
      BY <1>8, <2>2, <2>3 DEF e
    <3> QED  BY <2>1, <3>1, <3>2
  <2>4. CASE j # pos
    <3>1. reads'[j] = reads[j] /\ rob[j].issued
      BY <1>4, <1>5, <2>1, <2>4
    <3>2. reads[j] = {content[p].value : p \in rob[j].psrc}
      BY <3>1 DEF DataInv, ReadsKept
    <3> QED  BY <2>1, <2>2, <3>1, <3>2
  <2> QED  BY <2>3, <2>4
<1>16. ReadsKept'
  BY <1>2, <1>15 DEF ReadsKept
<1> QED  BY <1>10, <1>11, <1>13, <1>14, <1>16 DEF e

LEMMA DataFetchInductive ==
    ASSUME DataInv, NEW op \in Records, NEW miss \in BOOLEAN, DataFetch(op, miss)
    PROVE  DataType' /\ ResultsInPlace' /\ OthersSettled' /\ ReadsKept'
<1> DEFINE n == Len(rob)
           e == NewEntry(op, RenameInstruction(op), miss)
<1>1. /\ TypeOK /\ n \in Nat /\ DOMAIN rob = 1 .. n /\ totalMicro \in Nat
      /\ DOMAIN rob' = 1 .. n + 1 /\ Len(rob') = n + 1 /\ rob'[n + 1] = e
      /\ \A j \in 1 .. n : rob'[j] = rob[j]
  BY MachineType, FetchFacts DEF DataInv, DataFetch
<1>2. /\ content' = content /\ currentCycle' = currentCycle /\ retired' = retired
      /\ totalMicro' = totalMicro + 1 /\ reads' = Append(reads, {})
  BY DEF DataFetch, Fetch
<1>3. ~ e.issued
  BY DEF NewEntry
<1> HIDE DEF e, n
<1>4. /\ reads \in Seq(SUBSET Int) /\ Len(reads) = n /\ {} \in SUBSET Int
  BY DEF DataInv, DataType, n
<1>5. /\ reads' \in Seq(SUBSET Int) /\ Len(reads') = n + 1
      /\ \A j \in 1 .. n : reads'[j] = reads[j]
  BY <1>2, <1>4, AppendProperties
<1>6. DataType'
  <2>1. Len(retired) = totalMicro - n
    BY DEF DataInv, DataType, n
  <2>2. Len(retired) = totalMicro' - Len(rob')
    BY <1>1, <1>2, <2>1
  <2> QED  BY <1>1, <1>2, <1>5, <2>2 DEF DataInv, DataType
<1>7. \A j \in DOMAIN rob' : rob'[j].issued => j \in DOMAIN rob /\ rob'[j] = rob[j]
  BY <1>1, <1>3
<1>8. ResultsInPlace'
  BY <1>2, <1>7 DEF DataInv, ResultsInPlace
<1>9. OthersSettled'
  <2>1. \A j \in DOMAIN rob : j \in DOMAIN rob' /\ rob'[j] = rob[j]
    BY <1>1
  <2> QED  BY <1>2, <2>1 DEF DataInv, OthersSettled
<1>10. ReadsKept'
  BY <1>1, <1>2, <1>5, <1>7 DEF DataInv, ReadsKept
<1> QED  BY <1>6, <1>8, <1>9, <1>10

\* A step that leaves the buffer and the values alone, or lets time pass.
LEMMA DataRestInductive ==
    ASSUME DataInv, UNCHANGED <<rob, totalMicro, content, reads, retired>>,
           currentCycle' \in {currentCycle, currentCycle + 1}
    PROVE  DataType' /\ ResultsInPlace' /\ OthersSettled' /\ ReadsKept'
<1>1. DataType' /\ ResultsInPlace' /\ ReadsKept'
  BY DEF DataInv, DataType, ResultsInPlace, ReadsKept, Produced
<1>2. OthersSettled'
  <2>1. currentCycle \in Nat /\ content \in [PhyReg -> Content]
    BY MachineType DEF DataInv, DataType
  <2>2. \A p \in PhyReg : content[p].from \in Nat
    BY <2>1 DEF Content
  <2>3. \A p \in PhyReg : content[p].from <= currentCycle => content[p].from <= currentCycle'
    BY <2>1, <2>2
  <2> QED  BY <2>3 DEF DataInv, OthersSettled
<1> QED  BY <1>1, <1>2

DataRest == UNCHANGED dataVars /\ UNCHANGED <<rob, maptable, totalMicro>>
               /\ currentCycle' \in {currentCycle, currentCycle + 1}

LEMMA DataCases ==
    ASSUME [DataNext]_allVars
    PROVE  \/ DataCommit \/ DataIssue
           \/ \E op \in Records, miss \in BOOLEAN : DataFetch(op, miss)
           \/ DataRest
BY DEF DataNext, DataRest, allVars, vars, dataVars, Next, CommitNothing, IssueSkip, IssueEnd,
       FetchUndefined, FetchEndOfTrace, FetchSuspended, FetchNothing, Advance, Stopped

LEMMA DataInductive == DataInv /\ [DataNext]_allVars => DataInv'
<1> SUFFICES ASSUME DataInv, [DataNext]_allVars PROVE DataInv'
  OBVIOUS
<1>1. MachineInv'
  BY DataStep, MachineInductive DEF DataInv
<1>2. CASE DataCommit
  BY <1>1, <1>2, DataTypeCommit, DataCommitInductive DEF DataInv
<1>3. CASE DataIssue
  BY <1>1, <1>3, DataIssueInductive DEF DataInv
<1>4. ASSUME NEW op \in Records, NEW miss \in BOOLEAN, DataFetch(op, miss)
      PROVE  DataInv'
  BY <1>1, <1>4, DataFetchInductive DEF DataInv
<1>5. CASE DataRest
  BY <1>1, <1>5, DataRestInductive DEF DataInv, DataRest, dataVars
<1> QED  BY <1>2, <1>3, <1>4, <1>5, DataCases

LEMMA DataInitial == DataInit => DataInv
<1> SUFFICES ASSUME DataInit PROVE DataInv
  OBVIOUS
<1>1. MachineInv /\ rob = <<>> /\ Len(rob) = 0 /\ totalMicro = 0 /\ currentCycle = 0
  BY MachineInit DEF DataInit, Init
<1>2. DataType
  <2>1. content \in [PhyReg -> Content]
    BY DEF DataInit, Content, Stale, PhyReg
  <2>2. /\ reads \in Seq(SUBSET Int) /\ Len(reads) = 0
        /\ retired \in Seq(Retired) /\ Len(retired) = 0
    BY DEF DataInit
  <2>3. totalMicro - Len(rob) = 0
    <3>1. totalMicro = 0 /\ Len(rob) = 0
      BY <1>1
    <3> QED  BY <3>1
  <2> QED  BY <1>1, <2>1, <2>2, <2>3 DEF DataType
<1>3. \A p \in PhyReg : content[p].from = 0
  BY DEF DataInit
<1>4. DOMAIN rob = {}
  BY <1>1
<1> QED
  BY <1>1, <1>2, <1>3, <1>4 DEF DataInv, ResultsInPlace, OthersSettled, ReadsKept

-----------------------------------------------------------------------------
(***************************************************************************)
(* The refinement.  The committed registers are the values at the first    *)
(* position of the buffer; only a commit changes them.                     *)
(***************************************************************************)
Committed(a) == content[ValueAt(a, 1)].value

LEMMA CommittedIsFirst ==
    ASSUME TypeOK
    PROVE  committed = [a \in ArchReg |-> Committed(a)]
<1>1. \A a : CommittedMap(a) = ValueAt(a, 1)
  <2>1. \A a : Writers(a, DOMAIN rob) = WritersIn(rob, a, 1 .. Len(rob))
    BY RobFacts DEF Writers, WritersIn, Writes
  <2> QED  BY <2>1 DEF CommittedMap, ValueAt, ValueFrom
<1> QED  BY <1>1 DEF committed, Committed

LEMMA CommittedIsFirstNext ==
    ASSUME TypeOK'
    PROVE  committed' = [a \in ArchReg |-> Committed(a)']
<1>1. \A a : CommittedMap(a)' = ValueAt(a, 1)'
  <2>1. DOMAIN rob' = 1 .. Len(rob')
    BY LenProperties DEF TypeOK
  <2>2. \A a : Writers(a, DOMAIN rob)' = WritersIn(rob', a, 1 .. Len(rob'))
    BY <2>1 DEF Writers, WritersIn, Writes
  <2> QED  BY <2>2 DEF CommittedMap, ValueAt, ValueFrom
<1> QED  BY <1>1 DEF committed, Committed

\* Retiring the oldest instruction writes its results to its destinations.
LEMMA CommittedByHead ==
    ASSUME DataInv, DataCommit, NEW a \in ArchReg
    PROVE  Committed(a)' =
              IF a = ArchDest(rob[1].op)[2] THEN ResultOf(Len(retired) + 1, 2)
              ELSE IF a = ArchDest(rob[1].op)[1] THEN ResultOf(Len(retired) + 1, 1)
              ELSE Committed(a)
<1> DEFINE e == rob[1]
<1>1. /\ TypeOK /\ Len(rob) \in Nat /\ DOMAIN rob = 1 .. Len(rob) /\ 1 \in DOMAIN rob
      /\ totalMicro \in Nat /\ e \in Entry /\ e.issued
      /\ content' = content
  BY MachineType, DataTypeCommit DEF DataInv, DataCommit, Commit, IsDone
<1>2. ValueAt(a, 1)' = ValueAt(a, 2)
  <2>1. ValueAt(a, 1)' = ValueAt(a, 1 + 1)
    BY <1>1, ValuesCommit DEF DataCommit
  <2> QED  BY <2>1
<1>3. Committed(a)' = content[ValueAt(a, 2)].value
  BY <1>1, <1>2 DEF Committed
<1>4. e.age = Len(retired) + 1
  BY <1>1 DEF DataInv, DataType, MachineInv, OrderInv, AgesConsecutive
<1>5. Writes(e.op, a) <=> a = ArchDest(e.op)[1] \/ a = ArchDest(e.op)[2]
  BY DEF Writes
<1>6. CASE Writes(e.op, a)
  <2>1. LastDest(e, a) = ValueAt(a, 2)
    <3>1. LastDest(e, a) = ValueAt(a, 1 + 1)
      BY <1>1, <1>6 DEF DataInv, MachineInv, FreshInv, SourceInv, WritesTheNext
    <3> QED  BY <3>1
  <2>2. ValueAt(a, 2) \in PhyReg /\ ValueAt(a, 2) # NoReg
    BY <1>1, ValueHeld DEF DataInv, MachineInv, FreshInv, PhyReg, NoReg
  <2>3. Produced(content, e)
    BY <1>1 DEF DataInv, ResultsInPlace
  <2>4. CASE a = ArchDest(e.op)[2]
    <3>1. e.pdest[2] = ValueAt(a, 2)
      BY <2>1, <2>4 DEF LastDest
    <3>2. content[ValueAt(a, 2)].value = ResultOf(e.age, 2)
      BY <2>2, <2>3, <3>1, ProducedFrom
    <3> QED  BY <1>3, <1>4, <2>4, <3>2
  <2>5. CASE a # ArchDest(e.op)[2]
    <3>1. e.pdest[1] = ValueAt(a, 2) /\ a = ArchDest(e.op)[1]
      BY <1>5, <1>6, <2>1, <2>5 DEF LastDest
    <3>2. e.pdest[1] # e.pdest[2]
      BY <1>1, <2>2, <3>1 DEF DataInv, MachineInv, FreshInv, OwnDistinct
    <3>3. content[ValueAt(a, 2)].value = ResultOf(e.age, 1)
      BY <2>2, <2>3, <3>1, <3>2, ProducedFrom
    <3> QED  BY <1>3, <1>4, <2>5, <3>1, <3>3
  <2> QED  BY <2>4, <2>5
<1>7. CASE ~ Writes(e.op, a)
  <2> DEFINE n == Len(rob)
  <2>1. n \in Nat /\ 1 \in Nat /\ 2 \in Nat /\ \A m \in 1 .. n : m = 1 \/ m \in 2 .. n
    BY <1>1
  <2>2. WritersIn(rob, a, 1 .. n) = WritersIn(rob, a, 2 .. n)
    BY <1>7, <2>1 DEF WritersIn
  <2>3. ValueAt(a, 1) = ValueAt(a, 2)
    BY <2>2 DEF ValueAt, ValueFrom
  <2> QED  BY <1>3, <1>5, <1>7, <2>3 DEF Committed
<1> QED  BY <1>6, <1>7

LEMMA CommitRefines ==
    ASSUME DataInv, DataCommit, TypeOK'
    PROVE  \E op \in Records : InOrder!Execute(op)
<1> DEFINE op == rob[1].op
<1>1. /\ TypeOK /\ 1 \in DOMAIN rob /\ op \in Records /\ rob[1].issued
      /\ Head(rob) = rob[1] /\ Head(reads) = reads[1]
      /\ rob[1].psrc = {ValueAt(a, 1) : a \in ArchSrc(op)}
  BY MachineType, DataTypeCommit
     DEF DataInv, DataCommit, Commit, IsDone, MachineInv, FreshInv, SourceInv, ReadsItsPosition
<1>2. retired' = Append(retired, [op |-> op, reads |-> reads[1]])
  BY <1>1 DEF DataCommit
<1>3. reads[1] = {committed[a] : a \in ArchSrc(op)}
  <2>1. reads[1] = {content[p].value : p \in rob[1].psrc}
    BY <1>1 DEF DataInv, ReadsKept
  <2>2. reads[1] = {Committed(a) : a \in ArchSrc(op)}
    BY <1>1, <2>1 DEF Committed
  <2>3. ArchSrc(op) \subseteq ArchReg
    BY <1>1, SrcType
  <2>4. \A a \in ArchSrc(op) : committed[a] = Committed(a)
    BY <1>1, <2>3, CommittedIsFirst
  <2> QED  BY <2>2, <2>4
<1>4. committed' = [a \in ArchReg |->
                       IF a = ArchDest(op)[2] THEN ResultOf(Len(retired) + 1, 2)
                       ELSE IF a = ArchDest(op)[1] THEN ResultOf(Len(retired) + 1, 1)
                       ELSE committed[a]]
  <2>1. \A a \in ArchReg : committed[a] = Committed(a)
    BY <1>1, CommittedIsFirst
  <2> QED  BY <2>1, CommittedIsFirstNext, CommittedByHead
<1> HIDE DEF op
<1> QED  BY <1>1, <1>2, <1>3, <1>4 DEF InOrder!Execute

LEMMA RestRefines ==
    ASSUME DataInv, [DataNext]_allVars, TypeOK', ~ DataCommit
    PROVE  UNCHANGED <<committed, retired>>
<1>1. TypeOK /\ Len(rob) \in Nat /\ 1 \in Nat \ {0}
  BY MachineType DEF DataInv
<1> SUFFICES retired' = retired /\ \A a \in ArchReg : Committed(a)' = Committed(a)
  BY <1>1, CommittedIsFirst, CommittedIsFirstNext
<1>2. CASE DataIssue
  <2>1. MachineInv /\ Issue /\ pos \in DOMAIN rob /\ 1 <= pos /\ 1 \in DOMAIN rob
    BY <1>1, <1>2, IssueFacts, RobFacts DEF DataInv, DataIssue
  <2>2. ASSUME NEW a \in ArchReg
        PROVE  Committed(a)' = Committed(a)
    <3> DEFINE p == ValueAt(a, 1)
    <3>1. p' = p
      BY <1>1, <2>1, ValuesIssue
    <3>2. p \in PhyReg /\ p # NoReg
      BY <1>1, ValueHeld DEF DataInv, MachineInv, FreshInv, PhyReg, NoReg
    <3>3. \A d \in 1 .. 2 : rob[pos].pdest[d] # p
      BY <2>1, <3>2 DEF MachineInv, FreshInv, WritesFresh
    <3>4. content'[p] = content[p]
      BY <1>2, <3>2, <3>3, DataIssueInductive
    <3> QED  BY <3>1, <3>4 DEF Committed
  <2> QED  BY <1>2, <2>2 DEF DataIssue
<1>3. ASSUME NEW op \in Records, NEW miss \in BOOLEAN, DataFetch(op, miss)
      PROVE  retired' = retired /\ \A a \in ArchReg : Committed(a)' = Committed(a)
  <2>1. 1 \in 1 .. Len(rob) + 1
    BY <1>1
  <2>2. \A a \in ArchReg : ValueAt(a, 1)' = ValueAt(a, 1)
    BY <1>1, <1>3, <2>1, ValuesFetch DEF DataFetch
  <2> QED  BY <1>3, <2>2 DEF Committed, DataFetch
<1>4. CASE DataRest
  BY <1>4 DEF DataRest, dataVars, Committed, ValueAt
<1> QED  BY <1>2, <1>3, <1>4, DataCases

\* The pipeline implements the sequential machine.
THEOREM PipelineImplementsSequential == DataSpec => ImplementsSequential
<1>1. DataInit => InOrder!Init
  <2> SUFFICES ASSUME DataInit PROVE InOrder!Init
    OBVIOUS
  <2>1. /\ rob = <<>> /\ maptable = [a \in ArchReg |-> a] /\ retired = <<>>
        /\ content = [p \in PhyReg |-> [value |-> IF p \in ArchReg THEN -1 - p ELSE Stale,
                                        from |-> 0]]
    BY DEF DataInit, Init
  <2>2. ArchReg \subseteq PhyReg
    BY SizesAssumption DEF ArchReg, PhyReg
  <2>3. \A a \in ArchReg : CommittedMap(a) = a
    BY <2>1 DEF CommittedMap, Writers
  <2>4. \A a \in ArchReg : content[CommittedMap(a)].value = -1 - a
    BY <2>1, <2>2, <2>3
  <2> QED  BY <2>1, <2>4 DEF InOrder!Init, InOrder!InitialValue, committed
<1>2. DataInv /\ DataInv' /\ [DataNext]_allVars => [InOrder!Next]_<<committed, retired>>
  <2> SUFFICES ASSUME DataInv, TypeOK', [DataNext]_allVars
               PROVE  [InOrder!Next]_<<committed, retired>>
    BY DEF DataInv, MachineInv, OrderInv
  <2>1. CASE DataCommit
    BY <2>1, CommitRefines DEF InOrder!Next
  <2>2. CASE ~ DataCommit
    BY <2>2, RestRefines
  <2> QED  BY <2>1, <2>2
<1>3. DataSpec => []DataInv
  BY DataInitial, DataInductive, PTL DEF DataSpec
<1> QED  BY <1>1, <1>2, <1>3, PTL DEF DataSpec, ImplementsSequential, InOrder!Spec

-----------------------------------------------------------------------------
(***************************************************************************)
(* The delay of a misprediction.  Unless fetch waits for the branch to     *)
(* issue, the countdown is what remains of the delay when fetch() next     *)
(* starts: in this cycle, or in the next one when it has run already.      *)
(***************************************************************************)
NextFetch == IF stage = "advance" THEN currentCycle + 1 ELSE currentCycle

Countdown ==
    ins /\ nFetchReady >= 0 =>
        nFetchReady = IF resumeAt > NextFetch THEN resumeAt - NextFetch ELSE 0

DelayInv == /\ TypeOK /\ Suspension /\ resumeAt \in Nat /\ Countdown

LEMMA DelayInductive == DelayInv /\ [DataNext]_allVars => DelayInv'
<1> SUFFICES ASSUME DelayInv, [DataNext]_allVars
             PROVE  resumeAt' \in Nat /\ Countdown'
  BY DataStep, TypeInductive, SuspensionInductive DEF DelayInv
<1>1. /\ TypeOK /\ currentCycle \in Nat /\ nFetchReady \in Int /\ resumeAt \in Nat
      /\ exp # 4 => nFetchReady = 0
      /\ ins \in BOOLEAN
  BY DEF DelayInv, TypeOK, Suspension
<1>2. CASE DataCommit
  <2>1. /\ stage = "commit" /\ stage' \in {"commit", "issue"}
        /\ UNCHANGED <<currentCycle, nFetchReady, ins, resumeAt>>
    BY <1>2 DEF DataCommit, Commit, NextIteration
  <2> QED  BY <1>1, <2>1 DEF DelayInv, Countdown, NextFetch
<1>3. CASE DataIssue
  <2> DEFINE e == rob[pos]
  <2>1. /\ stage = "issue" /\ stage' \in {"issue", "fetch"}
        /\ UNCHANGED <<currentCycle, ins>>
        /\ nFetchReady' = IF e.mispredicted THEN Latency(e.op) + 4 ELSE nFetchReady
        /\ resumeAt' = IF e.mispredicted THEN currentCycle + Latency(e.op) + 4 ELSE resumeAt
    BY <1>3 DEF DataIssue, Issue, Leave, RestartFetch
  <2>2. Latency(e.op) \in Nat /\ Latency(e.op) >= 1
    <3>1. e \in Entry
      BY <1>1, <1>3, IssueFacts DEF DataIssue
    <3> QED  BY <3>1, LatencyType DEF Entry
  <2> HIDE DEF e
  <2> QED  BY <1>1, <2>1, <2>2 DEF DelayInv, Countdown, NextFetch
<1>4. ASSUME NEW op \in Records, NEW miss \in BOOLEAN, DataFetch(op, miss)
      PROVE  resumeAt' \in Nat /\ Countdown'
  <2>1. /\ stage = "fetch" /\ stage' \in {"fetch", "advance"} /\ ins /\ nFetchReady = 0
        /\ UNCHANGED <<currentCycle, ins, resumeAt>>
        /\ nFetchReady' \in {-1, 0}
    BY <1>1, <1>4 DEF DataFetch, Fetch, FetchGuard, NextIteration, SuspendFetch
  <2> QED  BY <1>1, <2>1 DEF DelayInv, Countdown, NextFetch
<1>5. CASE resumeAt' = resumeAt /\ FetchSuspended
  <2>1. /\ stage = "fetch" /\ stage' = "advance" /\ nFetchReady # 0
        /\ nFetchReady' = nFetchReady - 1
        /\ UNCHANGED <<currentCycle, ins>>
    BY <1>5 DEF FetchSuspended, Leave
  <2> QED  BY <1>1, <1>5, <2>1 DEF DelayInv, Countdown, NextFetch
<1>6. CASE resumeAt' = resumeAt /\ FetchNothing
  <2>1. /\ stage = "fetch" /\ stage' = "advance" /\ (ins => nFetchReady = 0)
        /\ UNCHANGED <<currentCycle, ins, nFetchReady>>
    BY <1>1, <1>6 DEF FetchNothing, Leave
  <2> QED  BY <1>1, <1>6, <2>1 DEF DelayInv, Countdown, NextFetch
<1>7. CASE resumeAt' = resumeAt /\ FetchEndOfTrace
  <2>1. ~ ins'
    BY <1>7 DEF FetchEndOfTrace
  <2> QED  BY <1>1, <1>7, <2>1 DEF Countdown
<1>8. CASE resumeAt' = resumeAt /\ Advance
  <2>1. /\ stage = "advance" /\ stage' # "advance" /\ currentCycle' = currentCycle + 1
        /\ UNCHANGED <<ins, nFetchReady>>
    BY <1>8 DEF Advance, Leave
  <2> QED  BY <1>1, <1>8, <2>1 DEF DelayInv, Countdown, NextFetch
<1>9. CASE /\ UNCHANGED <<resumeAt, currentCycle, nFetchReady, ins>>
           /\ stage # "advance" /\ stage' # "advance"
  BY <1>1, <1>9 DEF DelayInv, Countdown, NextFetch
<1>10. CASE UNCHANGED <<resumeAt, currentCycle, nFetchReady, ins, stage>>
  BY <1>1, <1>10 DEF DelayInv, Countdown, NextFetch
<1>11. ASSUME CommitNothing \/ IssueSkip \/ IssueEnd
                \/ \E op \in Records : FetchUndefined(op)
       PROVE  /\ UNCHANGED <<currentCycle, nFetchReady, ins>>
              /\ stage # "advance" /\ stage' # "advance"
  BY <1>11 DEF CommitNothing, IssueSkip, IssueEnd, FetchUndefined, FetchGuard,
     NextIteration, Leave
<1> QED
  BY <1>2, <1>3, <1>4, <1>5, <1>6, <1>7, <1>8, <1>9, <1>10, <1>11
     DEF DataNext, Stopped, allVars, dataVars, vars

\* Exp4Processor suspends fetch for a misprediction until the branch is done
\* and four more cycles have passed, no more and no less.
THEOREM DelayTheorem == DataSpec => []DelayIsExact
<1>1. DataInit => DelayInv
  BY TypeInit DEF DataInit, Init, DelayInv, Suspension, SuspendedByMisprediction,
     Countdown, NextFetch
<1>2. DelayInv => DelayIsExact
  <2> SUFFICES ASSUME DelayInv, stage = "fetch", ins
               PROVE  nFetchReady # 0 <=>
                         \/ \E j \in DOMAIN rob : rob[j].mispredicted /\ ~ rob[j].issued
                         \/ currentCycle < resumeAt
    BY DEF DelayIsExact
  <2>1. /\ currentCycle \in Nat /\ resumeAt \in Nat /\ nFetchReady \in Int
        /\ rob # <<>> => Len(rob) \in DOMAIN rob
    BY RobFacts, EmptySeq DEF DelayInv, TypeOK
  <2>2. nFetchReady < 0 <=> \E j \in DOMAIN rob : rob[j].mispredicted /\ ~ rob[j].issued
    BY <2>1 DEF DelayInv, Suspension, SuspendedByMisprediction
  <2>3. nFetchReady >= 0 =>
           nFetchReady = IF resumeAt > currentCycle THEN resumeAt - currentCycle ELSE 0
    BY DEF DelayInv, Countdown, NextFetch
  <2>4. CASE nFetchReady < 0
    BY <2>1, <2>2, <2>4
  <2>5. CASE nFetchReady >= 0
    <3>1. nFetchReady # 0 <=> currentCycle < resumeAt
      BY <2>1, <2>3, <2>5
    <3>2. ~ \E j \in DOMAIN rob : rob[j].mispredicted /\ ~ rob[j].issued
      BY <2>1, <2>2, <2>5
    <3> QED  BY <3>1, <3>2
  <2> QED  BY <2>1, <2>4, <2>5
<1> QED  BY <1>1, <1>2, DelayInductive, PTL DEF DataSpec
=============================================================================

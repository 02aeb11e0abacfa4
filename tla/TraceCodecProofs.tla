-------------------------- MODULE TraceCodecProofs --------------------------
(***************************************************************************)
(* The decompressed trace is the original one, for every size of the table *)
(* and of the stack and every set of branches.  The argument is that both  *)
(* processes are in the same state between records, so that the way that   *)
(* one finds is the branch that the other reads, and update it alike.      *)
(* What the table holds of the past follows from the times of its entries. *)
(***************************************************************************)
EXTENDS TraceCodec, SequenceTheorems, FiniteSetTheorems, WellFoundedInduction, TLAPS

-----------------------------------------------------------------------------
(***************************************************************************)
(* Arithmetic of unsigned ints.                                            *)
(***************************************************************************)
LEMMA SmallMod == \A x \in Address : x % Word = x
  BY TableAssumption DEF Address

LEMMA CarryMod == \A x \in Word .. 2 * Word - 1 : x % Word = x - Word
  BY TableAssumption

LEMMA BorrowMod == \A x \in -Word .. -1 : x % Word = x + Word
  BY TableAssumption

LEMMA ModInAddress == \A x \in Int : x % Word \in Address
  BY TableAssumption DEF Address

\* Adding an offset on one side is subtracting it on the other, which is how
\* the two directions compare a return address.
LEMMA OffsetMoves ==
    ASSUME NEW a \in Address, NEW b \in Address, NEW k \in 0 .. 3
    PROVE  /\ (a + k) % Word = b <=> a = (b - k) % Word
           /\ (a - k) % Word = b <=> a = (b + k) % Word
<1>1. /\ (a + k) % Word = IF a + k < Word THEN a + k ELSE a + k - Word
      /\ (b + k) % Word = IF b + k < Word THEN b + k ELSE b + k - Word
  BY SmallMod, CarryMod, TableAssumption DEF Address
<1>2. /\ (a - k) % Word = IF a >= k THEN a - k ELSE a - k + Word
      /\ (b - k) % Word = IF b >= k THEN b - k ELSE b - k + Word
  BY SmallMod, BorrowMod, TableAssumption DEF Address
<1> QED
  BY <1>1, <1>2, TableAssumption DEF Address
-----------------------------------------------------------------------------
(***************************************************************************)
(* Types.  A bounded state has no more return addresses than fit.          *)
(***************************************************************************)
Bounded == {s \in State : Len(s.ras) <= RasSize}

LEMMA TopRasType == \A ras \in Seq(Address) : TopRas(ras) \in Address
  BY HeadTailProperties, TableAssumption DEF TopRas, Address

LEMMA PopRasType ==
    ASSUME NEW ras \in Seq(Address), Len(ras) <= RasSize
    PROVE  PopRas(ras) \in Seq(Address) /\ Len(PopRas(ras)) <= RasSize
  BY HeadTailProperties, TableAssumption DEF PopRas

LEMMA PushRasType ==
    ASSUME NEW ras \in Seq(Address), Len(ras) <= RasSize, NEW a \in Address
    PROVE  PushRas(ras, a) \in Seq(Address) /\ Len(PushRas(ras, a)) <= RasSize
<1>1. <<a>> \in Seq(Address) /\ Len(<<a>>) = 1
  OBVIOUS
<1>2. <<a>> \o ras \in Seq(Address) /\ Len(<<a>> \o ras) = 1 + Len(ras)
  BY <1>1, ConcatProperties
<1>3. Len(ras) \in Nat
  OBVIOUS
<1> QED  BY <1>2, <1>3, TableAssumption DEF PushRas

LEMMA StartType == Start \in Bounded
<1>1. Blank \in Entry
  BY TableAssumption DEF Blank, Entry, Address
<1>2. EmptyTable \in [0 .. NRemember - 1 -> [Way -> Entry]]
  BY <1>1 DEF EmptyTable
<1>3. <<>> \in Seq(Address) /\ Len(<<>>) <= RasSize
  BY TableAssumption
<1> QED  BY <1>2, <1>3, TableAssumption DEF Start, Bounded, State, Address

LEMMA PopReturnType ==
    ASSUME NEW s \in Bounded, NEW r \in Branch, NEW correct \in BOOLEAN
    PROVE  /\ PopReturn(s, r, correct) \in Bounded
           /\ PredictedSet(PopReturn(s, r, correct)) = PredictedSet(s)
<1>1. /\ PopRas(s.ras) \in Seq(Address) /\ Len(PopRas(s.ras)) <= RasSize
      /\ <<>> \in Seq(Address) /\ Len(<<>>) <= RasSize
  BY PopRasType, TableAssumption DEF Bounded, State
<1> QED  BY <1>1 DEF PopReturn, Bounded, State, PredictedSet, PredictRemember

LEMMA AfterClassType ==
    ASSUME NEW s \in Bounded, NEW r \in Branch
    PROVE  AfterClass(s, r) \in Bounded
<1>1. s.ras \in Seq(Address) /\ Len(s.ras) <= RasSize
  BY DEF Bounded, State
<1>2. (r.address + 5) % Word \in Address /\ (r.address + 2) % Word \in Address
  BY ModInAddress DEF Branch, Address
<1>3. \A a \in Address : PushRas(s.ras, a) \in Seq(Address) /\ Len(PushRas(s.ras, a)) <= RasSize
  BY <1>1, PushRasType
<1> DEFINE stack == CASE ClassOf(r.code) = Call -> PushRas(s.ras, (r.address + 5) % Word)
                      [] ClassOf(r.code) = IndirectCall -> PushRas(s.ras, (r.address + 2) % Word)
                      [] OTHER -> s.ras
<1>4. stack \in Seq(Address) /\ Len(stack) <= RasSize
  BY <1>1, <1>2, <1>3
<1> QED  BY <1>4 DEF AfterClass, Bounded, State

LEMMA StoreType ==
    ASSUME NEW s \in Bounded, NEW w, NEW e \in Entry, NEW target \in Address
    PROVE  Store(s, w, e, target) \in Bounded
<1>1. [e EXCEPT !.lruTime = s.now] \in Entry /\ (s.now + 1) % Word \in Address
  <2>1. s.now \in Address /\ s.now \in Int
    BY DEF Bounded, State, Address
  <2>2. [e EXCEPT !.lruTime = s.now] \in Entry
    BY <2>1 DEF Entry
  <2> QED
    BY <2>1, <2>2, ModInAddress
<1>2. [s.rtab EXCEPT ![PredictRemember(s)][w] = [e EXCEPT !.lruTime = s.now]]
         \in [0 .. NRemember - 1 -> [Way -> Entry]]
  BY <1>1 DEF Bounded, State
<1> QED  BY <1>1, <1>2 DEF Store, Bounded, State

LEMMA PredictedSetType ==
    ASSUME NEW s \in Bounded
    PROVE  PredictedSet(s) \in [Way -> Entry]
<1>1. PredictRemember(s) \in 0 .. NRemember - 1
  BY TableAssumption DEF PredictRemember, Bounded, State, Address
<1> QED  BY <1>1 DEF PredictedSet, Bounded, State

LEMMA UpdateType ==
    ASSUME NEW s \in Bounded, NEW r \in Branch
    PROVE  /\ UpdateMissed(s, r) \in Bounded
           /\ \A w \in Way : UpdateFound(s, w, r) \in Bounded
<1>1. [code |-> r.code, address |-> r.address, target |-> r.target, lruTime |-> 0] \in Entry
  BY TableAssumption DEF Branch, Entry, Address
<1>2. r.target \in Address
  BY DEF Branch
<1> QED  BY <1>1, <1>2, StoreType, PredictedSetType DEF UpdateMissed, UpdateFound
-----------------------------------------------------------------------------
(***************************************************************************)
(* One record.                                                             *)
(***************************************************************************)
\* A search that succeeds yields a way that holds the branch.
LEMMA SearchFinds ==
    ASSUME NEW s, NEW r, Found(s, r) # {}
    PROVE  SearchRemember(s, r) \in Found(s, r)
<1> DEFINE F == Found(s, r)
<1>1. F \subseteq 0 .. 7 /\ F # {}
  BY TableAssumption DEF Found, Way
<1> HIDE DEF F
<1>2. \E w \in F : \A v \in F : w <= v
  <2>1. CASE 0 \in F \/ 1 \in F \/ 2 \in F \/ 3 \in F
    BY <1>1, <2>1
  <2>2. CASE ~ (0 \in F \/ 1 \in F \/ 2 \in F \/ 3 \in F)
    <3>1. \A v \in F : v \in 0 .. 7 /\ v # 0 /\ v # 1 /\ v # 2 /\ v # 3
      BY <1>1, <2>2
    <3>2. \A v \in F : v = 4 \/ v = 5 \/ v = 6 \/ v = 7
      BY <3>1
    <3>3. CASE 4 \in F \/ 5 \in F
      BY <3>2, <3>3
    <3>4. CASE 4 \notin F /\ 5 \notin F
      <4>1. \A v \in F : v = 6 \/ v = 7
        BY <3>2, <3>4
      <4>2. CASE 6 \in F
        BY <4>1, <4>2
      <4>3. CASE 6 \notin F
        <5>1. PICK x \in F : TRUE
          BY <1>1
        <5>2. \A v \in F : v = 7
          BY <4>1, <4>3
        <5> QED  BY <5>1, <5>2
      <4> QED  BY <4>2, <4>3
    <3> QED  BY <3>3, <3>4
  <2> QED  BY <2>1, <2>2
<1> QED  BY <1>2 DEF SearchRemember, F

\* The two directions keep the return stack on the same returns.
LEMMA SameReturnsKept ==
    ASSUME NEW s \in Bounded, NEW r \in Branch, r.code = Return
    PROVE  ReturnKept(s, r) <=> RasCorrect(s, r)
<1>1. TopRas(s.ras) \in Address /\ r.target \in Address
  BY TopRasType DEF Bounded, State, Branch
<1>2. /\ (TopRas(s.ras) + 2) % Word = r.target <=> TopRas(s.ras) = (r.target - 2) % Word
      /\ (TopRas(s.ras) - 3) % Word = r.target <=> TopRas(s.ras) = (r.target + 3) % Word
  BY <1>1, OffsetMoves
<1> QED
  BY <1>2 DEF ReturnKept, RasCorrect, Patches, Patched, OffBy2, OffBy3

\* The patch that is written restores the return address.
LEMMA PatchRestores ==
    ASSUME NEW s, NEW r, RasCorrect(s, r)
    PROVE  Patched(TopRas(s.ras), PatchFor(s, r)) = r.target /\ PatchFor(s, r) \in Patches
  BY DEF RasCorrect, Patches, Patched, PatchFor, OffBy2, OffBy3

\* A branch found in the table is read back from the way that is written.
LEMMA FoundIsRead ==
    ASSUME NEW s \in Bounded, NEW r \in Branch, Found(s, r) # {},
           NEW c, c = SearchRemember(s, r) + (IF RasCorrect(s, r) THEN Assoc ELSE 0),
           NEW patch, RasCorrect(s, r) => patch = PatchFor(s, r)
    PROVE  /\ c \in 0 .. 15 /\ IsWay(c)
           /\ FromTable(s, c, patch) = r
           /\ AfterFromTable(s, c, r) = AfterCompress(s, r)
<1> DEFINE w == SearchRemember(s, r)
           e == PredictedSet(s)[w]
<1>1. w \in Way /\ Equal(e, r, RasCorrect(s, r))
  BY SearchFinds DEF Found
<1>2. RasCorrect(s, r) \in BOOLEAN
  BY DEF RasCorrect
<1> HIDE DEF w
<1>3. /\ c \in 0 .. 15 /\ IsWay(c) /\ WayOf(c) = w
      /\ (c >= Assoc) <=> RasCorrect(s, r)
  BY <1>1, <1>2, TableAssumption DEF IsWay, WayOf, Way, w
<1>4. FromTable(s, c, patch) = r
  <2>1. /\ e.code = r.code /\ e.address = r.address
        /\ ~ RasCorrect(s, r) => e.target = r.target
    BY <1>1 DEF Equal
  <2>2. RasCorrect(s, r) => r.code = Return /\ Patched(TopRas(s.ras), patch) = r.target
    BY PatchRestores DEF RasCorrect
  <2>3. (IF e.code = Return /\ c >= Assoc THEN Patched(TopRas(s.ras), patch) ELSE e.target)
           = r.target
    BY <1>3, <2>1, <2>2
  <2>4. r = [code |-> r.code, address |-> r.address, target |-> r.target]
    BY DEF Branch
  <2> QED  BY <1>3, <2>1, <2>3, <2>4 DEF FromTable
<1>5. AfterFromTable(s, c, r) = AfterCompress(s, r)
  BY <1>3 DEF AfterFromTable, AfterCompress, w, PopReturn
<1> QED  BY <1>3, <1>4, <1>5

\* A branch that is not found is written in full, and both directions miss.
LEMMA InFullIsRead ==
    ASSUME NEW s \in Bounded, NEW r \in Branch, Found(s, r) = {}
    PROVE  /\ ~ IsWay(r.code) /\ r.code < 128
           /\ r = [code |-> r.code, address |-> r.address, target |-> r.target]
           /\ AfterInFull(s, r) = AfterCompress(s, r)
<1>1. r.code < 128 /\ ~ IsWay(r.code)
  BY TableAssumption DEF Branch, Code, IsWay
<1>2. PopReturn(s, r, ReturnKept(s, r)) = PopReturn(s, r, RasCorrect(s, r))
  BY SameReturnsKept DEF PopReturn
<1> QED  BY <1>1, <1>2 DEF AfterInFull, AfterCompress, Branch

LEMMA AfterCompressType ==
    ASSUME NEW s \in Bounded, NEW r \in Branch
    PROVE  AfterCompress(s, r) \in Bounded
<1> DEFINE popped == PopReturn(s, r, RasCorrect(s, r))
<1>1. popped \in Bounded
  BY PopReturnType DEF RasCorrect
<1>2. Found(s, r) # {} => SearchRemember(s, r) \in Way
  BY SearchFinds DEF Found
<1> HIDE DEF popped
<1> DEFINE updated == IF Found(s, r) = {} THEN UpdateMissed(popped, r)
                      ELSE UpdateFound(popped, SearchRemember(s, r), r)
<1>3. updated \in Bounded
  BY <1>1, <1>2, UpdateType
<1> QED  BY <1>3, AfterClassType DEF AfterCompress, popped
-----------------------------------------------------------------------------
(***************************************************************************)
(* The inductive invariant: between two records the processes agree, and   *)
(* what is in the pipe is one record, that the compressing process wrote   *)
(* from the state in which the other one will read it.                     *)
(***************************************************************************)
Between == pipe = <<>> /\ dec = enc /\ received = sent

Underway(n, r) ==
    /\ pipe = CountItems(n) \o Compressed(dec, r)
    /\ enc = AfterCompress(dec, r)
    /\ sent = Append(received, r)

IInv ==
    /\ enc \in Bounded /\ dec \in Bounded
    /\ received \in Seq(Branch)
    /\ aborted = FALSE
    /\ \/ Between
       \/ \E r \in Branches, n \in Counts \cup {NoCount} : Underway(n, r)

\* The shape of what a record is written as.
LEMMA CompressedItems ==
    ASSUME NEW s \in Bounded, NEW r \in Branch
    PROVE  /\ Compressed(s, r) \in Seq(Nat) /\ Len(Compressed(s, r)) > 0
           /\ Compressed(s, r)[1] # InstCount
<1>1. CASE Found(s, r) = {}
  <2>1. r.code \in 16 .. 127 /\ r.address \in Nat /\ r.target \in Nat
    BY TableAssumption DEF Branch, Code, Address
  <2>2. Compressed(s, r) = <<r.code, r.address, r.target>>
    BY <1>1 DEF Compressed
  <2> QED  BY <2>1, <2>2 DEF InstCount
<1>2. CASE Found(s, r) # {}
  <2> DEFINE c == SearchRemember(s, r) + (IF RasCorrect(s, r) THEN Assoc ELSE 0)
  <2>1. c \in 0 .. 15
    <3>1. RasCorrect(s, r) => PatchFor(s, r) = PatchFor(s, r)
      OBVIOUS
    <3> QED  BY <1>2, <3>1, FoundIsRead
  <2>2. RasCorrect(s, r) => PatchFor(s, r) \in {0, 130, 131}
    BY PatchRestores DEF Patches, OffBy2, OffBy3
  <2>3. \/ Compressed(s, r) = <<c>>
        \/ PatchFor(s, r) \in {130, 131} /\ Compressed(s, r) = <<PatchFor(s, r), c>>
    <3>1. SearchRemember(s, r) \in Int
      BY <1>2, SearchFinds DEF Found, Way
    <3>2. CASE RasCorrect(s, r)
      BY <1>2, <2>2, <3>2 DEF Compressed
    <3>3. CASE ~ RasCorrect(s, r)
      BY <1>2, <3>1, <3>3 DEF Compressed
    <3> QED  BY <3>2, <3>3
  <2> HIDE DEF c
  <2>4. CASE Compressed(s, r) = <<c>>
    BY <2>1, <2>4 DEF InstCount
  <2>5. CASE PatchFor(s, r) \in {130, 131} /\ Compressed(s, r) = <<PatchFor(s, r), c>>
    BY <2>1, <2>5 DEF InstCount
  <2> QED  BY <2>3, <2>4, <2>5
<1> QED  BY <1>1, <1>2

LEMMA CountItemsType ==
    ASSUME NEW n \in Counts \cup {NoCount}
    PROVE  /\ CountItems(n) \in Seq(Nat)
           /\ IF n = NoCount THEN CountItems(n) = <<>>
              ELSE Len(CountItems(n)) = 3 /\ CountItems(n)[1] = InstCount /\ PassCounts
<1>1. CASE n = NoCount
  BY <1>1 DEF CountItems
<1>2. CASE n # NoCount
  <2>1. n \in Nat /\ PassCounts
    <3>1. n \in Counts
      BY <1>2
    <3>2. Counts # {}
      BY <3>1
    <3>3. PassCounts
      BY <3>2, TraceAssumption
    <3>4. n \in Nat
      BY <3>1, TraceAssumption
    <3> QED  BY <3>3, <3>4
  <2>2. n % 256 \in Nat /\ n \div 256 \in Nat
    BY <2>1
  <2> QED  BY <1>2, <2>1, <2>2 DEF CountItems, InstCount
<1> QED  BY <1>1, <1>2

\* A reader skips the count and sees the items of the record.
LEMMA RecordIsFound ==
    ASSUME NEW n \in Counts \cup {NoCount}, NEW items \in Seq(Nat),
           Len(items) > 0, items[1] # InstCount,
           pipe = CountItems(n) \o items
    PROVE  /\ pipe \in Seq(Nat) /\ pipe # <<>>
           /\ RecordStart \in Nat \ {0} /\ Len(pipe) = RecordStart - 1 + Len(items)
           /\ \A i \in 1 .. Len(items) : pipe[RecordStart - 1 + i] = items[i]
<1>1. CASE n = NoCount
  <2>1. pipe = items
    BY <1>1, CountItemsType, ConcatEmptySeq
  <2>2. RecordStart = 1
    BY <2>1 DEF RecordStart
  <2> QED  BY <2>1, <2>2
<1>2. CASE n # NoCount
  <2>1. /\ CountItems(n) \in Seq(Nat) /\ Len(CountItems(n)) = 3
        /\ CountItems(n)[1] = InstCount /\ PassCounts
    BY <1>2, CountItemsType
  <2> DEFINE count == CountItems(n)
  <2>2. /\ pipe \in Seq(Nat) /\ Len(pipe) = 3 + Len(items)
        /\ \A i \in 1 .. Len(pipe) : pipe[i] = IF i <= 3 THEN count[i] ELSE items[i - 3]
    <3> HIDE DEF count
    <3>1. pipe = count \o items /\ count \in Seq(Nat) /\ Len(count) = 3
      BY <2>1 DEF count
    <3>2. /\ count \o items \in Seq(Nat) /\ Len(count \o items) = Len(count) + Len(items)
          /\ \A i \in 1 .. Len(count) + Len(items) :
                (count \o items)[i] = IF i <= Len(count) THEN count[i] ELSE items[i - Len(count)]
      BY <3>1, ConcatProperties, Zenon
    <3> QED  BY <3>1, <3>2
  <2>3. RecordStart = 4
    BY <2>1, <2>2 DEF RecordStart
  <2> QED  BY <2>2, <2>3
<1> QED  BY <1>1, <1>2

\* Nothing of a record is left behind.
LEMMA RestIsEmpty ==
    ASSUME NEW k \in Nat, k > Len(pipe)
    PROVE  SubSeq(pipe, k, Len(pipe)) = <<>>
  BY SubSeqEmpty

LEMMA ClassIsOneOfSeven == \A r \in Branch : ClassOf(r.code) \in 1 .. 7
  BY DEF Branch, Code, ClassOf

\* The record in the pipe is read as the branch that was written.
LEMMA RecordIsRead ==
    ASSUME IInv, Decompress,
           NEW r \in Branches, NEW n \in Counts \cup {NoCount}, Underway(n, r)
    PROVE  /\ pipe' = <<>> /\ received' = Append(received, r)
           /\ dec' = AfterCompress(dec, r) /\ enc' = enc /\ sent' = sent
           /\ aborted' = FALSE
<1> DEFINE items == Compressed(dec, r)
           k == RecordStart
<1>1. r \in Branch /\ dec \in Bounded
  BY TraceAssumption DEF IInv
<1>2. /\ pipe \in Seq(Nat) /\ k \in Nat \ {0} /\ Len(pipe) = k - 1 + Len(items)
      /\ \A i \in 1 .. Len(items) : pipe[k - 1 + i] = items[i]
  <2>1. items \in Seq(Nat) /\ Len(items) > 0 /\ items[1] # InstCount
    BY <1>1, CompressedItems
  <2> HIDE DEF items
  <2>2. pipe = CountItems(n) \o items
    BY DEF Underway, items
  <2> QED  BY <2>1, <2>2, RecordIsFound
<1>3. ClassOf(r.code) \in 1 .. 7
  BY <1>1, ClassIsOneOfSeven
<1>4. CASE Found(dec, r) = {}
  <2>1. items = <<r.code, r.address, r.target>>
    BY <1>4 DEF Compressed
  <2>2. /\ ~ IsWay(r.code) /\ r.code < 128
        /\ r = [code |-> r.code, address |-> r.address, target |-> r.target]
        /\ AfterInFull(dec, r) = AfterCompress(dec, r)
    BY <1>1, <1>4, InFullIsRead
  <2> HIDE DEF items, k
  <2>3. /\ pipe[k] = r.code /\ pipe[k + 1] = r.address /\ pipe[k + 2] = r.target
        /\ Len(pipe) = k + 2
    <3>1. Len(items) = 3 /\ items[1] = r.code /\ items[2] = r.address /\ items[3] = r.target
      BY <2>1
    <3>2. /\ pipe[k - 1 + 1] = r.code /\ pipe[k - 1 + 2] = r.address
          /\ pipe[k - 1 + 3] = r.target
      BY <1>2, <3>1
    <3>3. k - 1 + 1 = k /\ k - 1 + 2 = k + 1 /\ k - 1 + 3 = k + 2 /\ Len(pipe) = k + 2
      BY <1>2, <3>1
    <3> QED  BY <3>2, <3>3
  <2>4. DecompressRecord(k, 0)
    <3>1. pipe[k] < 128
      BY <2>2, <2>3
    <3> QED  BY <3>1 DEF Decompress, k
  <2>5. pipe' = <<>>
    <3>1. pipe' = SubSeq(pipe, k + 3, Len(pipe))
      BY <2>2, <2>3, <2>4 DEF DecompressRecord
    <3>2. k + 3 \in Nat /\ k + 3 > Len(pipe)
      BY <1>2, <2>3
    <3> QED  BY <3>1, <3>2, RestIsEmpty
  <2> QED  BY <1>3, <2>2, <2>3, <2>4, <2>5 DEF DecompressRecord
<1>5. CASE Found(dec, r) # {}
  <2> DEFINE c == SearchRemember(dec, r) + (IF RasCorrect(dec, r) THEN Assoc ELSE 0)
  <2>1. CASE items = <<c>> /\ (RasCorrect(dec, r) => PatchFor(dec, r) = 0)
    <3>1. /\ c \in 0 .. 15 /\ IsWay(c) /\ FromTable(dec, c, 0) = r
          /\ AfterFromTable(dec, c, r) = AfterCompress(dec, r)
      BY <1>1, <1>5, <2>1, FoundIsRead
    <3> HIDE DEF c, items, k
    <3>2. pipe[k] = c /\ Len(pipe) = k
      BY <1>2, <2>1
    <3>3. DecompressRecord(k, 0)
      BY <3>1, <3>2 DEF Decompress, k
    <3>4. pipe' = <<>>
      BY <1>2, <3>1, <3>2, <3>3, RestIsEmpty DEF DecompressRecord
    <3> QED  BY <1>3, <3>1, <3>2, <3>3, <3>4 DEF DecompressRecord
  <2>2. CASE /\ RasCorrect(dec, r) /\ PatchFor(dec, r) \in {OffBy2, OffBy3}
             /\ items = <<PatchFor(dec, r), c>>
    <3> DEFINE p == PatchFor(dec, r)
    <3>1. /\ c \in 0 .. 15 /\ IsWay(c) /\ FromTable(dec, c, p) = r
          /\ AfterFromTable(dec, c, r) = AfterCompress(dec, r)
      BY <1>1, <1>5, <2>2, FoundIsRead
    <3> HIDE DEF c, items, k, p
    <3>2. pipe[k] = p /\ pipe[k + 1] = c /\ Len(pipe) = k + 1
      BY <1>2, <2>2 DEF p
    <3>3. DecompressRecord(k + 1, p)
      BY <2>2, <3>2 DEF Decompress, OffBy2, OffBy3, k, p
    <3>4. pipe' = <<>>
      BY <1>2, <3>1, <3>2, <3>3, RestIsEmpty DEF DecompressRecord
    <3> QED  BY <1>3, <3>1, <3>2, <3>3, <3>4 DEF DecompressRecord
  <2> HIDE DEF c
  <2>3. SearchRemember(dec, r) \in Int
    BY <1>5, SearchFinds DEF Found, Way
  <2>4. CASE RasCorrect(dec, r)
    <3>1. PatchFor(dec, r) \in {0, OffBy2, OffBy3}
      BY <2>4, PatchRestores DEF Patches
    <3>2. CASE PatchFor(dec, r) = 0
      BY <1>5, <2>1, <2>4, <3>2 DEF Compressed, c
    <3>3. CASE PatchFor(dec, r) # 0
      BY <1>5, <2>2, <2>4, <3>1, <3>3 DEF Compressed, c
    <3> QED  BY <3>2, <3>3
  <2>5. CASE ~ RasCorrect(dec, r)
    <3>1. items = <<c>>
      BY <1>5, <2>3, <2>5 DEF Compressed, c
    <3> QED  BY <2>1, <2>5, <3>1
  <2> QED  BY <2>4, <2>5
<1> QED  BY <1>4, <1>5

-----------------------------------------------------------------------------
(***************************************************************************)
(* The theorems.                                                           *)
(***************************************************************************)
LEMMA InitIInv == Init => IInv
  BY StartType DEF Init, IInv, Between

\* While a record is under way there is something in the pipe.
LEMMA UnderwayPipe ==
    ASSUME IInv, NEW r \in Branches, NEW n \in Counts \cup {NoCount}, Underway(n, r)
    PROVE  pipe \in Seq(Nat) /\ pipe # <<>> /\ r \in Branch
<1> DEFINE items == Compressed(dec, r)
<1>1. r \in Branch /\ dec \in Bounded
  BY TraceAssumption DEF IInv
<1>2. items \in Seq(Nat) /\ Len(items) > 0 /\ items[1] # InstCount
  BY <1>1, CompressedItems
<1> HIDE DEF items
<1>3. pipe = CountItems(n) \o items
  BY DEF Underway, items
<1> QED  BY <1>1, <1>2, <1>3, RecordIsFound

LEMMA StepIInv == IInv /\ [Next]_vars => IInv'
<1> SUFFICES ASSUME IInv, [Next]_vars PROVE IInv'
  OBVIOUS
<1>1. ASSUME NEW r \in Branches, NEW n \in Counts \cup {NoCount}, Compress(n, r)
      PROVE  IInv'
  <2>1. r \in Branch
    BY TraceAssumption
  <2>2. Between
    <3>1. ASSUME NEW q \in Branches, NEW m \in Counts \cup {NoCount}, Underway(m, q)
          PROVE  FALSE
      BY <1>1, <3>1, UnderwayPipe DEF Compress
    <3> QED  BY <3>1 DEF IInv
  <2>3. Underway(n, r)'
    BY <1>1, <2>2 DEF Between, Compress, Underway, Compressed
  <2>4. enc' \in Bounded
    BY <1>1, <2>1, AfterCompressType DEF Compress, IInv
  <2>5. UNCHANGED <<dec, received, aborted>>
    BY <1>1 DEF Compress
  <2> QED  BY <2>3, <2>4, <2>5 DEF IInv
<1>2. CASE Decompress
  <2>1. PICK r \in Branches, n \in Counts \cup {NoCount} : Underway(n, r)
    BY <1>2 DEF Decompress, IInv, Between
  <2>2. /\ pipe' = <<>> /\ received' = Append(received, r)
        /\ dec' = AfterCompress(dec, r) /\ enc' = enc /\ sent' = sent
        /\ aborted' = FALSE
    BY <1>2, <2>1, RecordIsRead
  <2>3. enc = AfterCompress(dec, r) /\ sent = Append(received, r)
    BY <2>1 DEF Underway
  <2>4. r \in Branch
    BY TraceAssumption
  <2>5. Append(received, r) \in Seq(Branch)
    BY <2>4, AppendProperties DEF IInv
  <2> QED  BY <2>2, <2>3, <2>5 DEF IInv, Between
<1>3. CASE UNCHANGED vars
  BY <1>3 DEF vars, IInv, Between, Underway
<1> QED  BY <1>1, <1>2, <1>3 DEF Next

THEOREM Invariance == Spec => []IInv
<1> QED  BY InitIInv, StepIInv, PTL DEF Spec

\* The processes hold values of their types, and the stack never overflows.
THEOREM TypeCorrect == Spec => []TypeOK
<1>1. IInv => TypeOK
  <2> SUFFICES ASSUME IInv PROVE TypeOK
    OBVIOUS
  <2>1. CASE Between
    <3>1. pipe \in Seq(Nat) /\ sent \in Seq(Branch)
      BY <2>1 DEF Between, IInv
    <3> QED  BY <3>1 DEF IInv, TypeOK, Bounded
  <2>2. ASSUME NEW r \in Branches, NEW n \in Counts \cup {NoCount}, Underway(n, r)
        PROVE  TypeOK
    <3>1. pipe \in Seq(Nat) /\ r \in Branch
      BY <2>2, UnderwayPipe
    <3>2. sent \in Seq(Branch)
      BY <2>2, <3>1, AppendProperties DEF Underway, IInv
    <3> QED  BY <3>1, <3>2 DEF IInv, TypeOK, Bounded
  <2> QED  BY <2>1, <2>2 DEF IInv
<1> QED  BY <1>1, Invariance, PTL

\* The compression scheme is lossless: what has been decompressed is the
\* original trace, up to the record that is still in the pipe.
THEOREM LosslessTheorem == Spec => []Lossless
<1>1. IInv => Lossless
  <2> SUFFICES ASSUME IInv PROVE Lossless
    OBVIOUS
  <2>1. CASE Between
    BY <2>1 DEF Between, Lossless
  <2>2. ASSUME NEW r \in Branches, NEW n \in Counts \cup {NoCount}, Underway(n, r)
        PROVE  Lossless
    <3>1. pipe # <<>> /\ r \in Branch
      BY <2>2, UnderwayPipe
    <3>2. SubSeq(Append(received, r), 1, Len(Append(received, r)) - 1) = received
      BY <3>1 DEF IInv
    <3> QED  BY <2>2, <3>1, <3>2 DEF Underway, Lossless
  <2> QED  BY <2>1, <2>2 DEF IInv
<1> QED  BY <1>1, Invariance, PTL

\* The tables, clocks and stacks of the two processes never diverge.
THEOREM InStepTheorem == Spec => []InStep
<1>1. IInv => InStep
  <2> SUFFICES ASSUME IInv, pipe = <<>> PROVE dec = enc
    BY DEF InStep
  <2>1. Between
    BY UnderwayPipe DEF IInv
  <2> QED  BY <2>1 DEF Between
<1> QED  BY <1>1, Invariance, PTL

\* No assertion of the decompressing process fails.
THEOREM NeverAbortsTheorem == Spec => []NeverAborts
<1>1. IInv => NeverAborts
  BY DEF IInv, NeverAborts
<1> QED  BY <1>1, Invariance, PTL
-----------------------------------------------------------------------------
(***************************************************************************)
(* No set of the table holds a branch twice.                               *)
(***************************************************************************)
Distinct(rtab) ==
    \A n \in 0 .. NRemember - 1 : \A v, w \in Way :
        Used(rtab[n][v]) /\ SameBranch(rtab[n][v], rtab[n][w]) => v = w

\* A way may be overwritten with a branch that is in no other way of the set.
LEMMA StoreDistinct ==
    ASSUME NEW s \in Bounded, Distinct(s.rtab), NEW x, NEW e \in Entry, NEW target,
           Used(e) => \A v \in Way : v # x => ~ SameBranch(e, PredictedSet(s)[v])
    PROVE  Distinct(Store(s, x, e, target).rtab)
<1> DEFINE p == PredictRemember(s)
           stored == [e EXCEPT !.lruTime = s.now]
           tab == Store(s, x, e, target).rtab
<1>1. s.rtab \in [0 .. NRemember - 1 -> [Way -> Entry]] /\ PredictedSet(s) = s.rtab[p]
  BY DEF Bounded, State, PredictedSet
<1>2. tab = [s.rtab EXCEPT ![p][x] = stored]
  BY DEF Store, Bounded, State
<1>3. stored.code = e.code /\ stored.address = e.address /\ stored.target = e.target
  BY DEF Entry
<1> HIDE DEF p, stored, tab
<1>4. \A n \in 0 .. NRemember - 1 : \A y \in Way :
         tab[n][y] = IF n = p /\ y = x THEN stored ELSE s.rtab[n][y]
  BY <1>1, <1>2
<1>5. SUFFICES ASSUME NEW n \in 0 .. NRemember - 1, NEW v \in Way, NEW w \in Way,
                      Used(tab[n][v]), SameBranch(tab[n][v], tab[n][w])
               PROVE  v = w
  BY DEF Distinct, tab
<1>6. CASE n = p /\ v = x
  <2>1. tab[n][v] = stored /\ (w # x => tab[n][w] = PredictedSet(s)[w])
    BY <1>1, <1>4, <1>6
  <2>2. Used(e) /\ (w # x => SameBranch(e, PredictedSet(s)[w]))
    BY <1>3, <1>5, <2>1 DEF Used, SameBranch, Equal
  <2> QED
    BY <2>2, <1>6
<1>7. CASE n = p /\ v # x /\ w = x
  <2>1. tab[n][v] = PredictedSet(s)[v] /\ tab[n][w] = stored
    BY <1>1, <1>4, <1>7
  <2>2. Used(e) /\ SameBranch(e, PredictedSet(s)[v])
    BY <1>3, <1>5, <2>1 DEF Used, SameBranch, Equal
  <2> QED
    BY <2>2, <1>7
<1>8. CASE n # p \/ (v # x /\ w # x)
  <2>1. tab[n][v] = s.rtab[n][v] /\ tab[n][w] = s.rtab[n][w]
    BY <1>4, <1>8
  <2> QED
    BY <1>5, <2>1 DEF Distinct
<1> QED
  BY <1>6, <1>7, <1>8

LEMMA AfterCompressDistinct ==
    ASSUME NEW s \in Bounded, NEW r \in Branch, Distinct(s.rtab)
    PROVE  Distinct(AfterCompress(s, r).rtab)
<1> DEFINE popped == PopReturn(s, r, RasCorrect(s, r))
           updated == IF Found(s, r) = {} THEN UpdateMissed(popped, r)
                      ELSE UpdateFound(popped, SearchRemember(s, r), r)
<1>1. popped \in Bounded /\ PredictedSet(popped) = PredictedSet(s)
  BY PopReturnType DEF RasCorrect
<1>2. popped.rtab = s.rtab
  BY DEF PopReturn, Bounded, State
<1> HIDE DEF popped
<1>3. ASSUME Found(s, r) = {} PROVE Distinct(updated.rtab)
  <2> DEFINE e == [code |-> r.code, address |-> r.address, target |-> r.target, lruTime |-> 0]
  <2>1. e \in Entry
    BY TableAssumption DEF Branch, Entry, Address
  <2>2. \A v \in Way : ~ SameBranch(e, PredictedSet(popped)[v])
    BY <1>1, <1>3 DEF Found, SameBranch, Equal
  <2> HIDE DEF e
  <2>3. Distinct(Store(popped, LeastRecentlyUsed(PredictedSet(popped)), e, r.target).rtab)
    BY <1>1, <1>2, <2>1, <2>2, StoreDistinct
  <2> QED
    BY <1>3, <2>3 DEF UpdateMissed, e
<1>4. ASSUME Found(s, r) # {} PROVE Distinct(updated.rtab)
  <2> DEFINE w == SearchRemember(s, r)
             e == PredictedSet(popped)[w]
  <2>1. w \in Way
    BY <1>4, SearchFinds DEF Found
  <2> HIDE DEF w
  <2>2. e \in Entry
    BY <1>1, <2>1, PredictedSetType
  <2>3. PredictRemember(popped) \in 0 .. NRemember - 1
    BY <1>1, TableAssumption DEF PredictRemember, Bounded, State, Address
  <2>4. Used(e) => \A v \in Way : v # w => ~ SameBranch(e, PredictedSet(popped)[v])
    BY <1>2, <2>1, <2>3 DEF Distinct, PredictedSet
  <2> HIDE DEF e
  <2>5. Distinct(Store(popped, w, e, r.target).rtab)
    BY <1>1, <1>2, <2>2, <2>4, StoreDistinct
  <2> QED
    BY <1>4, <2>5 DEF UpdateFound, e, w
<1>5. Distinct(updated.rtab) /\ updated \in Bounded
  <2>1. Found(s, r) # {} => SearchRemember(s, r) \in Way
    BY SearchFinds DEF Found
  <2> QED
    BY <1>1, <1>3, <1>4, <2>1, UpdateType
<1> HIDE DEF updated
<1>6. AfterClass(updated, r).rtab = updated.rtab
  BY <1>5 DEF AfterClass, Bounded, State
<1> QED
  BY <1>5, <1>6 DEF AfterCompress, updated, popped

\* No set of the table ever holds a branch twice.
THEOREM NoDuplicatesTheorem == Spec => []NoDuplicates
<1>1. Init => Distinct(enc.rtab)
  BY DEF Init, Start, EmptyTable, Blank, Distinct, Used
<1>2. IInv /\ Distinct(enc.rtab) /\ [Next]_vars => Distinct(enc.rtab)'
  <2> SUFFICES ASSUME IInv, Distinct(enc.rtab), [Next]_vars PROVE Distinct(enc.rtab)'
    OBVIOUS
  <2>1. ASSUME NEW r \in Branches, NEW n \in Counts \cup {NoCount}, Compress(n, r)
        PROVE  Distinct(enc.rtab)'
    <3>1. r \in Branch /\ enc \in Bounded /\ enc' = AfterCompress(enc, r)
      BY <2>1, TraceAssumption DEF Compress, IInv
    <3>2. Distinct(AfterCompress(enc, r).rtab)
      BY <3>1, AfterCompressDistinct
    <3> QED
      BY <3>1, <3>2 DEF Distinct
  <2>2. CASE UNCHANGED enc
    BY <2>2 DEF Distinct
  <2> QED
    BY <2>1, <2>2 DEF Next, Decompress, DecompressRecord, vars
<1>3. IInv /\ Distinct(enc.rtab) => NoDuplicates
  <2> SUFFICES ASSUME IInv, Distinct(enc.rtab) PROVE NoDuplicates
    OBVIOUS
  <2>1. DOMAIN enc.rtab = 0 .. NRemember - 1
    BY DEF IInv, Bounded, State
  <2> QED
    BY <2>1 DEF NoDuplicates, Distinct
<1> QED
  BY <1>1, <1>2, <1>3, Invariance, PTL DEF Spec
-----------------------------------------------------------------------------
(***************************************************************************)
(* A branch that was followed recently is still in its set.  The clock     *)
(* dates every entry by its position in the trace, as long as it does not  *)
(* wrap, so that an entry leaves its set only after every way of it has    *)
(* been used again.                                                        *)
(***************************************************************************)
\* now, an unsigned int, counts the branches: the trace has fewer than 2^32.
ClockNeverWraps == MaxTrace < Word

\* The set that the branch at k of the trace h is predicted from, and the
\* uses of the set after m.
SetOf(target) == target % NRemember
SetIn(h, k) == IF k = 1 THEN 0 ELSE SetOf(h[k - 1].target)
UsesAfter(h, m) == {k \in m + 1 .. Len(h) : SetIn(h, k) = SetIn(h, m)}

Time(s, n, w) == s.rtab[n][w].lruTime

\* The clock is the length of the trace, a time is the position before the
\* last use of the entry, and no two entries were last used at once.
Dated(s, h) ==
    /\ s.now = Len(h)
    /\ s.lastTarget = IF h = <<>> THEN 0 ELSE h[Len(h)].target
    /\ \A n \in 0 .. NRemember - 1 : \A w \in Way :
          Time(s, n, w) # 0 => /\ Time(s, n, w) + 1 \in 2 .. Len(h)
                               /\ SetIn(h, Time(s, n, w) + 1) = n
    /\ \A n \in 0 .. NRemember - 1 : \A v, w \in Way :
          Time(s, n, v) = Time(s, n, w) /\ Time(s, n, v) # 0 => v = w

HeldAt(s, h, m) ==
    \E w \in Way : /\ Equal(s.rtab[SetIn(h, m)][w], h[m], FALSE)
                   /\ m - 1 <= Time(s, SetIn(h, m), w)

\* A branch is in the set it was predicted from until the set has been used
\* Assoc times.
Held(s, h) ==
    \A m \in 2 .. Len(h) :
        h[m].code # Return => HeldAt(s, h, m) \/ Cardinality(UsesAfter(h, m)) >= Assoc

LEMMA TimeType ==
    ASSUME NEW s \in Bounded, NEW n \in 0 .. NRemember - 1, NEW w \in Way
    PROVE  Time(s, n, w) \in Nat
<1>1. s.rtab \in [0 .. NRemember - 1 -> [Way -> Entry]]
  BY DEF Bounded, State
<1>2. s.rtab[n] \in [Way -> Entry]
  BY <1>1
<1>3. s.rtab[n][w] \in Entry
  BY <1>2
<1>4. s.rtab[n][w].lruTime \in Address
  BY <1>3 DEF Entry
<1> QED  BY <1>4 DEF Time, Address

\* A nonempty set of natural numbers has a least member.
LEMMA SmallestMember ==
    ASSUME NEW J, J \subseteq Nat, J # {}
    PROVE  \E k \in J : \A m \in J : k <= m
<1> DEFINE R == {ss \in Nat \X Nat : ss[1] < ss[2]}
<1>1. IsWellFoundedOn(R, Nat)
  BY NatLessThanWellFounded DEF OpToRel
<1> HIDE DEF R
<1>2. PICK k \in J : \A m \in J : ~ <<m, k>> \in R
  BY <1>1, WFMin, Zenon
<1>3. \A m \in J : ~ m < k
  BY <1>2 DEF R
<1>4. \A m \in J : m \in Nat /\ k \in Nat
  OBVIOUS
<1> QED  BY <1>3, <1>4

\* The way that is replaced is one with the least time.
LEMMA ReplacesOldest ==
    ASSUME NEW ways \in [Way -> Entry]
    PROVE  /\ LeastRecentlyUsed(ways) \in Way
           /\ \A v \in Way : ways[LeastRecentlyUsed(ways)].lruTime <= ways[v].lruTime
<1> DEFINE T == {ways[v].lruTime : v \in Way}
<1>1. \A v \in Way : ways[v].lruTime \in Nat
  BY TableAssumption DEF Entry, Address
<1>2. 0 \in Way
  BY TableAssumption DEF Way
<1>3. T \subseteq Nat /\ T # {}
  BY <1>1, <1>2
<1>4. PICK t \in T : \A u \in T : t <= u
  BY <1>3, SmallestMember
<1> DEFINE F == {v \in Way : ways[v].lruTime = t}
<1>5. F \subseteq Nat /\ F # {}
  BY TableAssumption DEF Way
<1>6. PICK w \in F : \A v \in F : w <= v
  <2> HIDE DEF F
  <2> QED  BY <1>5, SmallestMember
<1>7. w \in Way /\ \A v \in Way : /\ ways[w].lruTime <= ways[v].lruTime
                                  /\ v < w => ways[w].lruTime < ways[v].lruTime
  <2>1. SUFFICES ASSUME NEW v \in Way
                 PROVE  /\ ways[w].lruTime <= ways[v].lruTime
                        /\ v < w => ways[w].lruTime < ways[v].lruTime
    BY <1>6
  <2>2. ways[w].lruTime = t /\ t <= ways[v].lruTime /\ t \in Nat
    BY <1>3, <1>4, <1>6
  <2>3. v < w => ways[v].lruTime # t
    <3>1. w \in Nat /\ v \in Nat
      BY <1>5, <1>6 DEF Way
    <3> QED  BY <1>6, <3>1
  <2> QED  BY <1>1, <2>2, <2>3
<1> DEFINE x == LeastRecentlyUsed(ways)
<1>8. x \in Way /\ \A v \in Way : /\ ways[x].lruTime <= ways[v].lruTime
                                  /\ v < x => ways[x].lruTime < ways[v].lruTime
  BY <1>7 DEF LeastRecentlyUsed
<1> QED  BY <1>8

\* One record dates one entry of the predicted set, which holds the branch:
\* the entry that held it, or the one least recently used.
Dates(after, s, r, x, e) ==
    /\ \A n \in 0 .. NRemember - 1 : \A w \in Way :
          after.rtab[n][w] = IF n = PredictRemember(s) /\ w = x THEN e ELSE s.rtab[n][w]
    /\ after.now = (s.now + 1) % Word
    /\ after.lastTarget = r.target
    /\ e.lruTime = s.now
    /\ r.code # Return => Equal(e, r, FALSE)
    /\ \/ SameBranch(e, PredictedSet(s)[x])
       \/ \A v \in Way : PredictedSet(s)[x].lruTime <= PredictedSet(s)[v].lruTime

LEMMA OneEntryDated ==
    ASSUME NEW s \in Bounded, NEW r \in Branch
    PROVE  \E x \in Way, e \in Entry : Dates(AfterCompress(s, r), s, r, x, e)
<1> DEFINE popped == PopReturn(s, r, RasCorrect(s, r))
           updated == IF Found(s, r) = {} THEN UpdateMissed(popped, r)
                      ELSE UpdateFound(popped, SearchRemember(s, r), r)
           x == IF Found(s, r) = {} THEN LeastRecentlyUsed(PredictedSet(s))
                ELSE SearchRemember(s, r)
           full == [code |-> r.code, address |-> r.address, target |-> r.target, lruTime |-> 0]
           old == IF Found(s, r) = {} THEN full ELSE PredictedSet(s)[x]
           e == [old EXCEPT !.lruTime = s.now]
<1>1. popped \in Bounded /\ PredictedSet(popped) = PredictedSet(s)
  BY PopReturnType DEF RasCorrect
<1>2. /\ popped.rtab = s.rtab /\ popped.now = s.now
      /\ PredictRemember(popped) = PredictRemember(s)
  BY DEF PopReturn, Bounded, State, PredictRemember
<1>3. PredictedSet(s) \in [Way -> Entry]
  BY PredictedSetType
<1>4. /\ x \in Way
      /\ Found(s, r) # {} => Equal(PredictedSet(s)[x], r, RasCorrect(s, r))
      /\ Found(s, r) = {} => \A v \in Way : PredictedSet(s)[x].lruTime <= PredictedSet(s)[v].lruTime
  BY <1>3, ReplacesOldest, SearchFinds DEF Found
<1>5. full \in Entry
  BY TableAssumption DEF Branch, Entry, Address
<1>6. old \in Entry
  BY <1>3, <1>4, <1>5
<1>7. updated = Store(popped, x, old, r.target)
  BY <1>1 DEF UpdateMissed, UpdateFound
<1> HIDE DEF popped, x
<1>8. updated \in Bounded
  <2>1. r.target \in Address
    BY DEF Branch
  <2> HIDE DEF updated, old
  <2> QED  BY <1>1, <1>6, <1>7, <2>1, StoreType
<1>9. /\ updated.rtab = [s.rtab EXCEPT ![PredictRemember(s)][x] = e]
      /\ updated.now = (s.now + 1) % Word /\ updated.lastTarget = r.target
  <2> HIDE DEF updated, old
  <2> QED  BY <1>1, <1>2, <1>7 DEF Store, Bounded, State
<1>10. AfterCompress(s, r) = AfterClass(updated, r)
  BY DEF AfterCompress, popped, x
<1>11. /\ AfterCompress(s, r).rtab = updated.rtab /\ AfterCompress(s, r).now = updated.now
       /\ AfterCompress(s, r).lastTarget = updated.lastTarget
  <2> HIDE DEF updated
  <2> QED  BY <1>8, <1>10 DEF AfterClass, Bounded, State
<1>12. /\ e \in Entry /\ e.lruTime = s.now /\ e.code = old.code
       /\ e.address = old.address /\ e.target = old.target
  <2>1. s.now \in Address
    BY DEF Bounded, State
  <2> HIDE DEF old
  <2> QED  BY <1>6, <2>1 DEF Entry
<1>13. r.code # Return => Equal(e, r, FALSE)
  <2>1. SUFFICES ASSUME r.code # Return PROVE Equal(e, r, FALSE)
    OBVIOUS
  <2>2. ~ RasCorrect(s, r)
    BY <2>1 DEF RasCorrect
  <2>3. old.code = r.code /\ old.address = r.address /\ old.target = r.target
    BY <1>4, <2>2 DEF Equal
  <2> QED  BY <1>12, <2>3 DEF Equal
<1>14. \A n \in 0 .. NRemember - 1 : \A w \in Way :
          updated.rtab[n][w] = IF n = PredictRemember(s) /\ w = x THEN e ELSE s.rtab[n][w]
  <2> DEFINE p == PredictRemember(s)
  <2>1. s.rtab \in [0 .. NRemember - 1 -> [Way -> Entry]]
    BY DEF Bounded, State
  <2> HIDE DEF p, updated, e
  <2>2. updated.rtab = [s.rtab EXCEPT ![p][x] = e]
    BY <1>9 DEF p
  <2>3. ASSUME NEW n \in 0 .. NRemember - 1, NEW w \in Way
        PROVE  updated.rtab[n][w] = IF n = p /\ w = x THEN e ELSE s.rtab[n][w]
    <3>1. s.rtab[n] \in [Way -> Entry]
      BY <2>1
    <3>2. updated.rtab[n] = IF n = p THEN [s.rtab[n] EXCEPT ![x] = e] ELSE s.rtab[n]
      BY <2>1, <2>2
    <3> QED  BY <3>1, <3>2
  <2> QED  BY <2>3 DEF p
<1>15. \/ SameBranch(e, PredictedSet(s)[x])
       \/ \A v \in Way : PredictedSet(s)[x].lruTime <= PredictedSet(s)[v].lruTime
  BY <1>4, <1>12 DEF SameBranch, Equal
<1> HIDE DEF updated, e
<1>16. Dates(AfterCompress(s, r), s, r, x, e)
  <2> HIDE DEF full, old
  <2>1. \A n \in 0 .. NRemember - 1 : \A w \in Way :
           AfterCompress(s, r).rtab[n][w]
              = IF n = PredictRemember(s) /\ w = x THEN e ELSE s.rtab[n][w]
    BY <1>11, <1>14
  <2>2. /\ AfterCompress(s, r).now = (s.now + 1) % Word
        /\ AfterCompress(s, r).lastTarget = r.target
    BY <1>9, <1>11
  <2>3. e.lruTime = s.now
    BY <1>12
  <2> QED  BY <2>1, <2>2, <2>3, <1>13, <1>15, Zenon DEF Dates
<1> QED  BY <1>4, <1>12, <1>16

\* The uses of a set after m, when one more branch has been processed.
LEMMA OneMoreUse ==
    ASSUME NEW h \in Seq(Branch), NEW r \in Branch, NEW m \in 2 .. Len(h)
    PROVE  LET u == Append(h, r)
           IN  /\ u[m] = h[m] /\ SetIn(u, m) = SetIn(h, m)
               /\ UsesAfter(u, m) = UsesAfter(h, m)
                     \cup (IF SetIn(u, Len(h) + 1) = SetIn(h, m) THEN {Len(h) + 1} ELSE {})
               /\ IsFiniteSet(UsesAfter(h, m)) /\ Len(h) + 1 \notin UsesAfter(h, m)
<1> DEFINE u == Append(h, r)
<1>1. /\ Len(h) \in Nat /\ Len(u) = Len(h) + 1
      /\ \A k \in 1 .. Len(h) : u[k] = h[k]
  BY AppendProperties
<1>2. \A k \in 2 .. Len(h) + 1 : SetIn(u, k) = SetIn(h, k)
  BY <1>1 DEF SetIn
<1> HIDE DEF u
<1>3. SetIn(u, m) = SetIn(h, m) /\ u[m] = h[m]
  BY <1>1, <1>2
<1>4. UsesAfter(u, m) = UsesAfter(h, m)
         \cup (IF SetIn(u, Len(h) + 1) = SetIn(h, m) THEN {Len(h) + 1} ELSE {})
  BY <1>1, <1>2, <1>3 DEF UsesAfter
<1>5. IsFiniteSet(UsesAfter(h, m)) /\ Len(h) + 1 \notin UsesAfter(h, m)
  <2>1. IsFiniteSet(m + 1 .. Len(h))
    BY <1>1, FS_Interval
  <2>2. UsesAfter(h, m) \in SUBSET (m + 1 .. Len(h))
    BY DEF UsesAfter
  <2>3. Len(h) + 1 \notin m + 1 .. Len(h)
    BY <1>1
  <2> QED  BY <2>1, <2>2, <2>3, FS_Subset
<1> QED  BY <1>3, <1>4, <1>5 DEF u

\* Each record is predicted from the set that the state says.
LEMMA PredictedFrom ==
    ASSUME NEW s \in Bounded, NEW h \in Seq(Branch), NEW r \in Branch, Dated(s, h)
    PROVE  /\ PredictRemember(s) = SetIn(Append(h, r), Len(h) + 1)
           /\ PredictRemember(s) \in 0 .. NRemember - 1
<1>1. PredictRemember(s) \in 0 .. NRemember - 1
  BY TableAssumption DEF PredictRemember, Bounded, State, Address
<1>2. CASE h = <<>>
  <2>1. 0 % NRemember = 0
    BY TableAssumption
  <2> QED  BY <1>1, <1>2, <2>1 DEF Dated, SetIn, SetOf, PredictRemember
<1>3. CASE h # <<>>
  <2> DEFINE z == Len(h)
             u == Append(h, r)
  <2>1. z \in Nat \ {0} /\ u[z] = h[z]
    BY <1>3, EmptySeq, AppendProperties
  <2> HIDE DEF z, u
  <2>2. z + 1 # 1 /\ z + 1 - 1 = z
    BY <2>1
  <2>3. SetIn(u, z + 1) = SetOf(h[z].target)
    <3>1. SetIn(u, z + 1) = SetOf(u[z + 1 - 1].target)
      BY <2>1, <2>2 DEF SetIn
    <3>2. u[z + 1 - 1] = h[z]
      BY <2>1, <2>2
    <3> QED  BY <3>1, <3>2
  <2>4. s.lastTarget = h[Len(h)].target
    BY <1>3 DEF Dated
  <2> QED  BY <1>1, <2>3, <2>4 DEF PredictRemember, SetOf, z, u
<1> QED  BY <1>2, <1>3

\* If the oldest entry of a set was used after m, so were all others, each at
\* a time of its own.
LEMMA OthersUsedSince ==
    ASSUME NEW s \in Bounded, NEW h \in Seq(Branch), Dated(s, h),
           NEW m \in 2 .. Len(h), NEW x \in Way,
           SetIn(h, m) \in 0 .. NRemember - 1,
           m - 1 <= Time(s, SetIn(h, m), x),
           \A v \in Way : Time(s, SetIn(h, m), x) <= Time(s, SetIn(h, m), v)
    PROVE  Cardinality(UsesAfter(h, m)) >= Assoc - 1
<1> DEFINE n == SetIn(h, m)
           others == Way \ {x}
           f == [v \in others |-> Time(s, n, v) + 1]
<1>0. n \in 0 .. NRemember - 1
  OBVIOUS
<1> HIDE DEF n
<1>1. \A v \in Way : Time(s, n, v) \in Nat
  BY <1>0, TimeType
<1>2. ASSUME NEW v \in others
      PROVE  Time(s, n, v) + 1 \in UsesAfter(h, m)
  <2>1. v \in Way /\ v # x
    OBVIOUS
  <2>2. m - 1 <= Time(s, n, x) /\ Time(s, n, x) <= Time(s, n, v) /\ m \in Nat /\ m >= 2
    BY <2>1 DEF n
  <2>3. Time(s, n, x) # 0 /\ Time(s, n, v) # 0
    BY <1>1, <2>1, <2>2
  <2>4. Time(s, n, x) # Time(s, n, v)
    BY <2>1, <2>3 DEF Dated, n
  <2>5. Time(s, n, v) + 1 \in 2 .. Len(h) /\ SetIn(h, Time(s, n, v) + 1) = n
    BY <2>1, <2>3 DEF Dated, n
  <2>6. Time(s, n, v) + 1 \in m + 1 .. Len(h)
    BY <1>1, <2>1, <2>2, <2>4, <2>5
  <2> QED  BY <2>5, <2>6 DEF UsesAfter, n
<1>3. ASSUME NEW v \in others, NEW w \in others, Time(s, n, v) + 1 = Time(s, n, w) + 1
      PROVE  v = w
  <2>1. v \in Way /\ w \in Way /\ Time(s, n, v) = Time(s, n, w)
    BY <1>1, <1>3
  <2>2. Time(s, n, v) # 0
    <3>1. Time(s, n, v) + 1 \in m + 1 .. Len(h)
      BY <1>2 DEF UsesAfter
    <3> QED  BY <1>1, <2>1, <3>1
  <2> QED  BY <2>1, <2>2 DEF Dated, n
<1>4. f \in Injection(others, UsesAfter(h, m))
  BY <1>2, <1>3 DEF Injection, IsInjective
<1>5. IsFiniteSet(UsesAfter(h, m))
  <2>1. UsesAfter(h, m) \in SUBSET (m + 1 .. Len(h))
    BY DEF UsesAfter
  <2>2. m + 1 \in Int /\ Len(h) \in Int
    OBVIOUS
  <2> QED  BY <2>1, <2>2, FS_Interval, FS_Subset
<1>6. Cardinality(others) = Assoc - 1
  <2>1. 0 \in Int /\ Assoc - 1 \in Int /\ Assoc \in 1 .. 8
    BY TableAssumption
  <2>2. IsFiniteSet(Way) /\ Cardinality(Way) = Assoc
    <3>1. IsFiniteSet(0 .. Assoc - 1) /\ Cardinality(0 .. Assoc - 1)
             = IF 0 > Assoc - 1 THEN 0 ELSE Assoc - 1 - 0 + 1
      BY <2>1, FS_Interval
    <3> QED  BY <2>1, <3>1 DEF Way
  <2> QED  BY <2>2, FS_RemoveElement
<1> HIDE DEF f, others
<1>7. Cardinality(others) <= Cardinality(UsesAfter(h, m))
  BY <1>4, <1>5, FS_Injection
<1>8. Cardinality(UsesAfter(h, m)) \in Nat /\ Assoc \in Int
  BY <1>5, FS_CardinalityType, TableAssumption
<1> QED  BY <1>6, <1>7, <1>8

\* Every record is dated.
LEMMA StepDated ==
    ASSUME NEW s \in Bounded, NEW h \in Seq(Branch), NEW r \in Branch,
           Len(h) + 1 < Word, Dated(s, h)
    PROVE  Dated(AfterCompress(s, r), Append(h, r))
<1> DEFINE t == AfterCompress(s, r)
           u == Append(h, r)
           p == PredictRemember(s)
<1>1. PICK x \in Way, e \in Entry : Dates(t, s, r, x, e)
  BY OneEntryDated
<1>2. \A n \in 0 .. NRemember - 1 : \A w \in Way :
         t.rtab[n][w] = IF n = p /\ w = x THEN e ELSE s.rtab[n][w]
  <2> HIDE DEF t
  <2> QED  BY <1>1 DEF Dates
<1>3. p = SetIn(u, Len(h) + 1) /\ p \in 0 .. NRemember - 1
  BY PredictedFrom
<1>4. /\ Len(h) \in Nat /\ Len(u) = Len(h) + 1 /\ u # <<>> /\ u[Len(u)] = r
      /\ \A k \in 1 .. Len(h) : u[k] = h[k]
  BY AppendProperties
<1>5. \A k \in 2 .. Len(h) : SetIn(u, k) = SetIn(h, k)
  BY <1>4 DEF SetIn
<1>6. t.now = Len(h) + 1
  <2>1. s.now = Len(h)
    BY DEF Dated
  <2>2. Len(h) + 1 \in Address
    BY <1>4, TableAssumption DEF Address
  <2> HIDE DEF t
  <2> QED  BY <1>1, <2>1, <2>2, SmallMod DEF Dates
<1> HIDE DEF t, u, p
<1>7. \A n \in 0 .. NRemember - 1 : \A w \in Way :
         Time(t, n, w) = IF n = p /\ w = x THEN Len(h) ELSE Time(s, n, w)
  <2>1. e.lruTime = Len(h)
    BY <1>1 DEF Dated, Dates
  <2> QED  BY <1>2, <2>1 DEF Time
<1>8. ASSUME NEW n \in 0 .. NRemember - 1, NEW w \in Way, Time(t, n, w) # 0
      PROVE  Time(t, n, w) + 1 \in 2 .. Len(u) /\ SetIn(u, Time(t, n, w) + 1) = n
  <2>1. CASE n = p /\ w = x
    <3>1. Time(t, n, w) = Len(h)
      BY <1>7, <2>1
    <3> QED  BY <1>3, <1>4, <1>8, <2>1, <3>1
  <2>2. CASE ~ (n = p /\ w = x)
    <3>1. Time(t, n, w) = Time(s, n, w)
      BY <1>7, <2>2
    <3>2. Time(s, n, w) + 1 \in 2 .. Len(h) /\ SetIn(h, Time(s, n, w) + 1) = n
      BY <1>8, <3>1 DEF Dated
    <3> QED  BY <1>4, <1>5, <3>1, <3>2
  <2> QED  BY <2>1, <2>2
<1>9. ASSUME NEW n \in 0 .. NRemember - 1, NEW v \in Way, NEW w \in Way,
             Time(t, n, v) = Time(t, n, w), Time(t, n, v) # 0
      PROVE  v = w
  <2>1. \A y \in Way : Time(s, n, y) # Len(h) \/ Len(h) = 0
    <3> SUFFICES ASSUME NEW y \in Way, Time(s, n, y) = Len(h), Len(h) # 0 PROVE FALSE
      OBVIOUS
    <3>1. Len(h) + 1 \in 2 .. Len(h)
      BY DEF Dated
    <3> QED  BY <1>4, <3>1
  <2>2. Len(h) = 0 => Time(t, n, v) = Time(s, n, v) /\ Time(t, n, w) = Time(s, n, w)
    BY <1>7, <1>9
  <2>3. Time(s, n, v) = Time(s, n, w) /\ Time(s, n, v) # 0 => v = w
    BY DEF Dated
  <2> QED  BY <1>7, <1>9, <2>1, <2>2, <2>3
<1> QED
  BY <1>1, <1>4, <1>6, <1>8, <1>9 DEF Dated, Dates, t, u

\* The branch at m, which was predicted from a set, is in the set still after
\* one more record, or the set has been used Assoc times since.
LEMMA StillHeld ==
    ASSUME NEW s \in Bounded, NEW h \in Seq(Branch), NEW r \in Branch,
           Dated(s, h), NEW m \in 2 .. Len(h), HeldAt(s, h, m)
    PROVE  \/ HeldAt(AfterCompress(s, r), Append(h, r), m)
           \/ Cardinality(UsesAfter(Append(h, r), m)) >= Assoc
<1> DEFINE t == AfterCompress(s, r)
           u == Append(h, r)
           p == PredictRemember(s)
           n == SetIn(h, m)
<1>1. PICK x \in Way, e \in Entry : Dates(t, s, r, x, e)
  BY OneEntryDated
<1>2. \A i \in 0 .. NRemember - 1 : \A w \in Way :
         t.rtab[i][w] = IF i = p /\ w = x THEN e ELSE s.rtab[i][w]
  <2> HIDE DEF t
  <2> QED  BY <1>1 DEF Dates
<1>3. p = SetIn(u, Len(h) + 1) /\ p \in 0 .. NRemember - 1
  BY PredictedFrom
<1>4. /\ u[m] = h[m] /\ SetIn(u, m) = n
      /\ UsesAfter(u, m) = UsesAfter(h, m) \cup (IF p = n THEN {Len(h) + 1} ELSE {})
      /\ IsFiniteSet(UsesAfter(h, m)) /\ Len(h) + 1 \notin UsesAfter(h, m)
  BY <1>3, OneMoreUse
<1>5. n \in 0 .. NRemember - 1 /\ m \in Nat /\ m <= Len(h) /\ Len(h) \in Nat
  <2>1. h[m - 1] \in Branch /\ m # 1
    OBVIOUS
  <2>2. h[m - 1].target \in Nat
    BY <2>1, TableAssumption DEF Branch, Address
  <2> QED  BY <2>1, <2>2, TableAssumption DEF SetIn, SetOf
<1>6. PICK w \in Way : Equal(s.rtab[n][w], h[m], FALSE) /\ m - 1 <= Time(s, n, w)
  BY DEF HeldAt
<1>7. PredictedSet(s) = s.rtab[p]
  BY DEF PredictedSet
<1> HIDE DEF t, u, p, n
<1>8. CASE ~ (n = p /\ w = x)
  <2>1. t.rtab[n][w] = s.rtab[n][w]
    BY <1>2, <1>5, <1>8
  <2>2. HeldAt(t, u, m)
    BY <1>4, <1>6, <2>1 DEF HeldAt, Time
  <2> QED  BY <2>2 DEF t, u
<1>9. CASE n = p /\ w = x /\ SameBranch(e, PredictedSet(s)[x])
  <2>1. t.rtab[n][w] = e
    BY <1>2, <1>5, <1>9
  <2>2. Equal(e, h[m], FALSE)
    BY <1>6, <1>7, <1>9 DEF SameBranch, Equal
  <2>3. m - 1 <= e.lruTime
    BY <1>1, <1>5 DEF Dated, Dates
  <2>4. HeldAt(t, u, m)
    BY <1>4, <2>1, <2>2, <2>3 DEF HeldAt, Time
  <2> QED  BY <2>4 DEF t, u
<1>10. CASE /\ n = p /\ w = x
            /\ \A v \in Way : PredictedSet(s)[x].lruTime <= PredictedSet(s)[v].lruTime
  <2>1. \A v \in Way : Time(s, n, x) <= Time(s, n, v)
    BY <1>7, <1>10 DEF Time
  <2>2. m - 1 <= Time(s, n, x)
    BY <1>6, <1>10
  <2>3. Cardinality(UsesAfter(h, m)) >= Assoc - 1
    BY <1>5, <2>1, <2>2, OthersUsedSince DEF n
  <2>4. UsesAfter(u, m) = UsesAfter(h, m) \cup {Len(h) + 1}
    BY <1>4, <1>10
  <2>5. /\ Cardinality(UsesAfter(u, m)) = Cardinality(UsesAfter(h, m)) + 1
        /\ Cardinality(UsesAfter(h, m)) \in Nat
    BY <1>4, <2>4, FS_AddElement, FS_CardinalityType
  <2>6. Cardinality(UsesAfter(u, m)) >= Assoc
    BY <2>3, <2>5, TableAssumption
  <2> QED  BY <2>6 DEF u
<1> QED  BY <1>1, <1>8, <1>9, <1>10 DEF Dates

\* The same for all branches so far, and the one of the record.
LEMMA StepHeld ==
    ASSUME NEW s \in Bounded, NEW h \in Seq(Branch), NEW r \in Branch,
           Dated(s, h), Held(s, h)
    PROVE  Held(AfterCompress(s, r), Append(h, r))
<1> DEFINE t == AfterCompress(s, r)
           u == Append(h, r)
<1>1. Len(h) \in Nat /\ Len(u) = Len(h) + 1 /\ u[Len(h) + 1] = r
  BY AppendProperties
<1>2. SUFFICES ASSUME NEW m \in 2 .. Len(u), u[m].code # Return
               PROVE  HeldAt(t, u, m) \/ Cardinality(UsesAfter(u, m)) >= Assoc
  BY DEF Held
<1>3. CASE m <= Len(h)
  <2>1. m \in 2 .. Len(h)
    BY <1>1, <1>3
  <2>2. /\ u[m] = h[m]
        /\ UsesAfter(u, m) = UsesAfter(h, m)
              \cup (IF SetIn(u, Len(h) + 1) = SetIn(h, m) THEN {Len(h) + 1} ELSE {})
        /\ IsFiniteSet(UsesAfter(h, m))
    BY <2>1, OneMoreUse
  <2> HIDE DEF t, u
  <2>3. /\ UsesAfter(h, m) \in SUBSET UsesAfter(u, m)
        /\ IsFiniteSet(UsesAfter(u, m))
    <3>1. \/ UsesAfter(u, m) = UsesAfter(h, m)
          \/ UsesAfter(u, m) = UsesAfter(h, m) \cup {Len(h) + 1}
      BY <2>2
    <3>2. IsFiniteSet(UsesAfter(h, m) \cup {Len(h) + 1})
      BY <2>2, FS_AddElement
    <3>3. IsFiniteSet(UsesAfter(u, m))
      BY <2>2, <3>1, <3>2
    <3> QED  BY <3>1, <3>3
  <2>4. CASE Cardinality(UsesAfter(h, m)) >= Assoc
    <3>1. Cardinality(UsesAfter(h, m)) <= Cardinality(UsesAfter(u, m))
      BY <2>3, FS_Subset
    <3>2. Cardinality(UsesAfter(h, m)) \in Nat /\ Cardinality(UsesAfter(u, m)) \in Nat
      BY <2>2, <2>3, FS_CardinalityType
    <3> QED  BY <2>4, <3>1, <3>2, TableAssumption
  <2>5. CASE HeldAt(s, h, m)
    BY <2>1, <2>5, StillHeld DEF t, u
  <2> QED  BY <1>2, <2>1, <2>2, <2>4, <2>5 DEF Held
<1>4. CASE m = Len(h) + 1
  <2>1. PICK x \in Way, e \in Entry : Dates(t, s, r, x, e)
    BY OneEntryDated
  <2>2. PredictRemember(s) = SetIn(u, m) /\ PredictRemember(s) \in 0 .. NRemember - 1
    BY <1>4, PredictedFrom
  <2>3. t.rtab[SetIn(u, m)][x] = e
    <3> HIDE DEF t, u
    <3>1. \A n \in 0 .. NRemember - 1 : \A w \in Way :
             t.rtab[n][w] = IF n = PredictRemember(s) /\ w = x THEN e ELSE s.rtab[n][w]
      BY <2>1 DEF Dates
    <3> QED  BY <2>2, <3>1
  <2>4. Equal(e, u[m], FALSE)
    BY <1>1, <1>2, <1>4, <2>1 DEF Dates
  <2>5. m - 1 <= e.lruTime
    BY <1>1, <1>4, <2>1 DEF Dated, Dates
  <2> HIDE DEF t, u
  <2> QED  BY <2>3, <2>4, <2>5 DEF HeldAt, Time
<1> QED  BY <1>1, <1>3, <1>4

\* A record of a branch that is held is one byte.
LEMMA HeldIsShort ==
    ASSUME NEW s \in Bounded, NEW r \in Branch, r.code # Return,
           NEW w \in Way, Equal(PredictedSet(s)[w], r, FALSE)
    PROVE  Compressed(s, r) \in Seq(Nat) /\ Len(Compressed(s, r)) = 1
<1>1. ~ RasCorrect(s, r)
  BY DEF RasCorrect
<1>2. w \in Found(s, r)
  BY <1>1 DEF Found, Equal
<1>3. SearchRemember(s, r) \in Nat
  BY <1>2, SearchFinds DEF Found, Way
<1> QED  BY <1>1, <1>2, <1>3 DEF Compressed

\* The reader's table tells what it has read; the record in the pipe was
\* written from it.
RecentInv == Dated(dec, received) /\ Held(dec, received) /\ Len(sent) <= MaxTrace

LEMMA RecentInit == Init => RecentInv
<1> SUFFICES ASSUME Init PROVE RecentInv
  OBVIOUS
<1>1. received = <<>> /\ sent = <<>> /\ dec = Start
  BY DEF Init
<1>2. \A n \in 0 .. NRemember - 1 : \A w \in Way : Time(Start, n, w) = 0
  BY DEF Time, Start, EmptyTable, Blank
<1>3. Dated(Start, <<>>)
  BY <1>2 DEF Dated, Start
<1>4. Held(Start, <<>>)
  BY DEF Held
<1> QED  BY <1>1, <1>3, <1>4, TraceAssumption DEF RecentInv

LEMMA RecentStep ==
    ASSUME ClockNeverWraps, IInv, RecentInv, [Next]_vars
    PROVE  RecentInv'
<1>1. ASSUME NEW r \in Branches, NEW n \in Counts \cup {NoCount}, Compress(n, r)
      PROVE  RecentInv'
  <2>1. sent \in Seq(Branch) /\ r \in Branch
    <3>1. pipe = <<>> /\ r \in Branch
      BY <1>1, TraceAssumption DEF Compress
    <3>2. Between
      BY <3>1, UnderwayPipe DEF IInv
    <3> QED  BY <3>1, <3>2 DEF Between, IInv
  <2>2. sent' = Append(sent, r) /\ Len(sent) < MaxTrace /\ UNCHANGED <<dec, received>>
    BY <1>1 DEF Compress
  <2>3. Len(sent') <= MaxTrace
    BY <2>1, <2>2, TraceAssumption
  <2> QED  BY <2>2, <2>3 DEF RecentInv
<1>2. CASE Decompress
  <2>1. PICK r \in Branches, n \in Counts \cup {NoCount} : Underway(n, r)
    BY <1>2 DEF Decompress, IInv, Between
  <2>2. /\ received' = Append(received, r) /\ dec' = AfterCompress(dec, r)
        /\ sent' = sent
    BY <1>2, <2>1, RecordIsRead
  <2>3. r \in Branch /\ dec \in Bounded /\ received \in Seq(Branch)
    BY TraceAssumption DEF IInv
  <2>4. Len(received) + 1 < Word
    <3>1. Len(sent) = Len(received) + 1 /\ Len(sent) <= MaxTrace
      BY <2>1, <2>3 DEF Underway, RecentInv
    <3> QED  BY <2>3, <3>1, TraceAssumption, TableAssumption DEF ClockNeverWraps
  <2>5. Dated(dec, received) /\ Held(dec, received)
    BY DEF RecentInv
  <2>6. Dated(dec', received') /\ Held(dec', received')
    BY <2>2, <2>3, <2>4, <2>5, StepDated, StepHeld
  <2> QED  BY <2>2, <2>6 DEF RecentInv
<1>3. CASE UNCHANGED vars
  BY <1>3 DEF vars, RecentInv
<1> QED  BY <1>1, <1>2, <1>3 DEF Next

\* A recent branch in the pipe was found in the set, and is one item.
LEMMA RecentIsShort ==
    ASSUME IInv, RecentInv
    PROVE  RecentBranchesAreShort
<1> DEFINE N == Len(sent)
           size == Len(pipe) - (RecordStart - 1)
<1>1. SUFFICES ASSUME pipe # <<>>, sent[N].code # Return,
                      NEW m \in 2 .. N - 1, sent[m] = sent[N], SetAt(m) = SetAt(N),
                      Cardinality(UsesBetween(m, N)) < Assoc
               PROVE  size = 1
  BY DEF RecentBranchesAreShort
<1>2. PICK r \in Branches, n \in Counts \cup {NoCount} : Underway(n, r)
  BY <1>1 DEF IInv, Between
<1>3. r \in Branch /\ dec \in Bounded /\ received \in Seq(Branch) /\ sent = Append(received, r)
  BY <1>2, TraceAssumption DEF IInv, Underway
<1>4. /\ N = Len(received) + 1 /\ Len(received) \in Nat /\ sent[N] = r
      /\ m \in 2 .. Len(received)
  BY <1>3, AppendProperties
<1>5. sent[m] = received[m] /\ SetIn(sent, m) = SetIn(received, m)
  BY <1>3, <1>4, OneMoreUse
<1>6. PredictRemember(dec) = SetIn(sent, N)
  BY <1>3, <1>4, PredictedFrom DEF RecentInv
<1>7. \A k : SetAt(k) = SetIn(sent, k)
  BY DEF SetAt, SetIn, SetOf
<1>8. UsesAfter(received, m) = UsesBetween(m, N)
  <2>1. \A k \in m + 1 .. Len(received) : SetIn(received, k) = SetIn(sent, k)
    <3> SUFFICES ASSUME NEW k \in m + 1 .. Len(received)
                 PROVE  SetIn(received, k) = SetIn(sent, k)
      OBVIOUS
    <3>1. k \in 2 .. Len(received)
      BY <1>4
    <3> QED  BY <1>3, <3>1, OneMoreUse
  <2>2. SetIn(received, m) = SetAt(N)
    BY <1>1, <1>5, <1>7
  <2>3. m + 1 .. N - 1 = m + 1 .. Len(received)
    BY <1>4
  <2> QED  BY <1>7, <2>1, <2>2, <2>3 DEF UsesAfter, UsesBetween
<1>9. HeldAt(dec, received, m)
  <2>1. received[m].code # Return
    BY <1>1, <1>5
  <2>2. HeldAt(dec, received, m) \/ Cardinality(UsesAfter(received, m)) >= Assoc
    BY <1>4, <2>1 DEF RecentInv, Held
  <2>3. Cardinality(UsesAfter(received, m)) \in Nat
    BY <1>3, <1>4, OneMoreUse, FS_CardinalityType
  <2> QED  BY <1>1, <1>8, <2>2, <2>3, TableAssumption
<1>10. PICK w \in Way : Equal(dec.rtab[SetIn(received, m)][w], received[m], FALSE)
  BY <1>9 DEF HeldAt
<1>11. Equal(PredictedSet(dec)[w], r, FALSE) /\ r.code # Return
  <2>1. SetIn(received, m) = PredictRemember(dec)
    BY <1>1, <1>5, <1>6, <1>7
  <2>2. received[m] = r
    BY <1>1, <1>4, <1>5
  <2> QED  BY <1>1, <1>4, <1>10, <2>1, <2>2 DEF PredictedSet
<1>12. /\ Compressed(dec, r) \in Seq(Nat) /\ Len(Compressed(dec, r)) = 1
       /\ Compressed(dec, r)[1] # InstCount
  BY <1>3, <1>11, HeldIsShort, CompressedItems
<1> DEFINE items == Compressed(dec, r)
<1> HIDE DEF items
<1>13. Len(pipe) = RecordStart - 1 + Len(items) /\ RecordStart \in Nat
  <2>1. pipe = CountItems(n) \o items
    BY <1>2 DEF Underway, items
  <2>2. items \in Seq(Nat) /\ Len(items) > 0 /\ items[1] # InstCount
    BY <1>12 DEF items
  <2> QED  BY <2>1, <2>2, RecordIsFound
<1> QED  BY <1>12, <1>13 DEF items

\* A branch is written as one byte if its set has been used fewer than Assoc
\* times since it last followed the same target, in every trace in which the
\* clock does not wrap.
THEOREM RecentBranchesAreShortTheorem ==
    ClockNeverWraps => (Spec => []RecentBranchesAreShort)
<1> SUFFICES ASSUME ClockNeverWraps PROVE Spec => []RecentBranchesAreShort
  OBVIOUS
<1>1. Init => RecentInv
  BY RecentInit
<1>2. IInv /\ RecentInv /\ [Next]_vars => RecentInv'
  BY RecentStep
<1>3. IInv /\ RecentInv => RecentBranchesAreShort
  BY RecentIsShort
<1> QED  BY <1>1, <1>2, <1>3, Invariance, PTL DEF Spec
=============================================================================

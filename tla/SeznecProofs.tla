---------------------------- MODULE SeznecProofs ----------------------------
(***************************************************************************)
(* Proofs about Seznec's predictor.  Of its history: no position leaves    *)
(* the buffer, the last entries survive its moves and visits to the        *)
(* kernel, and so do the histories folded from them.  Of its tables:       *)
(* counters stay within their widths, the threshold stays positive, an     *)
(* entry that is allocated is the one that was missed, and the loop        *)
(* predictor is confident only of loops that have gone before.             *)
(***************************************************************************)
EXTENDS Seznec, FiniteSetTheorems, WellFoundedInduction, TLAPS

Position == 0 .. Room - 1
Entry == SUBSET Nat

PositionsOK ==
    /\ buffer \in [0 .. BufferHist - 1 -> Entry]
    /\ ptghist \in Position /\ ptghistsave \in Position \cup {Unset}
    /\ lastmode \in BOOLEAN /\ defined \in BOOLEAN
    /\ moved \in BOOLEAN /\ torn \in BOOLEAN
    /\ seen \in Seq(Entry) /\ seenSave \in Seq(Entry)

\* In kernel mode the user's entries lie at the position saved, above those of
\* the kernel, until the buffer is moved.
SavedHolds ==
    defined /\ ~ torn /\ lastmode /\ ~ moved /\ ptghistsave # Unset =>
        ptghist < ptghistsave /\ Holds(ptghistsave, seenSave)

HistoryInv == PositionsOK /\ BufferKept /\ SavedHolds

-----------------------------------------------------------------------------
LEMMA RoomPositive ==
    /\ Room \in Nat /\ Room > 0 /\ MaxLength \in Nat /\ MaxLength > 0
    /\ BufferHist = Room + MaxLength
    /\ BufferHist \in Nat
    /\ Least(Room, MaxLength) \in Nat
    /\ Least(Room, MaxLength) <= Room /\ Least(Room, MaxLength) <= MaxLength
BY HistoryAssumption DEF HistoryAssumption, Room, Least

LEMMA PositionBefore ==
    /\ Room - 1 \in Position
    /\ \A p \in Position : p # 0 => p - 1 \in Position
BY RoomPositive DEF Position

\* The positions of the entries behind the one at p.
LEMMA PositionsBehind ==
    ASSUME NEW p \in Position, NEW j \in 0 .. Least(Room, MaxLength) - 1
    PROVE  /\ p + j \in 0 .. BufferHist - 1
           /\ j = 0 => p + j = p
           /\ j # 0 => /\ p + j # p /\ j - 1 \in 0 .. Least(Room, MaxLength) - 1
                       /\ (Room - 1) + j = Room + (j - 1) /\ 0 + (j - 1) = j - 1
                       /\ (p - 1) + j = p + (j - 1)
           /\ \A q \in Position : q < p => p + j # q
BY RoomPositive DEF Position

LEMMA EntryOfType ==
    ASSUME NEW pc \in PCs, NEW taken \in BOOLEAN PROVE EntryOf(pc, taken) \in Entry
BY HistoryAssumption DEF HistoryAssumption, EntryOf, BitIf, ShiftLeft, Bits, Entry

LEMMA ModBelowTwice ==
    ASSUME NEW n \in Nat, n > 0, NEW x \in 0 .. n - 1 PROVE (n + x) % n = x
BY Z3

\* An entry that is put in front of others moves them by one.
LEMMA RememberAt ==
    ASSUME NEW e \in Entry, NEW s \in Seq(Entry),
           NEW j \in 0 .. MaxLength - 1
    PROVE  /\ Remember(<<e>> \o s) \in Seq(Entry)
           /\ EntryAt(Remember(<<e>> \o s), j) = IF j = 0 THEN e ELSE EntryAt(s, j - 1)
<1> DEFINE t == <<e>> \o s
           n == Least(Len(t), MaxLength)
<1>1. t \in Seq(Entry) /\ Len(t) = Len(s) + 1
  OBVIOUS
<1>2. \A k \in 1 .. Len(t) : t[k] = IF k = 1 THEN e ELSE s[k - 1]
  OBVIOUS
<1>3. n \in 1 .. Len(t) /\ n <= MaxLength /\ (n = Len(t) \/ n = MaxLength)
  BY <1>1, RoomPositive DEF Least
<1>4. SubSeq(t, 1, n) \in Seq(Entry) /\ Len(SubSeq(t, 1, n)) = n
      /\ \A k \in 1 .. n : SubSeq(t, 1, n)[k] = t[k]
  BY <1>1, <1>3
<1>5. Remember(t) = SubSeq(t, 1, n)
  BY DEF Remember
<1> HIDE DEF t, n
<1>6. j < n <=> j < Len(s) + 1
  BY <1>1, <1>3, RoomPositive
<1>7. EntryAt(Remember(t), j) = IF j = 0 THEN e ELSE EntryAt(s, j - 1)
  <2>1. CASE j < n
    <3>1. EntryAt(Remember(t), j) = t[j + 1]
      BY <2>1, <1>3, <1>4, <1>5 DEF EntryAt
    <3>2. j + 1 \in 1 .. Len(t)
      BY <2>1, <1>1, <1>3
    <3>3. t[j + 1] = IF j = 0 THEN e ELSE s[j]
      BY <3>2, <1>2
    <3>4. j # 0 => j - 1 < Len(s) /\ (j - 1) + 1 = j
      BY <2>1, <1>6
    <3> QED
      BY <3>1, <3>3, <3>4 DEF EntryAt
  <2>2. CASE ~ (j < n)
    <3>1. EntryAt(Remember(t), j) = {}
      BY <2>2, <1>4, <1>5 DEF EntryAt
    <3>2. j # 0 /\ ~ (j - 1 < Len(s))
      BY <2>2, <1>3, <1>6
    <3> QED
      BY <3>1, <3>2 DEF EntryAt
  <2> QED
    BY <2>1, <2>2
<1> QED
  BY <1>4, <1>5, <1>7 DEF t

\* A move copies from within the part it leaves alone.
LEMMA MovedType ==
    ASSUME NEW tab \in [0 .. BufferHist - 1 -> Entry]
    PROVE  /\ Moved(tab) \in [0 .. BufferHist - 1 -> Entry]
           /\ \A x \in 0 .. Least(Room, MaxLength) - 1 : Moved(tab)[Room + x] = tab[x]
<1>1. \A k \in Nat : k % Room \in 0 .. Room - 1
  BY RoomPositive
<1>2. Moved(tab) \in [0 .. BufferHist - 1 -> Entry]
  <2>1. \A k \in 0 .. BufferHist - 1 : k % Room \in 0 .. BufferHist - 1
    BY <1>1, RoomPositive
  <2>2. \A k \in 0 .. BufferHist - 1 : tab[k] \in Entry /\ tab[k % Room] \in Entry
    BY <2>1
  <2> QED
    BY <2>2 DEF Moved
<1>3. ASSUME NEW x \in 0 .. Least(Room, MaxLength) - 1
      PROVE  Moved(tab)[Room + x] = tab[x]
  <2>1. x \in 0 .. Room - 1 /\ Room + x \in 0 .. BufferHist - 1 /\ ~ (Room + x < Room)
    BY RoomPositive
  <2>2. (Room + x) % Room = x
    BY <2>1, RoomPositive, ModBelowTwice
  <2> QED
    BY <2>1, <2>2 DEF Moved
<1> QED
  BY <1>2, <1>3

\* What an instruction does to the position and the buffer.
LEMMA EnterEffect ==
    ASSUME PositionsOK, NEW pc \in PCs, NEW taken \in BOOLEAN, Enter(pc, taken),
           ~ (Returns(pc) /\ ptghistsave = Unset),
           NEW from, from = IF Returns(pc) THEN ptghistsave ELSE ptghist,
           NEW base, base = IF Returns(pc) THEN seenSave ELSE seen
    PROVE  /\ from \in Position
           /\ from = 0 => ptghist' = Room - 1
           /\ from # 0 => ptghist' = from - 1
           /\ ptghist' \in Position
           /\ buffer' \in [0 .. BufferHist - 1 -> Entry]
           /\ buffer'[ptghist'] = EntryOf(pc, taken)
           /\ \A k \in 0 .. BufferHist - 1 : k # ptghist' =>
                 buffer'[k] = IF from = 0 THEN Moved(buffer)[k] ELSE buffer[k]
           /\ seen' = Remember(<<EntryOf(pc, taken)>> \o base)
<1>1. from \in Position
  BY DEF PositionsOK, Returns
<1>2. (from = 0 => ptghist' = Room - 1) /\ (from # 0 => ptghist' = from - 1)
  BY DEF Enter
<1>3. ptghist' \in Position /\ ptghist' \in 0 .. BufferHist - 1
  <2>1. ptghist' \in Position
    BY <1>1, <1>2, PositionBefore
  <2>2. Position \subseteq 0 .. BufferHist - 1
    BY RoomPositive DEF Position
  <2> QED
    BY <2>1, <2>2
<1>4. buffer' = [(IF from = 0 THEN Moved(buffer) ELSE buffer)
                   EXCEPT ![ptghist'] = EntryOf(pc, taken)]
  BY <1>2 DEF Enter
<1>5. (IF from = 0 THEN Moved(buffer) ELSE buffer) \in [0 .. BufferHist - 1 -> Entry]
  BY MovedType DEF PositionsOK
<1>6. /\ buffer' \in [0 .. BufferHist - 1 -> Entry]
      /\ buffer'[ptghist'] = EntryOf(pc, taken)
      /\ \A k \in 0 .. BufferHist - 1 : k # ptghist' =>
            buffer'[k] = (IF from = 0 THEN Moved(buffer) ELSE buffer)[k]
  <2> DEFINE old == IF from = 0 THEN Moved(buffer) ELSE buffer
  <2> HIDE DEF old
  <2>1. buffer' = [old EXCEPT ![ptghist'] = EntryOf(pc, taken)] /\ old \in [0 .. BufferHist - 1 -> Entry]
    BY <1>4, <1>5 DEF old
  <2>2. EntryOf(pc, taken) \in Entry
    BY EntryOfType
  <2>3. /\ buffer' \in [0 .. BufferHist - 1 -> Entry]
        /\ buffer'[ptghist'] = EntryOf(pc, taken)
        /\ \A k \in 0 .. BufferHist - 1 : k # ptghist' => buffer'[k] = old[k]
    BY <2>1, <2>2, <1>3
  <2> QED
    BY <2>3 DEF old
<1>7. seen' = Remember(<<EntryOf(pc, taken)>> \o base)
  BY DEF Enter
<1> QED
  BY <1>1, <1>2, <1>3, <1>6, <1>7

\* What the buffer holds at the position it goes on from, it holds afterwards
\* behind the new entry, whether it is moved or not.
LEMMA HoldsAfterEnter ==
    ASSUME PositionsOK, NEW pc \in PCs, NEW taken \in BOOLEAN, Enter(pc, taken),
           ~ (Returns(pc) /\ ptghistsave = Unset),
           NEW from, from = IF Returns(pc) THEN ptghistsave ELSE ptghist,
           NEW base \in Seq(Entry), base = IF Returns(pc) THEN seenSave ELSE seen,
           Holds(from, base)
    PROVE  Holds(ptghist, seen)'
<1>1. /\ from \in Position
      /\ (from = 0 => ptghist' = Room - 1) /\ (from # 0 => ptghist' = from - 1)
      /\ ptghist' \in Position
      /\ buffer'[ptghist'] = EntryOf(pc, taken)
      /\ \A k \in 0 .. BufferHist - 1 : k # ptghist' =>
            buffer'[k] = IF from = 0 THEN Moved(buffer)[k] ELSE buffer[k]
      /\ seen' = Remember(<<EntryOf(pc, taken)>> \o base)
  BY EnterEffect
<1>2. ASSUME NEW j \in 0 .. Least(Room, MaxLength) - 1
      PROVE  buffer'[ptghist' + j] = EntryAt(seen', j)
  <2>1. EntryAt(seen', j) = IF j = 0 THEN EntryOf(pc, taken) ELSE EntryAt(base, j - 1)
    <3>1. j \in 0 .. MaxLength - 1
      BY RoomPositive
    <3> QED
      BY <1>1, <3>1, RememberAt, EntryOfType
  <2>2. CASE j = 0
    <3>1. ptghist' + j = ptghist'
      BY <2>2, <1>1, PositionsBehind
    <3> QED
      BY <2>1, <2>2, <3>1, <1>1
  <2>3. CASE j # 0
    <3>1. /\ j - 1 \in 0 .. Least(Room, MaxLength) - 1
          /\ ptghist' + j \in 0 .. BufferHist - 1 /\ ptghist' + j # ptghist'
      BY <2>3, <1>1, PositionsBehind
    <3>2. buffer[from + (j - 1)] = EntryAt(base, j - 1)
      BY <3>1 DEF Holds
    <3>3. CASE from = 0
      <4>1. ptghist' + j = Room + (j - 1) /\ from + (j - 1) = j - 1
        BY <3>3, <2>3, <1>1, PositionsBehind
      <4>2. Moved(buffer)[Room + (j - 1)] = buffer[j - 1]
        BY <3>1, MovedType DEF PositionsOK
      <4> QED
        BY <2>1, <2>3, <3>1, <3>2, <3>3, <4>1, <4>2, <1>1
    <3>4. CASE from # 0
      <4>1. ptghist' + j = from + (j - 1)
        BY <3>4, <2>3, <1>1, PositionsBehind
      <4> QED
        BY <2>1, <2>3, <3>1, <3>2, <3>4, <4>1, <1>1
    <3> QED
      BY <3>3, <3>4
  <2> QED
    BY <2>2, <2>3
<1> QED
  BY <1>2 DEF Holds

LEMMA EnterKeeps ==
    ASSUME HistoryInv, defined, NEW pc \in PCs, NEW taken \in BOOLEAN, Enter(pc, taken),
           ~ (Returns(pc) /\ ptghistsave = Unset)
    PROVE  HistoryInv'
<1> DEFINE from == IF Returns(pc) THEN ptghistsave ELSE ptghist
           base == IF Returns(pc) THEN seenSave ELSE seen
<1> USE DEF HistoryInv
<1>1. base \in Seq(Entry)
  BY DEF PositionsOK
<1> HIDE DEF from, base
<1>2. /\ from \in Position
      /\ (from = 0 => ptghist' = Room - 1) /\ (from # 0 => ptghist' = from - 1)
      /\ ptghist' \in Position
      /\ buffer' \in [0 .. BufferHist - 1 -> Entry]
      /\ \A k \in 0 .. BufferHist - 1 : k # ptghist' =>
            buffer'[k] = IF from = 0 THEN Moved(buffer)[k] ELSE buffer[k]
      /\ seen' = Remember(<<EntryOf(pc, taken)>> \o base)
  BY EnterEffect DEF from, base
<1>3. /\ ptghistsave' = IF IsKernel(pc) /\ ~ lastmode THEN ptghist ELSE ptghistsave
      /\ seenSave' = IF IsKernel(pc) /\ ~ lastmode THEN seen ELSE seenSave
      /\ lastmode' = IsKernel(pc) /\ defined' = defined
      /\ moved' = (IsKernel(pc) /\ (moved \/ from = 0))
      /\ torn' = (torn \/ (Returns(pc) /\ moved))
  BY DEF Enter, from
<1>4. PositionsOK'
  <2>1. seen' \in Seq(Entry)
    BY <1>1, <1>2, RememberAt, EntryOfType, RoomPositive
  <2>2. seenSave' \in Seq(Entry) /\ ptghistsave' \in Position \cup {Unset}
    BY <1>3 DEF PositionsOK
  <2>3. lastmode' \in BOOLEAN
    BY <1>3 DEF IsKernel
  <2> QED
    BY <1>2, <1>3, <2>1, <2>2, <2>3, Zenon DEF PositionsOK
<1>5. BufferKept'
  <2> SUFFICES ASSUME ~ torn' PROVE Holds(ptghist, seen)'
    BY DEF BufferKept
  <2>1. Holds(from, base)
    BY <1>3 DEF BufferKept, SavedHolds, from, base, Returns
  <2> QED
    BY <1>1, <2>1, HoldsAfterEnter DEF from, base
<1>6. SavedHolds'
  <2> SUFFICES ASSUME ~ torn', lastmode', ~ moved', ptghistsave' # Unset
               PROVE  ptghist' < ptghistsave' /\ Holds(ptghistsave, seenSave)'
    BY DEF SavedHolds
  <2>1. IsKernel(pc) /\ from = ptghist /\ from # 0 /\ ~ moved /\ ~ torn
    BY <1>3 DEF from, Returns
  <2>2. ptghist' = ptghist - 1 /\ ptghist \in Position
    BY <2>1, <1>2 DEF PositionsOK
  <2>3. ptghist <= ptghistsave' /\ Holds(ptghistsave', seenSave') /\ ptghistsave' \in Position
    <3>1. CASE lastmode
      BY <3>1, <2>1, <2>2, <1>3, RoomPositive DEF SavedHolds, Position, PositionsOK
    <3>2. CASE ~ lastmode
      <4>1. ptghistsave' = ptghist /\ seenSave' = seen
        BY <3>2, <2>1, <1>3
      <4>2. Holds(ptghist, seen)
        BY <2>1 DEF BufferKept
      <4> QED
        BY <4>1, <4>2, <2>2, RoomPositive DEF Position
    <3> QED
      BY <3>1, <3>2
  <2>4. ptghist' < ptghistsave'
    BY <2>2, <2>3, RoomPositive DEF Position
  <2>5. ASSUME NEW j \in 0 .. Least(Room, MaxLength) - 1
        PROVE  buffer'[ptghistsave' + j] = EntryAt(seenSave', j)
    <3>1. /\ ptghistsave' + j \in 0 .. BufferHist - 1
          /\ ptghistsave' + j # ptghist'
      BY <1>2, <2>3, <2>4, PositionsBehind
    <3>2. buffer[ptghistsave' + j] = EntryAt(seenSave', j)
      BY <2>3 DEF Holds
    <3> QED
      BY <3>1, <3>2, <2>1, <1>2
  <2> QED
    BY <2>5, <2>4 DEF Holds
<1> QED
  BY <1>4, <1>5, <1>6

LEMMA StepKeeps == HistoryInv /\ [HistoryNext]_historyVars => HistoryInv'
<1> SUFFICES ASSUME HistoryInv, [HistoryNext]_historyVars PROVE HistoryInv'
  OBVIOUS
<1>1. CASE HistoryNext
  <2>1. PICK pc \in PCs, taken \in BOOLEAN : defined /\ EnterHistory(pc, taken)
    BY <1>1 DEF HistoryNext
  <2>2. CASE Returns(pc) /\ ptghistsave = Unset
    <3>1. EnterWild
      BY <2>1, <2>2 DEF EnterHistory
    <3> QED
      BY <3>1 DEF EnterWild, HistoryInv, PositionsOK, BufferKept, SavedHolds
  <2>3. CASE ~ (Returns(pc) /\ ptghistsave = Unset)
    <3>1. Enter(pc, taken)
      BY <2>1, <2>3, Zenon DEF EnterHistory
    <3> QED
      BY <2>1, <2>3, <3>1, EnterKeeps
  <2> QED
    BY <2>2, <2>3
<1>2. CASE UNCHANGED historyVars
  BY <1>2 DEF historyVars, HistoryInv, PositionsOK, BufferKept, SavedHolds, Holds
<1> QED
  BY <1>1, <1>2

LEMMA InitHolds ==
    ASSUME NEW mode \in BOOLEAN, HistoryInit(mode) PROVE HistoryInv
<1>1. PositionsOK
  <2>1. buffer \in [0 .. BufferHist - 1 -> Entry]
    BY DEF HistoryInit, Entry
  <2>2. 0 \in Position
    BY RoomPositive DEF Position
  <2>3. <<>> \in Seq(Entry)
    OBVIOUS
  <2> QED
    BY <2>1, <2>2, <2>3, Zenon DEF HistoryInit, PositionsOK
<1>2. Holds(ptghist, seen)
  BY RoomPositive DEF HistoryInit, Holds, EntryAt
<1>3. SavedHolds
  BY DEF HistoryInit, SavedHolds
<1> QED
  BY <1>1, <1>2, <1>3 DEF HistoryInv, BufferKept

-----------------------------------------------------------------------------
LEMMA HistoryInvariant == HistorySpec => []HistoryInv
<1>1. (\E mode \in BOOLEAN : HistoryInit(mode)) => HistoryInv
  BY InitHolds
<1> QED
  BY <1>1, StepKeeps, PTL DEF HistorySpec

(***************************************************************************)
(* The last entries survive moves of the buffer and visits to the kernel   *)
(* (seznec_ogehl.h 737-749, 796-831), for every size of the buffer, as     *)
(* many as are moved without overlap.                                      *)
(***************************************************************************)
THEOREM BufferKeptTheorem == HistorySpec => []BufferKept
<1>1. HistoryInv => BufferKept
  BY DEF HistoryInv
<1> QED
  BY <1>1, HistoryInvariant, PTL

(***************************************************************************)
(* No fold is updated from beyond the end of the buffer: h[OLENGTH] of     *)
(* line 98 is inside, wherever the position has been moved or restored to. *)
(***************************************************************************)
WithinBuffer ==
    /\ ptghist \in DOMAIN buffer
    /\ \A f \in Folds : ptghist + Shape[f].len \in DOMAIN buffer

THEOREM WithinBufferTheorem == HistorySpec => []WithinBuffer
<1>1. \A f \in Folds : Shape[f].len \in 0 .. MaxLength
  BY HistoryAssumption
<1>2. HistoryInv => WithinBuffer
  BY <1>1, RoomPositive DEF HistoryInv, PositionsOK, WithinBuffer, Position
<1> QED
  BY <1>2, HistoryInvariant, PTL

-----------------------------------------------------------------------------
(***************************************************************************)
(* Folding.  What the register of a fold holds is determined by the        *)
(* entries that the mode in power is to remember.                          *)
(***************************************************************************)

\* What a division leaves.
LEMMA Division ==
    ASSUME NEW m \in Nat, NEW n \in Nat \ {0}
    PROVE  /\ m % n \in 0 .. n - 1 /\ m \div n \in Nat
           /\ m = n * (m \div n) + (m % n)
<1> DEFINE q == m \div n
           r == m % n
<1>1. q \in Int /\ r \in 0 .. n - 1 /\ m = n * q + r
  OBVIOUS
<1> HIDE DEF q, r
<1>2. ~ (q <= -1)
  BY <1>1
<1>3. q \in Nat
  BY <1>1, <1>2
<1> QED
  BY <1>1, <1>3 DEF q, r

\* A remainder is what is left of any multiple.
LEMMA RemainderIs ==
    ASSUME NEW n \in Nat \ {0}, NEW q \in Nat, NEW r \in 0 .. n - 1
    PROVE  (n * q + r) % n = r
<1> DEFINE x == n * q + r
<1>1. x \in Nat
  OBVIOUS
<1>2. x % n \in 0 .. n - 1 /\ x \div n \in Nat /\ x = n * (x \div n) + (x % n)
  BY <1>1, Division
<1> HIDE DEF x
<1>3. n * (q - (x \div n)) = (x % n) - r
  BY <1>1, <1>2 DEF x
<1>4. q - (x \div n) = 0
  <2> DEFINE d == q - (x \div n)
  <2>1. d \in Int /\ n * d < n /\ n * d > -n
    BY <1>2, <1>3
  <2> HIDE DEF d
  <2>2. ~ (d >= 1) /\ ~ (d <= -1)
    BY <2>1
  <2> QED
    BY <2>1, <2>2 DEF d
<1> QED
  BY <1>2, <1>3, <1>4 DEF x

Wrapped(m, w) == m % w

\* Which position a shift around the end by a moves to p.
From(p, a, w) == IF p >= a THEN p - a ELSE p + w - a

LEMMA WrappedMoves ==
    ASSUME NEW w \in Nat \ {0}, NEW m \in Nat, NEW a \in 0 .. w - 1, NEW p \in 0 .. w - 1
    PROVE  /\ Wrapped(m, w) \in 0 .. w - 1
           /\ From(p, a, w) \in 0 .. w - 1
           /\ Wrapped(m + a, w) = p <=> Wrapped(m, w) = From(p, a, w)
<1> DEFINE r == m % w
           q == m \div w
<1>1. r \in 0 .. w - 1 /\ q \in Nat /\ m = w * q + r /\ Wrapped(m, w) = r
  BY Division DEF Wrapped
<1> HIDE DEF r, q
<1>2. Wrapped(m + a, w) = IF r + a < w THEN r + a ELSE r + a - w
  <2>1. CASE r + a < w
    <3>1. m + a = w * q + (r + a) /\ r + a \in 0 .. w - 1
      BY <1>1, <2>1
    <3> QED
      BY <1>1, <2>1, <3>1, RemainderIs DEF Wrapped
  <2>2. CASE ~ (r + a < w)
    <3>1. m + a = w * (q + 1) + (r + a - w) /\ r + a - w \in 0 .. w - 1 /\ q + 1 \in Nat
      BY <1>1, <2>2
    <3> QED
      BY <2>2, <3>1, RemainderIs DEF Wrapped
  <2> QED
    BY <2>1, <2>2
<1>3. From(p, a, w) \in 0 .. w - 1
  BY DEF From
<1>4. (IF r + a < w THEN r + a ELSE r + a - w) = p <=> r = From(p, a, w)
  BY <1>1 DEF From
<1> QED
  BY <1>1, <1>2, <1>3, <1>4

LEMMA WrappedBelow ==
    ASSUME NEW w \in Nat \ {0}, NEW m \in 0 .. w - 1 PROVE Wrapped(m, w) = m
<1>1. w * 0 + m = m /\ 0 \in Nat
  OBVIOUS
<1> QED
  BY <1>1, RemainderIs DEF Wrapped

-----------------------------------------------------------------------------
\* Adding modulo 2.
OddSize(S) == Cardinality(S) % 2 = 1

LEMMA OddToggle ==
    ASSUME NEW S, IsFiniteSet(S), NEW x
    PROVE  /\ x \notin S => (OddSize(S \cup {x}) <=> ~ OddSize(S))
           /\ x \in S => (OddSize(S \ {x}) <=> ~ OddSize(S))
<1>1. Cardinality(S) \in Nat
  BY FS_CardinalityType
<1>2. \A c \in Nat : (c + 1) % 2 = 1 <=> ~ (c % 2 = 1)
  OBVIOUS
<1>3. CASE x \notin S
  <2>1. Cardinality(S \cup {x}) = Cardinality(S) + 1
    BY <1>3, FS_AddElement
  <2> QED
    BY <1>1, <1>2, <1>3, <2>1 DEF OddSize
<1>4. CASE x \in S
  <2>1. Cardinality(S \ {x}) = Cardinality(S) - 1 /\ IsFiniteSet(S \ {x})
    BY <1>4, FS_RemoveElement
  <2>2. Cardinality(S \ {x}) \in Nat /\ Cardinality(S) = Cardinality(S \ {x}) + 1
    BY <1>1, <2>1, FS_CardinalityType
  <2> QED
    BY <1>2, <1>4, <2>2 DEF OddSize
<1> QED
  BY <1>3, <1>4

\* Every bit of the history one entry older: as many as before.
Older(S) == {<<x[1] + 1, x[2]>> : x \in S}

LEMMA OlderHas ==
    ASSUME NEW S \in SUBSET (Nat \X Nat), NEW j \in Nat, NEW b
    PROVE  /\ <<j + 1, b>> \in Older(S) <=> <<j, b>> \in S
           /\ <<0, b>> \notin Older(S)
           /\ Older(S) \subseteq Nat \X Nat
<1>1. \A x \in S : x = <<x[1], x[2]>> /\ x[1] \in Nat /\ x[2] \in Nat
  OBVIOUS
<1>2. \A x \in S : <<x[1] + 1, x[2]>> = <<j + 1, b>> <=> x = <<j, b>>
  BY <1>1
<1>3. \A x \in S : <<x[1] + 1, x[2]>> # <<0, b>> /\ <<x[1] + 1, x[2]>> \in Nat \X Nat
  BY <1>1
<1> QED
  BY <1>2, <1>3 DEF Older

LEMMA OddOlder ==
    ASSUME NEW S \in SUBSET (Nat \X Nat), IsFiniteSet(S)
    PROVE  IsFiniteSet(Older(S)) /\ (OddSize(Older(S)) <=> OddSize(S))
<1> DEFINE T == Older(S)
           g == [x \in S |-> <<x[1] + 1, x[2]>>]
<1>1. g \in [S -> T] /\ \A t \in T : \E x \in S : g[x] = t
  BY DEF Older
<1>2. \A x, y \in S : g[x] = g[y] => x = y
  <2>1. \A x \in S : x = <<x[1], x[2]>> /\ x[1] \in Nat /\ x[2] \in Nat
    OBVIOUS
  <2>2. ASSUME NEW x \in S, NEW y \in S, g[x] = g[y] PROVE x = y
    <3>1. <<x[1] + 1, x[2]>> = <<y[1] + 1, y[2]>>
      BY <2>2
    <3>2. x[1] + 1 = y[1] + 1 /\ x[2] = y[2]
      BY <3>1
    <3>3. x[1] = y[1]
      BY <2>1, <3>2
    <3>4. x = <<x[1], x[2]>> /\ y = <<y[1], y[2]>>
      BY <2>1
    <3> QED
      BY <3>2, <3>3, <3>4
  <2> QED
    BY <2>2
<1> HIDE DEF g, T
<1>3. g \in Bijection(S, T)
  BY <1>1, <1>2 DEF Bijection, Injection, Surjection, IsInjective
<1> QED
  BY <1>3, FS_Bijection DEF ExistsBijection, OddSize, T

-----------------------------------------------------------------------------
\* The fold of the entries s, for any list of entries what FoldOf is for seen.
Meet(f, s, p) ==
    {x \in Bits(Shape[f].len) \X Bits(AddrBits + 1) :
        x[2] \in EntryAt(s, x[1]) /\ (x[2] + ShiftOf(f) * x[1]) % Shape[f].width = p}
FoldIn(f, s) == {p \in Bits(Shape[f].width) : OddSize(Meet(f, s, p))}

LEMMA FoldOfIs == \A f : FoldOf(f) = FoldIn(f, seen)
  BY DEF FoldOf, FoldIn, Meet, OddSize

EntriesFit(s) == \A j \in 0 .. MaxLength - 1 : EntryAt(s, j) \subseteq Bits(AddrBits + 1)

LEMMA ShapeIs ==
    ASSUME NEW f \in Folds
    PROVE  /\ Shape[f].width \in Nat \ {0}
           /\ Shape[f].len \in 0 .. MaxLength
           /\ ShiftOf(f) \in 0 .. Shape[f].width - 1
           /\ OutPoint(f) \in 0 .. Shape[f].width - 1
           /\ OutPoint(f) = Wrapped(ShiftOf(f) * Shape[f].len, Shape[f].width)
<1>1. Shape[f].len \in 0 .. MaxLength
  BY HistoryAssumption DEF HistoryAssumption
<1>2. /\ LogG \in Nat \ {0} /\ LogGehl \in Nat \ {0} /\ TBits \in Nat \ {0, 1}
      /\ TBits - 1 \in Nat \ {0}
  BY HistoryAssumption DEF HistoryAssumption
<1>3. /\ f[1] \in {"i", "t0", "t1", "gehl"} /\ f[2] \in Nat
      /\ MaxLength \in Nat
  BY HistoryAssumption DEF HistoryAssumption, Folds, Bank, GehlBank
<1>4. Shape[f].width \in Nat \ {0} /\ Shape[f].sh \in Nat
  BY <1>2, <1>3 DEF Shape
<1> DEFINE w == Shape[f].width
           sh == Shape[f].sh % w
<1>5. sh \in 0 .. w - 1
  BY <1>4, Division
<1>6. ShiftOf(f) = IF \E k \in 1 .. w - 1 : (sh * k) % w = 0 THEN 1 ELSE sh
  BY DEF ShiftOf
<1> HIDE DEF sh, w
<1>7. ShiftOf(f) \in 0 .. w - 1
  <2>1. CASE \E k \in 1 .. w - 1 : (sh * k) % w = 0
    <3>1. 1 \in 0 .. w - 1
      BY <2>1, <1>4 DEF w
    <3> QED
      BY <2>1, <3>1, <1>6
  <2>2. CASE ~ \E k \in 1 .. w - 1 : (sh * k) % w = 0
    BY <2>2, <1>5, <1>6
  <2> QED
    BY <2>1, <2>2
<1>8. ShiftOf(f) * Shape[f].len \in Nat
  BY <1>1, <1>3, <1>4, <1>7 DEF w
<1>9. OutPoint(f) = Wrapped(ShiftOf(f) * Shape[f].len, w) /\ OutPoint(f) \in 0 .. w - 1
  BY <1>4, <1>8, Division DEF OutPoint, Wrapped, w
<1> QED
  BY <1>1, <1>4, <1>7, <1>9 DEF w

\* The bits that update() keeps (85-103): the mask of the word takes nothing.
LEMMA InFolded ==
    ASSUME NEW f \in Folds, FitsWord(f),
           NEW c \in SUBSET Bits(Shape[f].width),
           NEW e \in SUBSET Bits(AddrBits + 1), NEW oldest \in SUBSET Bits(AddrBits + 1),
           NEW p \in Bits(Shape[f].width)
    PROVE  p \in Folded(f, c, e, oldest)
             <=> ((From(p, ShiftOf(f), Shape[f].width) \in c <=> p \in e)
                    <=> From(p, OutPoint(f), Shape[f].width) \in oldest)
<1> DEFINE w == Shape[f].width
           a == ShiftOf(f)
           o == OutPoint(f)
           shifted == ShiftLeft(c, a)
           entered == SymDiff(shifted, e)
           gone == ShiftLeft(oldest, o)
           left == SymDiff(entered, gone) \cap Bits(Word)
<1>1. /\ w \in Nat \ {0} /\ a \in 0 .. w - 1 /\ o \in 0 .. w - 1
      /\ Word \in Nat /\ AddrBits \in Nat
      /\ a + w <= Word /\ AddrBits + o < Word /\ AddrBits < w
  BY ShapeIs, HistoryAssumption DEF HistoryAssumption, FitsWord
<1>2. p \in Folded(f, c, e, oldest) <=> p \in SymDiff(left, ShiftRight(left, w))
  BY DEF Folded
<1>3. /\ c \subseteq 0 .. w - 1 /\ e \subseteq 0 .. AddrBits
      /\ oldest \subseteq 0 .. AddrBits /\ p \in 0 .. w - 1
  BY <1>1 DEF Bits
<1> HIDE DEF w, a, o
<1>4. /\ p \in shifted <=> p >= a /\ p - a \in c
      /\ p + w \in shifted <=> p + w - a \in c
      /\ \A x \in shifted : x \in Nat /\ x < Word
  <2>1. \A x : x \in shifted <=> \E b \in c : x = b + a
    BY DEF ShiftLeft
  <2>2. \A b \in c : b \in Nat /\ b < w /\ (p = b + a <=> b = p - a)
                       /\ (p + w = b + a <=> b = p + w - a)
    BY <1>1, <1>3
  <2>3. \A b \in c : b + a \in Nat /\ b + a < Word
    BY <1>1, <2>2
  <2> HIDE DEF shifted
  <2>4. p \in shifted <=> p - a \in c
    BY <2>1, <2>2
  <2>5. p + w \in shifted <=> p + w - a \in c
    BY <2>1, <2>2
  <2> QED
    BY <1>1, <1>3, <2>1, <2>2, <2>3, <2>4, <2>5
<1>5. /\ p \in gone <=> p >= o /\ p - o \in oldest
      /\ p + w \in gone <=> p + w - o \in oldest
      /\ \A x \in gone : x \in Nat /\ x < Word
  <2>1. \A x : x \in gone <=> \E b \in oldest : x = b + o
    BY DEF ShiftLeft
  <2>2. \A b \in oldest : b \in Nat /\ b <= AddrBits /\ (p = b + o <=> b = p - o)
                       /\ (p + w = b + o <=> b = p + w - o)
    BY <1>1, <1>3
  <2>3. \A b \in oldest : b + o \in Nat /\ b + o < Word
    BY <1>1, <2>2
  <2> HIDE DEF gone
  <2>4. p \in gone <=> p - o \in oldest
    BY <2>1, <2>2
  <2>5. p + w \in gone <=> p + w - o \in oldest
    BY <2>1, <2>2
  <2> QED
    BY <1>1, <1>3, <2>1, <2>2, <2>3, <2>4, <2>5
<1> HIDE DEF shifted, gone
<1>6. /\ p \in entered <=> ~ (p \in shifted <=> p \in e)
      /\ p + w \in entered <=> p + w \in shifted
      /\ \A x \in entered : x \in Nat /\ x < Word
  <2>1. \A x : x \in entered <=> ~ (x \in shifted <=> x \in e)
    BY DEF SymDiff
  <2>2. p + w \notin e /\ \A x \in e : x \in Nat /\ x < Word
    BY <1>1, <1>3
  <2> HIDE DEF entered
  <2> QED
    BY <1>4, <2>1, <2>2
<1> HIDE DEF entered
<1>7. /\ p \in left <=> ~ (p \in entered <=> p \in gone)
      /\ p + w \in left <=> ~ (p + w \in entered <=> p + w \in gone)
      /\ left \subseteq Nat
  BY <1>1, <1>3, <1>5, <1>6 DEF SymDiff, Bits
<1> HIDE DEF left
<1>8. p \in ShiftRight(left, w) <=> p + w \in left
  <2>1. \A x \in left : x >= w => (p = x - w <=> x = p + w)
    BY <1>1, <1>3, <1>7
  <2>2. p + w >= w /\ p + w - w = p
    BY <1>1, <1>3
  <2> QED
    BY <2>1, <2>2 DEF ShiftRight
<1>9. p \in SymDiff(left, ShiftRight(left, w)) <=> ~ (p \in left <=> p + w \in left)
  BY <1>8 DEF SymDiff
<1>10. From(p, a, w) \in c <=> ~ (p \in shifted <=> p + w \in shifted)
  <2>1. p >= a => p + w - a \notin c
    BY <1>1, <1>3
  <2> QED
    BY <1>4, <2>1 DEF From
<1>11. From(p, o, w) \in oldest <=> ~ (p \in gone <=> p + w \in gone)
  <2>1. p >= o => p + w - o \notin oldest
    BY <1>1, <1>3
  <2> QED
    BY <1>5, <2>1 DEF From
<1> QED
  BY <1>2, <1>6, <1>7, <1>9, <1>10, <1>11 DEF w, a, o

LEMMA MeetFinite ==
    ASSUME NEW f \in Folds, NEW s, NEW p
    PROVE  Meet(f, s, p) \in SUBSET (Nat \X Nat) /\ IsFiniteSet(Meet(f, s, p))
<1>1. Shape[f].len \in Nat /\ AddrBits + 1 \in Nat
  <2>1. AddrBits \in Nat
    BY HistoryAssumption DEF HistoryAssumption
  <2>2. Shape[f].len \in 0 .. MaxLength
    BY ShapeIs
  <2> QED
    BY <2>1, <2>2, RoomPositive
<1>2. IsFiniteSet(Bits(Shape[f].len)) /\ IsFiniteSet(Bits(AddrBits + 1))
  <2>1. ASSUME NEW n \in Nat PROVE IsFiniteSet(Bits(n))
    <3>1. 0 \in Int /\ n - 1 \in Int
      OBVIOUS
    <3> QED
      BY <3>1, FS_Interval DEF Bits
  <2> QED
    BY <1>1, <2>1
<1>3. IsFiniteSet(Bits(Shape[f].len) \X Bits(AddrBits + 1))
  BY <1>2, FS_Product
<1>4. Meet(f, s, p) \subseteq Bits(Shape[f].len) \X Bits(AddrBits + 1)
  BY DEF Meet
<1> QED
  BY <1>1, <1>3, <1>4, FS_Subset DEF Bits

\* Who meets at p when e has entered in front of s: those who met at the
\* position that moves to p, less the bit of the oldest entry there, and the
\* bit p of e.
LEMMA MeetAfter ==
    ASSUME NEW f \in Folds, FitsWord(f), Shape[f].len # 0,
           NEW s, NEW t, NEW e \in SUBSET Bits(AddrBits + 1), EntriesFit(s), EntriesFit(t),
           EntryAt(t, 0) = e,
           \A j \in Nat : j + 1 < MaxLength => EntryAt(t, j + 1) = EntryAt(s, j),
           NEW p \in Bits(Shape[f].width),
           NEW q, q = From(p, ShiftOf(f), Shape[f].width),
           NEW r, r = From(p, OutPoint(f), Shape[f].width)
    PROVE  /\ Meet(f, t, p) = Older(Meet(f, s, q) \ {<<Shape[f].len - 1, r>>}) \cup
                                (IF p \in e THEN {<<0, p>>} ELSE {})
           /\ <<Shape[f].len - 1, r>> \in Meet(f, s, q) <=> r \in EntryAt(s, Shape[f].len - 1)
<1> DEFINE w == Shape[f].width
           a == ShiftOf(f)
           o == OutPoint(f)
           n == Shape[f].len
           met == Meet(f, s, q) \ {<<n - 1, r>>}
           A == 0 .. AddrBits
           At(j, b) == Wrapped(b + a * j, w)
<1>1. /\ w \in Nat \ {0} /\ a \in 0 .. w - 1 /\ o \in 0 .. w - 1 /\ a \in Nat
      /\ n \in Nat \ {0} /\ n <= MaxLength /\ MaxLength \in Nat
      /\ o = Wrapped(a * n, w) /\ AddrBits \in Nat /\ AddrBits < w
      /\ p \in 0 .. w - 1
  BY ShapeIs, RoomPositive, HistoryAssumption DEF HistoryAssumption, FitsWord, Bits
<1>2. \A u, x : x \in Meet(f, u, p) <=>
        /\ x \in (0 .. n - 1) \X A /\ x[2] \in EntryAt(u, x[1])
        /\ At(x[1], x[2]) = p
  BY <1>1 DEF Meet, Bits, Wrapped
<1>3. \A x : x \in Meet(f, s, q) <=>
        /\ x \in (0 .. n - 1) \X A /\ x[2] \in EntryAt(s, x[1])
        /\ At(x[1], x[2]) = q
  BY <1>1 DEF Meet, Bits, Wrapped
<1>4. q = From(p, a, w) /\ r = From(p, o, w) /\ q \in 0 .. w - 1 /\ r \in 0 .. w - 1
  BY <1>1, WrappedMoves DEF w, a, o
<1>5. ASSUME NEW j \in Nat, NEW b \in A
      PROVE  At(j + 1, b) = p <=> At(j, b) = q
  <2>1. b + a * j \in Nat /\ b + a * (j + 1) = (b + a * j) + a
    BY <1>1
  <2> DEFINE m == b + a * j
  <2>3. m \in Nat /\ At(j, b) = Wrapped(m, w) /\ At(j + 1, b) = Wrapped(m + a, w)
    BY <2>1
  <2> HIDE DEF w, a, m, At
  <2>4. w \in Nat \ {0} /\ a \in 0 .. w - 1 /\ p \in 0 .. w - 1 /\ m \in Nat
    BY <1>1, <2>3
  <2>2. Wrapped(m + a, w) = p <=> Wrapped(m, w) = From(p, a, w)
    BY <2>4, WrappedMoves
  <2> QED
    BY <1>4, <2>3, <2>2
<1>6. ASSUME NEW b \in A
      PROVE  At(0, b) = b /\ (At(n - 1, b) = q <=> b = r)
  <2>1. b \in 0 .. w - 1
    BY <1>1
  <2>2. a * 0 = 0 /\ b + 0 = b
    BY <1>1
  <2>3. At(0, b) = b
    BY <1>1, <2>1, <2>2, WrappedBelow
  <2>4. At(n, b) = p <=> o = From(p, b, w)
    <3> DEFINE m == a * n
    <3>1. m \in Nat /\ b + m = m + b
      BY <1>1
    <3> HIDE DEF m, w
    <3>2. Wrapped(m + b, w) = p <=> Wrapped(m, w) = From(p, b, w)
      BY <1>1, <2>1, <3>1, WrappedMoves
    <3> QED
      BY <1>1, <3>1, <3>2 DEF m
  <2>5. At(n, b) = p <=> At(n - 1, b) = q
    <3>1. n - 1 \in Nat /\ (n - 1) + 1 = n
      BY <1>1
    <3> HIDE DEF At, n
    <3> QED
      BY <1>5, <3>1
  <2>6. o = From(p, b, w) <=> b = r
    <3> HIDE DEF w, o
    <3> QED
      BY <1>1, <2>1 DEF From, o, w
  <2> QED
    BY <2>3, <2>4, <2>5, <2>6
<1> HIDE DEF At, n, w, a, o
<1>7. /\ \A j \in 0 .. n - 1 : EntryAt(s, j) \subseteq A
      /\ e \subseteq A
  BY <1>1 DEF EntriesFit, Bits
<1>8. r \in EntryAt(s, n - 1) => r \in A
  BY <1>1, <1>7
<1>9. <<n - 1, r>> \in Meet(f, s, q) <=> r \in EntryAt(s, n - 1)
  BY <1>1, <1>3, <1>6, <1>8
<1>10. met \in SUBSET (Nat \X Nat)
  BY MeetFinite DEF met
<1>11. ASSUME NEW j \in Nat, NEW b \in A
       PROVE  <<j + 1, b>> \in Meet(f, t, p) <=> <<j, b>> \in met
  <2>1. j + 1 < n => EntryAt(t, j + 1) = EntryAt(s, j)
    BY <1>1
  <2>2. <<j + 1, b>> \in Meet(f, t, p) <=> j + 1 < n /\ b \in EntryAt(t, j + 1) /\ At(j + 1, b) = p
    BY <1>1, <1>2
  <2>3. <<j, b>> \in Meet(f, s, q) <=> j < n /\ b \in EntryAt(s, j) /\ At(j, b) = q
    BY <1>1, <1>3
  <2>4. j = n - 1 /\ At(j, b) = q <=> <<j, b>> = <<n - 1, r>> /\ At(j, b) = q
    BY <1>6
  <2>5. j < n <=> j + 1 < n \/ j = n - 1
    BY <1>1
  <2>6. j + 1 < n => j # n - 1
    BY <1>1
  <2> QED
    BY <1>5, <2>1, <2>2, <2>3, <2>4, <2>5, <2>6 DEF met
<1>12. ASSUME NEW b \in A
       PROVE  <<0, b>> \in Meet(f, t, p) <=> p \in e /\ b = p
  <2>1. <<0, b>> \in Meet(f, t, p) <=> b \in EntryAt(t, 0) /\ At(0, b) = p
    BY <1>1, <1>2
  <2> QED
    BY <1>6, <2>1
<1>13. /\ Meet(f, t, p) \subseteq Nat \X A
       /\ met \subseteq Nat \X A
       /\ (IF p \in e THEN {<<0, p>>} ELSE {}) \subseteq Nat \X A
  <2>1. 0 .. n - 1 \subseteq Nat
    BY <1>1
  <2> QED
    BY <1>2, <1>3, <1>7, <2>1 DEF met
<1>14. Older(met) \subseteq Nat \X A
  BY <1>13 DEF Older
<1> HIDE DEF met, A
<1>15. ASSUME NEW j \in Nat, NEW b \in A
       PROVE  <<j, b>> \in Meet(f, t, p)
                <=> <<j, b>> \in Older(met) \cup (IF p \in e THEN {<<0, p>>} ELSE {})
  <2>1. CASE j = 0
    BY <2>1, <1>10, <1>12, OlderHas
  <2>2. CASE j # 0
    <3>1. PICK k \in Nat : j = k + 1
      <4>1. j - 1 \in Nat /\ j = (j - 1) + 1
        BY <2>2
      <4> QED
        BY <4>1
    <3>2. <<k + 1, b>> \in Older(met) <=> <<k, b>> \in met
      BY <1>10, OlderHas
    <3> QED
      BY <2>2, <3>1, <3>2, <1>11
  <2> QED
    BY <2>1, <2>2
<1>16. Meet(f, t, p) = Older(met) \cup (IF p \in e THEN {<<0, p>>} ELSE {})
  <2> DEFINE L == Meet(f, t, p)
             R == Older(met) \cup (IF p \in e THEN {<<0, p>>} ELSE {})
  <2>1. L \subseteq Nat \X A /\ R \subseteq Nat \X A
    BY <1>13, <1>14
  <2>2. \A j \in Nat, b \in A : <<j, b>> \in L <=> <<j, b>> \in R
    BY <1>15
  <2> HIDE DEF L, R
  <2>3. \A x \in Nat \X A : x = <<x[1], x[2]>> /\ x[1] \in Nat /\ x[2] \in A
    OBVIOUS
  <2>4. \A x \in Nat \X A : x \in L <=> x \in R
    BY <2>2, <2>3
  <2>5. L = R
    BY <2>1, <2>4
  <2> QED
    BY <2>5 DEF L, R
<1> QED
  BY <1>9, <1>16 DEF met, n

(***************************************************************************)
(* What update() makes of the fold of s (85-103) is the fold of t, which   *)
(* is s with one more entry.                                               *)
(***************************************************************************)
LEMMA FoldFollows ==
    ASSUME NEW f \in Folds, FitsWord(f),
           NEW s, NEW t, NEW e \in SUBSET Bits(AddrBits + 1), EntriesFit(s), EntriesFit(t),
           EntryAt(t, 0) = e,
           \A j \in Nat : j + 1 < MaxLength => EntryAt(t, j + 1) = EntryAt(s, j),
           NEW oldest,
           oldest = IF Shape[f].len = 0 THEN e ELSE EntryAt(s, Shape[f].len - 1)
    PROVE  Folded(f, FoldIn(f, s), e, oldest) = FoldIn(f, t)
<1> DEFINE w == Shape[f].width
           n == Shape[f].len
           L == Folded(f, FoldIn(f, s), e, oldest)
           R == FoldIn(f, t)
<1>1. /\ w \in Nat \ {0} /\ n \in Nat /\ n <= MaxLength /\ MaxLength \in Nat
      /\ ShiftOf(f) \in 0 .. w - 1 /\ OutPoint(f) \in 0 .. w - 1
      /\ n = 0 => OutPoint(f) = 0
  <2>1. /\ w \in Nat \ {0} /\ n \in 0 .. MaxLength /\ MaxLength \in Nat
        /\ ShiftOf(f) \in 0 .. w - 1 /\ OutPoint(f) \in 0 .. w - 1
        /\ OutPoint(f) = Wrapped(ShiftOf(f) * n, w)
    BY ShapeIs, RoomPositive
  <2>2. n = 0 => OutPoint(f) = 0
    <3>1. Wrapped(0, w) = 0
      BY <2>1, WrappedBelow
    <3>2. n = 0 => ShiftOf(f) * n = 0
      BY <2>1
    <3> QED
      BY <2>1, <3>1, <3>2
  <2> QED
    BY <2>1, <2>2
<1>2. oldest \in SUBSET Bits(AddrBits + 1)
  <2>1. n # 0 => n - 1 \in 0 .. MaxLength - 1
    BY <1>1
  <2> QED
    BY <2>1 DEF EntriesFit
<1>3. FoldIn(f, s) \in SUBSET Bits(w) /\ L \in SUBSET Bits(w) /\ R \in SUBSET Bits(w)
  BY DEF FoldIn, Folded
<1>4. ASSUME NEW p \in Bits(w) PROVE p \in L <=> p \in R
  <2> DEFINE q == From(p, ShiftOf(f), w)
             r == From(p, OutPoint(f), w)
  <2>1. p \in L <=> ((q \in FoldIn(f, s) <=> p \in e) <=> r \in oldest)
    BY <1>2, <1>3, InFolded
  <2>2. q \in Bits(w)
    BY <1>1, WrappedMoves DEF Bits
  <2>3. /\ q \in FoldIn(f, s) <=> OddSize(Meet(f, s, q))
        /\ p \in R <=> OddSize(Meet(f, t, p))
    BY <2>2 DEF FoldIn
  <2>4. CASE n = 0
    <3>1. r = p
      BY <1>1, <2>4 DEF From, Bits
    <3>2. Meet(f, s, q) = {} /\ Meet(f, t, p) = {}
      <4>1. Bits(Shape[f].len) = {}
        BY <2>4 DEF Bits
      <4> QED
        BY <4>1 DEF Meet
    <3>3. ~ OddSize({})
      BY FS_EmptySet DEF OddSize
    <3> QED
      BY <2>1, <2>3, <2>4, <3>1, <3>2, <3>3
  <2>5. CASE n # 0
    <3> DEFINE x == <<n - 1, r>>
               met == Meet(f, s, q)
               T == Older(met \ {x})
    <3>1. /\ Meet(f, t, p) = T \cup (IF p \in e THEN {<<0, p>>} ELSE {})
          /\ x \in met <=> r \in oldest
      BY <2>5, MeetAfter
    <3>2. met \in SUBSET (Nat \X Nat) /\ IsFiniteSet(met)
      BY MeetFinite
    <3> HIDE DEF x, met
    <3>3. OddSize(met \ {x}) <=> ~ (OddSize(met) <=> x \in met)
      <4>1. x \notin met => met \ {x} = met
        OBVIOUS
      <4> QED
        BY <3>2, <4>1, OddToggle
    <3>4. met \ {x} \in SUBSET (Nat \X Nat) /\ IsFiniteSet(met \ {x})
      BY <3>2, FS_Subset
    <3>5. IsFiniteSet(T) /\ (OddSize(T) <=> OddSize(met \ {x})) /\ <<0, p>> \notin T
      <4>1. IsFiniteSet(T) /\ (OddSize(T) <=> OddSize(met \ {x}))
        BY <3>4, OddOlder
      <4>2. <<0, p>> \notin T
        BY <3>4, OlderHas
      <4> QED
        BY <4>1, <4>2
    <3> HIDE DEF T
    <3>6. OddSize(T \cup (IF p \in e THEN {<<0, p>>} ELSE {})) <=> ~ (OddSize(T) <=> p \in e)
      <4>1. T \cup {} = T
        OBVIOUS
      <4> QED
        BY <3>5, <4>1, OddToggle
    <3>7. OddSize(Meet(f, t, p)) <=> ~ (~ (OddSize(met) <=> r \in oldest) <=> p \in e)
      <4>1. OddSize(Meet(f, t, p)) <=> ~ (OddSize(T) <=> p \in e)
        BY <3>1, <3>6
      <4>2. OddSize(T) <=> ~ (OddSize(met) <=> r \in oldest)
        BY <3>1, <3>3, <3>5
      <4> QED
        BY <4>1, <4>2
    <3>8. OddSize(met) <=> q \in FoldIn(f, s)
      BY <2>3 DEF met
    <3> HIDE DEF q, r, L, R
    <3> QED
      BY <2>1, <2>3, <3>7, <3>8, Zenon
  <2> QED
    BY <2>4, <2>5
<1> HIDE DEF L, R
<1>5. L = R
  BY <1>3, <1>4
<1> QED
  BY <1>5 DEF L, R

-----------------------------------------------------------------------------
\* The folds of which the buffer keeps all entries, and that fit a word.
Kept(f) == FitsWord(f) /\ Shape[f].len <= Room

FoldsAre(folds, entries) == \A f \in Folds : Kept(f) => folds[f] = FoldIn(f, entries)

\* The folds in use are those of the entries that the mode is to remember, and
\* those saved are those of the user's.
FoldsInv ==
    /\ EntriesFit(seen) /\ EntriesFit(seenSave)
    /\ defined /\ ~ torn => FoldsAre(comp, seen)
    /\ defined /\ ~ torn /\ ptghistsave # Unset => FoldsAre(save, seenSave)

LEMMA EntryFits ==
    ASSUME NEW pc \in PCs, NEW taken \in BOOLEAN
    PROVE  EntryOf(pc, taken) \in SUBSET Bits(AddrBits + 1)
<1>1. AddrBits \in Nat
  BY HistoryAssumption DEF HistoryAssumption
<1> QED
  BY <1>1 DEF EntryOf, BitIf, ShiftLeft, Bits

LEMMA PositionsUpTo ==
    ASSUME NEW p \in Position, NEW n \in 0 .. Least(Room, MaxLength)
    PROVE  /\ n = 0 => p + n = p
           /\ n # 0 => /\ p + n \in 0 .. BufferHist - 1 /\ p + n # p
                       /\ n - 1 \in 0 .. Least(Room, MaxLength) - 1
                       /\ (Room - 1) + n = Room + (n - 1) /\ 0 + (n - 1) = n - 1
                       /\ (p - 1) + n = p + (n - 1)
BY RoomPositive DEF Position

\* What the history goes on with reads at the far end of a fold the entry that
\* leaves it, even when it has just been moved.
LEMMA OldestRead ==
    ASSUME PositionsOK, NEW pc \in PCs, NEW taken \in BOOLEAN, Enter(pc, taken),
           ~ (Returns(pc) /\ ptghistsave = Unset),
           NEW from, from = IF Returns(pc) THEN ptghistsave ELSE ptghist,
           NEW base \in Seq(Entry), base = IF Returns(pc) THEN seenSave ELSE seen,
           Holds(from, base)
    PROVE  \A n \in 0 .. Least(Room, MaxLength) :
             buffer'[ptghist' + n] = IF n = 0 THEN EntryOf(pc, taken) ELSE EntryAt(base, n - 1)
<1>1. /\ from \in Position
      /\ from = 0 => ptghist' = Room - 1
      /\ from # 0 => ptghist' = from - 1
      /\ ptghist' \in Position
      /\ buffer'[ptghist'] = EntryOf(pc, taken)
      /\ \A k \in 0 .. BufferHist - 1 : k # ptghist' =>
            buffer'[k] = IF from = 0 THEN Moved(buffer)[k] ELSE buffer[k]
      /\ seen' = Remember(<<EntryOf(pc, taken)>> \o base)
  BY EnterEffect
<1> SUFFICES ASSUME NEW n \in 0 .. Least(Room, MaxLength)
             PROVE  buffer'[ptghist' + n] = IF n = 0 THEN EntryOf(pc, taken)
                                                      ELSE EntryAt(base, n - 1)
  OBVIOUS
<1>2. CASE n = 0
  <2>1. ptghist' + n = ptghist'
    BY <1>1, <1>2, PositionsUpTo
  <2> QED
    BY <1>1, <1>2, <2>1
<1>3. CASE n # 0
  <2>1. /\ n - 1 \in 0 .. Least(Room, MaxLength) - 1
        /\ ptghist' + n \in 0 .. BufferHist - 1 /\ ptghist' + n # ptghist'
    BY <1>1, <1>3, PositionsUpTo
  <2>2. buffer[from + (n - 1)] = EntryAt(base, n - 1)
    BY <2>1 DEF Holds
  <2>3. CASE from = 0
    <3>1. ptghist' + n = Room + (n - 1) /\ from + (n - 1) = n - 1
      BY <1>1, <1>3, <2>3, PositionsUpTo
    <3>2. Moved(buffer)[Room + (n - 1)] = buffer[n - 1]
      BY <2>1, MovedType DEF PositionsOK
    <3> QED
      BY <1>1, <1>3, <2>1, <2>2, <2>3, <3>1, <3>2
  <2>4. CASE from # 0
    <3>1. ptghist' + n = from + (n - 1)
      BY <1>1, <1>3, <2>4, PositionsUpTo
    <3> QED
      BY <1>1, <1>3, <2>1, <2>2, <2>4, <3>1
  <2> QED
    BY <2>3, <2>4
<1> QED
  BY <1>2, <1>3

LEMMA FoldsEnter ==
    ASSUME HistoryInv, FoldsInv, defined, NEW pc \in PCs, NEW taken \in BOOLEAN,
           Enter(pc, taken), ~ (Returns(pc) /\ ptghistsave = Unset)
    PROVE  FoldsInv'
<1> DEFINE base == IF Returns(pc) THEN seenSave ELSE seen
           from == IF Returns(pc) THEN ptghistsave ELSE ptghist
           folds == IF Returns(pc) THEN save ELSE comp
           e == EntryOf(pc, taken)
<1>1. base \in Seq(Entry) /\ EntriesFit(base)
  BY DEF HistoryInv, PositionsOK, FoldsInv
<1>2. e \in Entry /\ e \in SUBSET Bits(AddrBits + 1)
  BY EntryOfType, EntryFits
<1>3. /\ ptghistsave' = IF IsKernel(pc) /\ ~ lastmode THEN ptghist ELSE ptghistsave
      /\ save' = IF IsKernel(pc) /\ ~ lastmode THEN comp ELSE save
      /\ seenSave' = IF IsKernel(pc) /\ ~ lastmode THEN seen ELSE seenSave
      /\ defined' = defined
      /\ torn' = (torn \/ (Returns(pc) /\ moved))
      /\ seen' = Remember(<<e>> \o base)
  BY DEF Enter
<1>4. \A f \in Folds : comp'[f] = Folded(f, folds[f], e, buffer'[ptghist' + Shape[f].len])
  BY DEF Enter
<1> HIDE DEF base, from, folds, e
<1>5. \A j \in 0 .. MaxLength - 1 :
         EntryAt(seen', j) = IF j = 0 THEN e ELSE EntryAt(base, j - 1)
  BY <1>1, <1>2, <1>3, RememberAt
<1>6. EntriesFit(seen)' /\ EntriesFit(seenSave)'
  <2>1. ASSUME NEW j \in 0 .. MaxLength - 1 PROVE EntryAt(seen', j) \subseteq Bits(AddrBits + 1)
    <3>1. j # 0 => j - 1 \in 0 .. MaxLength - 1
      BY RoomPositive
    <3> QED
      BY <1>1, <1>2, <1>5, <3>1 DEF EntriesFit
  <2> QED
    BY <1>3, <2>1 DEF EntriesFit, FoldsInv
<1>7. ASSUME ~ torn' PROVE FoldsAre(comp, seen)'
  <2>1. Holds(from, base) /\ from \in Position
    BY <1>3, <1>7 DEF PositionsOK, HistoryInv, BufferKept, SavedHolds, from, base, Returns
  <2>2. FoldsAre(folds, base)
    BY <1>3, <1>7 DEF FoldsInv, folds, base, Returns
  <2> SUFFICES ASSUME NEW f \in Folds, Kept(f) PROVE comp'[f] = FoldIn(f, seen')
    BY DEF FoldsAre, Kept, FitsWord, FoldIn, Meet
  <2> DEFINE n == Shape[f].len
             oldest == buffer'[ptghist' + n]
  <2>3. n \in 0 .. Least(Room, MaxLength)
    BY ShapeIs, RoomPositive DEF Kept, Least
  <2>4. oldest = IF n = 0 THEN e ELSE EntryAt(base, n - 1)
    BY <1>1, <2>1, <2>3, OldestRead DEF HistoryInv, from, base, e
  <2>5. comp'[f] = Folded(f, FoldIn(f, base), e, oldest)
    BY <1>4, <2>2 DEF FoldsAre
  <2>6. EntryAt(seen', 0) = e
    BY <1>5, RoomPositive
  <2>7. \A j \in Nat : j + 1 < MaxLength => EntryAt(seen', j + 1) = EntryAt(base, j)
    <3>1. \A j \in Nat : j + 1 < MaxLength =>
             j + 1 \in 0 .. MaxLength - 1 /\ j + 1 # 0 /\ (j + 1) - 1 = j
      BY RoomPositive
    <3> QED
      BY <1>5, <3>1
  <2>8. EntriesFit(seen')
    BY <1>6 DEF EntriesFit
  <2> HIDE DEF oldest, n
  <2>9. Folded(f, FoldIn(f, base), e, oldest) = FoldIn(f, seen')
    BY <1>1, <1>2, <2>4, <2>6, <2>7, <2>8, FoldFollows DEF Kept, n
  <2> QED
    BY <2>5, <2>9
<1>8. ASSUME ~ torn', ptghistsave' # Unset PROVE FoldsAre(save, seenSave)'
  <2>1. FoldsAre(save', seenSave')
    BY <1>3, <1>8 DEF FoldsInv
  <2> QED
    BY <2>1 DEF FoldsAre, Kept, FitsWord, FoldIn, Meet
<1> QED
  BY <1>6, <1>7, <1>8 DEF FoldsInv

LEMMA FoldsStep == HistoryInv /\ FoldsInv /\ [HistoryNext]_historyVars => FoldsInv'
<1> SUFFICES ASSUME HistoryInv, FoldsInv, [HistoryNext]_historyVars PROVE FoldsInv'
  OBVIOUS
<1>1. CASE HistoryNext
  <2>1. PICK pc \in PCs, taken \in BOOLEAN : defined /\ EnterHistory(pc, taken)
    BY <1>1 DEF HistoryNext
  <2>2. CASE Returns(pc) /\ ptghistsave = Unset
    <3>1. EnterWild
      BY <2>1, <2>2 DEF EnterHistory
    <3> QED
      BY <3>1 DEF EnterWild, FoldsInv, EntriesFit
  <2>3. CASE ~ (Returns(pc) /\ ptghistsave = Unset)
    <3>1. Enter(pc, taken)
      BY <2>1, <2>3, Zenon DEF EnterHistory
    <3> QED
      BY <2>1, <2>3, <3>1, FoldsEnter
  <2> QED
    BY <2>2, <2>3
<1>2. CASE UNCHANGED historyVars
  <2>1. /\ seen' = seen /\ seenSave' = seenSave /\ comp' = comp /\ save' = save
        /\ defined' = defined /\ torn' = torn /\ ptghistsave' = ptghistsave
    BY <1>2 DEF historyVars
  <2> QED
    BY <2>1 DEF FoldsInv, EntriesFit, FoldsAre, FoldIn, Meet
<1> QED
  BY <1>1, <1>2

LEMMA FoldsInit ==
    ASSUME NEW mode \in BOOLEAN, HistoryInit(mode) PROVE FoldsInv
<1>1. EntriesFit(<<>>)
  BY RoomPositive DEF EntriesFit, EntryAt
<1>2. \A f \in Folds : FoldIn(f, <<>>) = {}
  <2>1. ASSUME NEW f \in Folds, NEW p PROVE Meet(f, <<>>, p) = {}
    <3>1. \A j \in Bits(Shape[f].len) : EntryAt(<<>>, j) = {}
      BY DEF EntryAt, Bits
    <3> QED
      BY <3>1 DEF Meet
  <2>2. ~ OddSize({})
    BY FS_EmptySet DEF OddSize
  <2> QED
    BY <2>1, <2>2 DEF FoldIn
<1> QED
  BY <1>1, <1>2 DEF HistoryInit, FoldsInv, FoldsAre

(***************************************************************************)
(* The position and the folds together: after every move of the buffer and *)
(* every visit to the kernel, unless the kernel has moved the user's       *)
(* history, the folds of no more entries than are moved without overlap    *)
(* are those of the entries that the mode is to remember (seznec_ogehl.h   *)
(* 85-103, 737-749, 796-848), for every size of the buffer, all lengths,   *)
(* shifts and widths.                                                      *)
(***************************************************************************)
THEOREM HistoryExactTheorem == HistorySpec => []HistoryExact
<1>1. (\E mode \in BOOLEAN : HistoryInit(mode)) => HistoryInv /\ FoldsInv
  BY InitHolds, FoldsInit
<1>2. HistoryInv /\ FoldsInv /\ [HistoryNext]_historyVars => (HistoryInv /\ FoldsInv)'
  BY StepKeeps, FoldsStep
<1>3. HistoryInv /\ FoldsInv => HistoryExact
  BY FoldOfIs DEF HistoryInv, FoldsInv, HistoryExact, FoldsAre, Kept
<1> QED
  BY <1>1, <1>2, <1>3, PTL DEF HistorySpec

-----------------------------------------------------------------------------
PendingKnown ==
    /\ pending = Idle \/ (pending.kind \in {"C", "other"} /\ pending.pc \in PCs)
    /\ pending # Idle => defined

LEMMA PendingKnownInit == Init => PendingKnown
BY DEF Init, HistoryInit, PendingKnown

LEMMA PendingKnownStep == PendingKnown /\ [Next]_vars => PendingKnown'
<1> SUFFICES ASSUME PendingKnown, [Next]_vars PROVE PendingKnown'
  OBVIOUS
<1>1. ASSUME NEW pc \in PCs, Predict(pc) \/ PredictOther(pc) PROVE PendingKnown'
  BY <1>1 DEF Predict, PredictOther, PendingKnown, historyVars
<1>2. CASE pending' = Idle
  BY <1>2 DEF PendingKnown
<1>3. CASE UNCHANGED vars
  BY <1>3 DEF vars, historyVars, PendingKnown
<1> QED
  BY <1>1, <1>2, <1>3 DEF Next, Update, UpdateOther, Finish

(***************************************************************************)
(* predict() leaves the history alone and update() (730-852) moves it by   *)
(* one instruction: in the whole predictor it takes no other steps.        *)
(***************************************************************************)
THEOREM HistoryOfPredictor == Spec => HistorySpec
<1>1. Init => \E mode \in BOOLEAN : HistoryInit(mode)
  BY SeznecAssumption DEF Init
<1>2. PendingKnown /\ [Next]_vars => [HistoryNext]_historyVars
  <2> SUFFICES ASSUME PendingKnown, [Next]_vars PROVE HistoryNext \/ UNCHANGED historyVars
    OBVIOUS
  <2>1. ASSUME NEW pc \in PCs, Predict(pc) \/ PredictOther(pc) PROVE UNCHANGED historyVars
    BY <2>1 DEF Predict, PredictOther
  <2>2. CASE UNCHANGED vars
    BY <2>2 DEF vars
  <2>3. ASSUME NEW taken \in BOOLEAN, EnterHistory(pending.pc, taken), pending.kind \in {"C", "other"}
        PROVE  HistoryNext
    <3>1. pending # Idle
      BY <2>3 DEF Idle
    <3> QED
      BY <2>3, <3>1 DEF PendingKnown, HistoryNext
  <2> QED
    BY <2>1, <2>2, <2>3 DEF Next, Update, UpdateOther
<1> QED
  BY <1>1, <1>2, PendingKnownInit, PendingKnownStep, PTL DEF Spec, HistorySpec

(***************************************************************************)
(* So update() finds the history and its folds, whatever else it does.     *)
(***************************************************************************)
COROLLARY HistoryExactInPredictor == Spec => []HistoryExact
  BY HistoryOfPredictor, HistoryExactTheorem, PTL

-----------------------------------------------------------------------------
(***************************************************************************)
(* A sum of odd numbers has the parity of their number.  The sum is        *)
(* defined recursively over the subsets of its domain; that there is such  *)
(* a function is shown for subsets of one size after the other.            *)
(***************************************************************************)
LEMMA SmallestOf ==
    ASSUME NEW J, J \subseteq Nat, J # {}
    PROVE  \E k \in J : \A m \in J : ~ m < k
<1> DEFINE R == {ss \in Nat \X Nat : ss[1] < ss[2]}
<1>1. IsWellFoundedOn(R, Nat)
  BY NatLessThanWellFounded DEF OpToRel
<1> HIDE DEF R
<1>2. PICK k \in J : \A m \in J : ~ <<m, k>> \in R
  BY <1>1, WFMin, Zenon
<1> QED  BY <1>2 DEF R

Some(s) == CHOOSE x \in s : TRUE
SumStep(f, g, s) == IF s = {} THEN 0 ELSE f[Some(s)] + g[s \ {Some(s)}]
Sums(g, f) == g = [s \in SUBSET DOMAIN f |-> SumStep(f, g, s)]

LEMMA SumIs ==
    ASSUME NEW f, NEW g, Sums(g, f)
    PROVE  \E h : Sums(h, f) /\ SumFunction(f) = h[DOMAIN f]
<1>1. g = [s \in SUBSET DOMAIN f |->
             IF s = {} THEN 0
             ELSE f[CHOOSE x \in s : TRUE] + g[s \ {CHOOSE x \in s : TRUE}]]
  BY Zenon DEF Sums, SumStep, Some
<1> QED
  BY <1>1, Zenon DEF Sums, SumStep, Some, SumFunction, SumFunctionOnSet,
     FoldFunctionOnSet, MapThenFoldSet

LEMMA Fewer ==
    ASSUME NEW D, IsFiniteSet(D), NEW s \in SUBSET D, s # {}
    PROVE  /\ s \ {Some(s)} \in SUBSET D /\ Some(s) \in s
           /\ Cardinality(s) \in Nat /\ Cardinality(s \ {Some(s)}) \in Nat
           /\ Cardinality(s) = Cardinality(s \ {Some(s)}) + 1
<1>1. Some(s) \in s
  BY DEF Some
<1>2. IsFiniteSet(s)
  BY FS_Subset
<1>3. IsFiniteSet(s \ {Some(s)}) /\ Cardinality(s \ {Some(s)}) = Cardinality(s) - 1
  BY <1>1, <1>2, FS_RemoveElement
<1> QED
  BY <1>1, <1>2, <1>3, FS_CardinalityType

LEMMA SumExists ==
    ASSUME NEW f, IsFiniteSet(DOMAIN f)
    PROVE  \E g : Sums(g, f)
<1> DEFINE D == DOMAIN f
           Upto(g, n) == /\ g = [s \in SUBSET D |-> g[s]]
                         /\ \A s \in SUBSET D : Cardinality(s) <= n => g[s] = SumStep(f, g, s)
           Fails == {n \in Nat : ~ \E g : Upto(g, n)}
<1>0. IsFiniteSet(D)
  OBVIOUS
<1> HIDE DEF D
<1>1. Fails = {}
  <2> SUFFICES ASSUME Fails # {} PROVE FALSE
    OBVIOUS
  <2>1. PICK n \in Fails : \A m \in Fails : ~ m < n
    BY SmallestOf, Zenon
  <2>2. n # 0
    <3> DEFINE g == [s \in SUBSET D |-> 0]
    <3>1. g = [s \in SUBSET D |-> g[s]] /\ \A s \in SUBSET D : g[s] = 0
      OBVIOUS
    <3>2. ASSUME NEW s \in SUBSET D, Cardinality(s) <= 0 PROVE s = {}
      <4>1. IsFiniteSet(s) /\ Cardinality(s) \in Nat
        BY <1>0, FS_Subset, FS_CardinalityType
      <4> QED
        BY <3>2, <4>1, FS_EmptySet
    <3> HIDE DEF g
    <3>3. Upto(g, 0)
      BY <3>1, <3>2 DEF SumStep
    <3> QED
      BY <3>3
  <2>3. n - 1 \in Nat /\ n - 1 \notin Fails
    <3> HIDE DEF Upto
    <3>1. n \in Nat
      BY <2>1
    <3> HIDE DEF Fails
    <3>2. n - 1 \in Nat /\ n - 1 < n
      BY <2>2, <3>1
    <3> QED
      BY <2>1, <3>2, Zenon
  <2>4. PICK g : Upto(g, n - 1)
    BY <2>3
  <2> DEFINE h == [s \in SUBSET D |-> SumStep(f, g, s)]
  <2>5. h = [s \in SUBSET D |-> h[s]] /\ \A s \in SUBSET D : h[s] = SumStep(f, g, s)
    OBVIOUS
  <2> HIDE DEF h
  <2>6. ASSUME NEW s \in SUBSET D, Cardinality(s) <= n PROVE h[s] = SumStep(f, h, s)
    <3>1. CASE s = {}
      BY <2>5, <3>1 DEF SumStep
    <3>2. CASE s # {}
      <4> DEFINE r == s \ {Some(s)}
      <4>1. r \in SUBSET D /\ Cardinality(r) <= n - 1
        BY <1>0, <2>1, <2>6, <3>2, Fewer
      <4> HIDE DEF r
      <4>2. g[r] = SumStep(f, g, r)
        BY <2>4, <4>1
      <4>3. h[r] = g[r]
        BY <2>5, <4>1, <4>2
      <4> QED
        BY <2>5, <3>2, <4>3 DEF SumStep, r
    <3> QED
      BY <3>1, <3>2
  <2>7. Upto(h, n)
    BY <2>5, <2>6
  <2> QED
    BY <2>1, <2>7
<1>2. Cardinality(D) \in Nat
  BY <1>0, FS_CardinalityType
<1>3. PICK g : Upto(g, Cardinality(D))
  BY <1>1, <1>2
<1>4. \A s \in SUBSET D : g[s] = SumStep(f, g, s)
  BY <1>0, <1>3, FS_Subset
<1>5. g = [s \in SUBSET D |-> SumStep(f, g, s)]
  BY <1>3, <1>4
<1> QED
  BY <1>5 DEF Sums, D

Odd == {2 * k + 1 : k \in Int}

LEMMA SumParity ==
    ASSUME NEW f, IsFiniteSet(DOMAIN f), \A i \in DOMAIN f : f[i] \in Odd
    PROVE  \E k \in Int : SumFunction(f) = Cardinality(DOMAIN f) + 2 * k
<1> DEFINE D == DOMAIN f
<1>1. PICK g : Sums(g, f) /\ SumFunction(f) = g[D]
  BY SumExists, SumIs
<1> DEFINE Even(s) == \E k \in Int : g[s] = Cardinality(s) + 2 * k
           Sizes == {n \in Nat : \E s \in SUBSET D : Cardinality(s) = n /\ ~ Even(s)}
<1>2. \A s \in SUBSET D : g[s] = SumStep(f, g, s)
  <2> DEFINE e(s) == SumStep(f, g, s)
  <2>1. g = [s \in SUBSET D |-> e(s)]
    BY <1>1, Zenon DEF Sums
  <2> HIDE DEF e
  <2>2. \A s \in SUBSET D : g[s] = e(s)
    BY <2>1
  <2> QED
    BY <2>2 DEF e
<1>3. IsFiniteSet(D) /\ \A i \in D : f[i] \in Odd
  OBVIOUS
<1> HIDE DEF D
<1>4. ASSUME NEW n \in Sizes, \A m \in Sizes : ~ m < n PROVE FALSE
  <2>1. PICK s \in SUBSET D : Cardinality(s) = n /\ ~ Even(s)
    OBVIOUS
  <2>2. s # {}
    <3> SUFFICES ASSUME s = {} PROVE FALSE
      OBVIOUS
    <3>1. g[s] = 0 /\ Cardinality(s) = 0
      BY <1>2, FS_EmptySet DEF SumStep
    <3>2. g[s] = Cardinality(s) + 2 * 0 /\ 0 \in Int
      BY <3>1
    <3> QED
      BY <2>1, <3>2
  <2> DEFINE r == s \ {Some(s)}
  <2>3. /\ r \in SUBSET D /\ Some(s) \in s /\ Cardinality(r) \in Nat
        /\ Cardinality(s) = Cardinality(r) + 1
    BY <1>3, <2>2, Fewer
  <2>4. g[s] = f[Some(s)] + g[r]
    BY <1>2, <2>2 DEF SumStep
  <2> HIDE DEF r
  <2>5. Even(r)
    <3>1. Cardinality(r) < n
      BY <2>1, <2>3
    <3>2. Cardinality(r) \notin Sizes
      BY <1>4, <3>1
    <3> QED
      BY <2>3, <3>2
  <2>6. PICK k \in Int : g[r] = Cardinality(r) + 2 * k
    BY <2>5
  <2>7. PICK j \in Int : f[Some(s)] = 2 * j + 1
    BY <1>3, <2>3 DEF Odd
  <2>8. j + k \in Int /\ g[s] = Cardinality(s) + 2 * (j + k)
    BY <2>3, <2>4, <2>6, <2>7
  <2> QED
    BY <2>1, <2>8
<1>5. Sizes = {}
  <2> SUFFICES ASSUME Sizes # {} PROVE FALSE
    OBVIOUS
  <2>1. Sizes \subseteq Nat
    OBVIOUS
  <2> HIDE DEF Sizes
  <2>2. PICK n \in Sizes : \A m \in Sizes : ~ m < n
    BY <2>1, SmallestOf, Zenon
  <2> QED
    BY <1>4, <2>2
<1>6. Cardinality(D) \in Nat
  BY <1>3, FS_CardinalityType
<1>7. Even(D)
  BY <1>5, <1>6
<1> QED
  BY <1>1, <1>7 DEF D

-----------------------------------------------------------------------------
(***************************************************************************)
(* The threshold.                                                          *)
(***************************************************************************)
Counters == [0 .. NGehl -> [GehlIdx -> Int]]

ThetaInv ==
    /\ gehl \in Counters
    /\ theta \in Odd /\ theta > 0
    /\ pending.kind = "C" => /\ pending.index \in [0 .. NGehl -> GehlIdx]
                             /\ pending.sum \in Odd

LEMMA CounterBounds == Highest(CtrBits) \in Int /\ Lowest(CtrBits) \in Int
<1> DEFINE half == 2 ^ (CtrBits - 1)
<1>1. half \in Nat
  BY SeznecAssumption
<1>2. Highest(CtrBits) = half - 1 /\ Lowest(CtrBits) = - half
  BY DEF Highest, Lowest
<1> HIDE DEF half
<1> QED
  BY <1>1, <1>2

LEMMA CounterTrained ==
    ASSUME NEW c \in Int, NEW taken \in BOOLEAN
    PROVE  CtrUpdateBis(c, taken) \in Int
BY CounterBounds DEF CtrUpdateBis, CtrUpdate

LEMMA GehlIndexType == \A pc, i : GehlIndex(pc, i) \in GehlIdx
BY DEF GehlIndex, GehlIdx

\* The number of tables is odd, and so is what each adds.
LEMMA SumIsOdd ==
    ASSUME gehl \in Counters, NEW index \in [0 .. NGehl -> GehlIdx]
    PROVE  Sum(index) \in Odd
<1> DEFINE f == [i \in 0 .. NGehl |-> 2 * gehl[i][index[i]] + 1]
<1>1. NGehl \in Nat /\ NGehl % 2 = 0
  BY HistoryAssumption, SeznecAssumption
<1>2. IsFiniteSet(0 .. NGehl) /\ Cardinality(0 .. NGehl) = NGehl + 1
  BY <1>1, FS_Interval
<1>3. DOMAIN f = 0 .. NGehl
  OBVIOUS
<1>4. ASSUME NEW i \in 0 .. NGehl PROVE f[i] \in Odd
  <2>1. gehl[i][index[i]] \in Int
    BY DEF Counters
  <2>2. f[i] = 2 * gehl[i][index[i]] + 1
    OBVIOUS
  <2> QED
    BY <2>1, <2>2 DEF Odd
<1>5. Sum(index) = SumFunction(f)
  BY DEF Sum
<1> HIDE DEF f
<1>6. PICK k \in Int : SumFunction(f) = NGehl + 1 + 2 * k
  BY <1>2, <1>3, <1>4, SumParity
<1>7. PICK m \in Int : NGehl = 2 * m
  <2>1. NGehl = 2 * (NGehl \div 2) /\ NGehl \div 2 \in Int
    BY <1>1
  <2> QED
    BY <2>1
<1>8. k + m \in Int /\ Sum(index) = 2 * (k + m) + 1
  BY <1>5, <1>6, <1>7
<1> QED
  BY <1>8 DEF Odd

LEMMA ThetaInit == Init => ThetaInv
<1> SUFFICES ASSUME Init PROVE ThetaInv
  OBVIOUS
<1>1. gehl \in Counters
  BY DEF Init, Counters
<1>2. theta = 2 * NGehl + 1 /\ NGehl \in Nat
  BY HistoryAssumption DEF Init
<1>3. theta \in Odd /\ theta > 0
  BY <1>2 DEF Odd
<1>4. pending.kind # "C"
  BY DEF Init, Idle
<1> QED
  BY <1>1, <1>3, <1>4 DEF ThetaInv

LEMMA ThetaUpdate ==
    ASSUME ThetaInv, NEW taken \in BOOLEAN, Update(taken)
    PROVE  ThetaInv'
<1>1. GehlUpdate(pending, taken) /\ pending.kind = "C" /\ pending'.kind = "idle"
  BY DEF Update, LearnTables, Finish, Idle
<1>2. gehl' \in Counters
  <2>1. CASE gehl' = gehl
    BY <2>1 DEF ThetaInv
  <2>2. CASE gehl' = [i \in 0 .. NGehl |->
                [gehl[i] EXCEPT ![pending.index[i]] = CtrUpdateBis(@, taken)]]
    <3>1. ASSUME NEW i \in 0 .. NGehl
          PROVE  [gehl[i] EXCEPT ![pending.index[i]] = CtrUpdateBis(@, taken)] \in [GehlIdx -> Int]
      <4>1. gehl[i] \in [GehlIdx -> Int] /\ pending.index[i] \in GehlIdx
        BY <1>1 DEF ThetaInv, Counters
      <4>2. CtrUpdateBis(gehl[i][pending.index[i]], taken) \in Int
        BY <4>1, CounterTrained
      <4> QED
        BY <4>1, <4>2
    <3> QED
      BY <2>2, <3>1 DEF Counters
  <2> QED
    BY <1>1, <2>1, <2>2 DEF GehlUpdate
<1>3. theta' \in Odd /\ theta' > 0
  <2>1. PICK k \in Int : theta = 2 * k + 1
    BY DEF ThetaInv, Odd
  <2>2. PICK j \in Int : pending.sum = 2 * j + 1
    BY <1>1 DEF ThetaInv, Odd
  <2>3. theta > 0
    BY DEF ThetaInv
  <2>4. CASE theta' = theta
    BY <2>4 DEF ThetaInv
  <2>5. CASE theta' = theta + 2
    <3>1. theta' = 2 * (k + 1) + 1 /\ k + 1 \in Int /\ theta' > 0
      BY <2>1, <2>3, <2>5
    <3> QED
      BY <3>1 DEF Odd
  <2>6. CASE theta' = theta - 2 /\ Unsure(pending.sum)
    <3>1. theta # 1
      BY <2>1, <2>2, <2>6 DEF Unsure
    <3>2. theta' = 2 * (k - 1) + 1 /\ k - 1 \in Int /\ theta' > 0
      BY <2>1, <2>3, <2>6, <3>1
    <3> QED
      BY <3>2 DEF Odd
  <2> QED
    BY <1>1, <2>4, <2>5, <2>6 DEF GehlUpdate
<1> QED
  BY <1>1, <1>2, <1>3 DEF ThetaInv

LEMMA ThetaStep == ThetaInv /\ [Next]_vars => ThetaInv'
<1> SUFFICES ASSUME ThetaInv, [Next]_vars PROVE ThetaInv'
  OBVIOUS
<1>1. ASSUME NEW pc \in PCs, Predict(pc) PROVE ThetaInv'
  <2> DEFINE index == [i \in 0 .. NGehl |-> GehlIndex(pc, i)]
  <2>1. index \in [0 .. NGehl -> GehlIdx]
    BY GehlIndexType
  <2>2. /\ pending'.index = index /\ pending'.sum = Sum(index)
        /\ gehl' = gehl /\ theta' = theta
    BY <1>1 DEF Predict
  <2> HIDE DEF index
  <2>3. Sum(index) \in Odd
    BY <2>1, SumIsOdd DEF ThetaInv
  <2> QED
    BY <2>1, <2>2, <2>3 DEF ThetaInv
<1>2. ASSUME NEW pc \in PCs, PredictOther(pc) PROVE ThetaInv'
  BY <1>2 DEF PredictOther, tables, ThetaInv
<1>3. CASE UpdateOther
  BY <1>3 DEF UpdateOther, Finish, Idle, ThetaInv
<1>4. CASE UNCHANGED vars
  BY <1>4 DEF vars, tables, ThetaInv
<1> QED
  BY <1>1, <1>2, <1>3, <1>4, ThetaUpdate DEF Next

(***************************************************************************)
(* However often gehlupdate() lowers it (599-608), the threshold stays     *)
(* positive.                                                               *)
(***************************************************************************)
THEOREM ThetaPositiveTheorem == Spec => []ThetaPositive
<1>1. ThetaInv => ThetaPositive
  BY DEF ThetaInv, ThetaPositive
<1> QED
  BY <1>1, ThetaInit, ThetaStep, PTL DEF Spec

-----------------------------------------------------------------------------
(***************************************************************************)
(* Allocation.  update() finds what the prediction has looked up: the      *)
(* indices are within the tables, and the tags are still those that the    *)
(* folded histories give.                                                  *)
(***************************************************************************)
Fields == {"ctr", "tag", "u"}

LookedUp(p) ==
    /\ p.t.gi \in [Bank -> Index]
    /\ p.t.hit \in 0 .. NHist
    /\ p.t.tags = [i \in Bank |-> Tag(TagePc(p.pc, p.gehl), i, comp)]

TagInv ==
    /\ \A i \in Bank, x \in Index : Fields \subseteq DOMAIN gtable[i][x]
    /\ pending.kind = "C" => LookedUp(pending)

LEMMA SwizzledType ==
    ASSUME NEW pc, NEW v, v \subseteq Bits(LogG)
    PROVE  Swizzled(pc, v) \in Index
<1>1. LogG \in Nat /\ Swizzle \in Nat /\ Swizzle + 1 < LogG
  BY HistoryAssumption, SeznecAssumption
<1>2. ShiftRight(v, 1) \subseteq Bits(LogG - 1)
  BY <1>1 DEF ShiftRight, Bits
<1>3. SymDiff(ShiftRight(v, 1), BitIf(0 \in v, Swizzle)) \subseteq Bits(LogG - 1)
  BY <1>1, <1>2 DEF SymDiff, BitIf, Bits
<1>4. ASSUME NEW w, w \subseteq Bits(LogG - 1) PROVE ShiftLeft(w, 1) \subseteq Bits(LogG)
  BY <1>1, <1>4 DEF ShiftLeft, Bits
<1>5. ShiftLeft(SymDiff(ShiftRight(v, 1), BitIf(0 \in v, Swizzle)), 1) \subseteq Bits(LogG)
  BY <1>3, <1>4
<1>6. pc \cap {0} \subseteq Bits(LogG)
  BY <1>1 DEF Bits
<1> QED
  BY <1>5, <1>6 DEF Swizzled, Index

\* The bank with the longest history is one of those that match.
LEMMA MaxIn ==
    ASSUME NEW S, NEW n \in Nat, S \subseteq 0 .. n, S # {}
    PROVE  Max(S) \in S
<1> DEFINE K == {n - k : k \in S}
<1>1. \A k \in S : n - k \in Nat /\ k \in 0 .. n
  OBVIOUS
<1>2. K \subseteq Nat /\ K # {}
  BY <1>1
<1>3. PICK x \in K : \A y \in K : ~ y < x
  BY <1>2, SmallestOf, Zenon
<1>4. PICK k \in S : x = n - k
  OBVIOUS
<1>5. \A m \in S : ~ n - m < n - k
  BY <1>3, <1>4
<1>6. \A m \in S : k >= m
  BY <1>1, <1>5
<1> QED
  BY <1>6 DEF Max

LEMMA PredictTageLooksUp ==
    ASSUME NEW pc, NEW predgehl
    PROVE  LET t == PredictTage(pc, predgehl)
           IN  /\ t.gi \in [Bank -> Index] /\ t.hit \in 0 .. NHist
               /\ t.tags = [i \in Bank |-> Tag(TagePc(pc, predgehl), i, comp)]
<1> DEFINE t == PredictTage(pc, predgehl)
           tpc == TagePc(pc, predgehl)
           gi == [i \in Bank |-> Swizzled(tpc, TageIndex(tpc, i))]
           tags == [i \in Bank |-> Tag(tpc, i, comp)]
           matching == {i \in Bank : gtable[i][gi[i]].tag = tags[i]}
<1>1. \A i : TageIndex(tpc, i) \subseteq Bits(LogG)
  BY DEF TageIndex
<1>2. gi \in [Bank -> Index]
  BY <1>1, SwizzledType
<1>3. Max(matching \cup {0}) \in 0 .. NHist
  <2>0. matching \subseteq Bank
    OBVIOUS
  <2> HIDE DEF matching
  <2>1. NHist \in Nat /\ matching \cup {0} \subseteq 0 .. NHist /\ matching \cup {0} # {}
    BY <2>0, HistoryAssumption DEF Bank
  <2>2. Max(matching \cup {0}) \in matching \cup {0}
    BY <2>1, MaxIn, Zenon
  <2> QED
    BY <2>1, <2>2
<1>4. t.gi = gi /\ t.tags = tags
  BY DEF PredictTage
<1>5. t.hit = Max(matching \cup {0})
  <2>1. t.hit = Max({i \in Bank : [j \in Bank |-> gtable[j][gi[j]]][i].tag = tags[i]} \cup {0})
    BY DEF PredictTage
  <2>2. {i \in Bank : [j \in Bank |-> gtable[j][gi[j]]][i].tag = tags[i]} = matching
    OBVIOUS
  <2> QED
    BY <2>1, <2>2
<1> HIDE DEF t, gi, matching
<1>6. t.gi \in [Bank -> Index] /\ t.hit \in 0 .. NHist /\ t.tags = tags
  BY <1>2, <1>3, <1>4, <1>5
<1> QED
  BY <1>6 DEF t

\* Training and ageing leave the tag as it is.
LEMMA TagKept ==
    ASSUME NEW p, NEW taken, NEW e, Fields \subseteq DOMAIN e, NEW i
    PROVE  /\ Fields \subseteq DOMAIN Aged(e) /\ Aged(e).tag = e.tag
           /\ Fields \subseteq DOMAIN Trained(p, taken, e, i)
           /\ Trained(p, taken, e, i).tag = e.tag
<1>1. Fields \subseteq DOMAIN Aged(e) /\ Aged(e).tag = e.tag
  BY DEF Aged, Fields
<1>2. ASSUME NEW c, NEW u
      PROVE  LET r == [e EXCEPT !.ctr = c]   s == [r EXCEPT !.u = u]
             IN  /\ Fields \subseteq DOMAIN r /\ r.tag = e.tag
                 /\ Fields \subseteq DOMAIN s /\ s.tag = e.tag
  BY DEF Fields
<1>3. /\ Fields \subseteq DOMAIN Trained(p, taken, e, i)
      /\ Trained(p, taken, e, i).tag = e.tag
  BY <1>2, Zenon DEF Trained
<1> QED
  BY <1>1, <1>3

\* What an update does to the tables of TAGE, with the banks it trains.
Trains(p) ==
    LET hit == p.t.hit
    IN  {hit} \cup (IF hit > 0 /\ Aged(gtable[hit][p.t.gi[hit]]).u = 0 THEN {p.t.alt} ELSE {})

EntryOfBank(p, taken, random, folds, i) ==
    LET e == Aged(AfterAllocation(p, taken, random, folds, i))
    IN  IF i \in Trains(p) THEN Trained(p, taken, e, i) ELSE e

LEMMA TageUpdateIs ==
    ASSUME NEW p, NEW taken, NEW random, NEW folds, TageUpdate(p, taken, random, folds)
    PROVE  gtable' = [i \in Bank |-> [x \in Index |->
                        IF x = p.t.gi[i] THEN EntryOfBank(p, taken, random, folds, i)
                                         ELSE Aged(gtable[i][x])]]
BY Zenon DEF TageUpdate, EntryOfBank, Trains

\* So that an entry has the tag that its allocation has given it, or its own.
LEMMA EntryAfter ==
    ASSUME TagInv, NEW taken \in BOOLEAN, Update(taken), NEW i \in Bank
    PROVE  LET p == pending   x == p.t.gi[i]
           IN  /\ \A y \in Index : Fields \subseteq DOMAIN gtable'[i][y]
               /\ gtable'[i][x].tag = AfterAllocation(p, taken, seed', comp, i).tag
<1> DEFINE p == pending
           x == p.t.gi[i]
           a == AfterAllocation(p, taken, seed', comp, i)
<1>1. TageUpdate(p, taken, seed', comp) /\ LookedUp(p)
  BY DEF Update, LearnTables, TagInv
<1>2. x \in Index /\ Fields \subseteq DOMAIN gtable[i][x]
  BY <1>1 DEF LookedUp, TagInv
<1>3. Fields \subseteq DOMAIN a
  BY <1>2 DEF AfterAllocation, Fields
<1> HIDE DEF a
<1>4. gtable'[i][x] \in {Aged(a), Trained(p, taken, Aged(a), i)}
  <2>1. gtable'[i][x] = EntryOfBank(p, taken, seed', comp, i)
    BY <1>1, <1>2, TageUpdateIs
  <2> QED
    BY <2>1 DEF a, EntryOfBank
<1>5. \A y \in Index : y # x => gtable'[i][y] = Aged(gtable[i][y])
  BY <1>1, TageUpdateIs
<1>6. Fields \subseteq DOMAIN gtable'[i][x] /\ gtable'[i][x].tag = a.tag
  BY <1>3, <1>4, TagKept
<1>7. ASSUME NEW y \in Index PROVE Fields \subseteq DOMAIN gtable'[i][y]
  BY <1>5, <1>6, TagKept DEF TagInv
<1> QED
  BY <1>6, <1>7 DEF a

LEMMA TagInit == Init => TagInv
BY DEF Init, NewEntry, Fields, Idle, TagInv

LEMMA TagStep == TagInv /\ [Next]_vars => TagInv'
<1> SUFFICES ASSUME TagInv, [Next]_vars PROVE TagInv'
  OBVIOUS
<1>1. ASSUME NEW pc \in PCs, Predict(pc) PROVE TagInv'
  <2>1. /\ gtable' = gtable /\ comp' = comp
        /\ pending'.pc = pc /\ pending'.t = PredictTage(pc, pending'.gehl)
    BY <1>1 DEF Predict, historyVars
  <2>2. LookedUp(pending)'
    BY <2>1, PredictTageLooksUp DEF LookedUp
  <2> QED
    BY <2>1, <2>2 DEF TagInv
<1>2. ASSUME NEW pc \in PCs, PredictOther(pc) PROVE TagInv'
  BY <1>2 DEF PredictOther, tables, TagInv
<1>3. ASSUME NEW taken \in BOOLEAN, Update(taken) PROVE TagInv'
  <2>1. pending'.kind = "idle"
    BY <1>3 DEF Update, Finish, Idle
  <2> QED
    BY <1>3, <2>1, EntryAfter DEF TagInv
<1>4. CASE UpdateOther
  BY <1>4 DEF UpdateOther, Finish, Idle, TagInv
<1>5. CASE UNCHANGED vars
  BY <1>5 DEF vars, historyVars, tables, TagInv, LookedUp
<1> QED
  BY <1>1, <1>2, <1>3, <1>4, <1>5 DEF Next

LEMMA ReplacedAbove ==
    ASSUME NEW p, p.t.hit \in 0 .. NHist, NEW taken, NEW random, NEW i \in Replaced(p, taken, random)
    PROVE  /\ i > p.t.hit
           /\ gtable[i][p.t.gi[i]].u > 0 =>
                 \A j \in p.t.hit + 1 .. NHist : gtable[j][p.t.gi[j]].u > 0
<1> DEFINE u == [j \in Bank |-> gtable[j][p.t.gi[j]].u]
           none == \A j \in p.t.hit + 1 .. NHist : u[j] > 0
           x == FirstBank(p, random)
<1>1. x \in {p.t.hit + 1, p.t.hit + 2, p.t.hit + 3}
  BY DEF FirstBank
<1>2. i \in {j \in x .. NHist : IF none THEN u[j] = 1 /\ j # x ELSE u[j] = 0}
  BY DEF Replaced
<1> HIDE DEF x
<1>3. NHist \in Nat
  BY HistoryAssumption
<1>4. i \in x .. NHist /\ (none => u[i] = 1 /\ i # x) /\ (~ none => u[i] = 0)
  <2> HIDE DEF u, none
  <2> QED
    BY <1>2
<1>5. i \in Bank /\ i > p.t.hit
  BY <1>1, <1>3, <1>4 DEF Bank
<1>6. u[i] = gtable[i][p.t.gi[i]].u
  BY <1>5
<1>7. ASSUME NEW j \in p.t.hit + 1 .. NHist PROVE u[j] = gtable[j][p.t.gi[j]].u
  BY <1>3 DEF Bank
<1> HIDE DEF u
<1>8. none \/ ~ (u[i] > 0)
  BY <1>4
<1> QED
  BY <1>5, <1>6, <1>7, <1>8

(***************************************************************************)
(* An entry is replaced only above the provider, under the tag that was    *)
(* looked for, and a useful one only when every one there was useful.      *)
(***************************************************************************)
THEOREM AllocationTheorem == Spec => AllocatesWhatMissed
<1>1. ASSUME TagInv, [Next]_vars, NEW i \in Bank, pending.kind = "C", pending' = Idle,
             gtable[i][pending.t.gi[i]].tag # gtable'[i][pending.t.gi[i]].tag
      PROVE  /\ i > pending.t.hit
             /\ gtable'[i][pending.t.gi[i]].tag = pending.t.tags[i]
             /\ gtable[i][pending.t.gi[i]].u > 0 =>
                   \A j \in pending.t.hit + 1 .. NHist : gtable[j][pending.t.gi[j]].u > 0
  <2>1. PICK taken \in BOOLEAN : Update(taken)
    <3>1. pending.kind # "idle" /\ pending # pending'
      BY <1>1 DEF Idle
    <3>2. ~ UpdateOther
      BY <1>1 DEF UpdateOther
    <3>3. ~ UNCHANGED vars
      BY <3>1 DEF vars
    <3>4. \A pc \in PCs : ~ Predict(pc) /\ ~ PredictOther(pc)
      BY <3>1 DEF Predict, PredictOther, Idle
    <3> QED
      BY <1>1, <3>2, <3>3, <3>4 DEF Next
  <2> DEFINE p == pending
             e == gtable[i][p.t.gi[i]]
             a == AfterAllocation(p, taken, seed', comp, i)
  <2>2. LookedUp(p) /\ gtable'[i][p.t.gi[i]].tag = a.tag
    BY <1>1, <2>1, EntryAfter DEF TagInv
  <2>3. p.t.hit \in 0 .. NHist /\ Fields \subseteq DOMAIN e
    BY <1>1, <2>2 DEF LookedUp, TagInv
  <2>4. i \notin Replaced(p, taken, seed') => a.tag = e.tag
    BY <2>3 DEF AfterAllocation, Fields
  <2>5. i \in Replaced(p, taken, seed')
    BY <1>1, <2>2, <2>4
  <2>6. a.tag = p.t.tags[i]
    BY <2>2, <2>5 DEF AfterAllocation, LookedUp
  <2> HIDE DEF a
  <2> QED
    BY <2>2, <2>3, <2>5, <2>6, ReplacedAbove
<1>2. TagInv /\ [Next]_vars =>
        [ \A i \in Bank : LET e == gtable[i][pending.t.gi[i]]
                              f == gtable'[i][pending.t.gi[i]]
                          IN  pending.kind = "C" /\ pending' = Idle /\ e.tag # f.tag =>
            /\ i > pending.t.hit
            /\ f.tag = pending.t.tags[i]
            /\ e.u > 0 => \A j \in pending.t.hit + 1 .. NHist :
                             gtable[j][pending.t.gi[j]].u > 0
        ]_vars
  BY <1>1
<1> QED
  BY <1>2, TagInit, TagStep, PTL DEF Spec, AllocatesWhatMissed

-----------------------------------------------------------------------------
(***************************************************************************)
(* Types.  The counters of all tables stay within their widths, except     *)
(* WORTHHYBRID, which starts anywhere in its byte and stays there.         *)
(***************************************************************************)
LoopEntry == [NbIter : Int, confid : 0 .. MaxConfid, CurrentIter : Nat,
              tag : SUBSET Bits(Word), Dir : BOOLEAN]
TageEntry == [ctr : Counter(CBits), tag : SUBSET Bits(TBits), u : 0 .. 3]

GehlOK ==
    /\ gehl \in [0 .. NGehl -> [GehlIdx -> Counter(CtrBits)]]
    /\ theta \in Int /\ countThreshold \in -CountLimit - 1 .. CountLimit
TageOK ==
    /\ gtable \in [Bank -> [Index -> TageEntry]]
    /\ useAltOnNa \in Counter(4) /\ tick \in 0 .. 2 ^ LogTick - 1
ChoiceOK ==
    /\ mtable \in [0 .. 2 -> [Index -> Counter(6)]]
    /\ worthHybrid \in Int8 /\ withLoop \in Counter(6)
LoopOK == ltable \in [Loop -> LoopEntry]
FoldsFit == \A f \in Folds : comp[f] \subseteq Bits(Shape[f].width)

TypeInv == GehlOK /\ TageOK /\ ChoiceOK /\ LoopOK /\ FoldsFit /\ seed \in 0 .. 3

Widths == {4, 6, 7, CBits, CtrBits}

\* A step of a counter stays within its width.
LEMMA CounterStep ==
    ASSUME NEW bits \in Widths
    PROVE  /\ {-1, 0} \subseteq Counter(bits)
           /\ Lowest(bits) \in Int /\ Highest(bits) \in Int
           /\ \A c \in Counter(bits) : \A up : CtrUpdate(c, up, bits) \in Counter(bits)
<1>1. 2 ^ (bits - 1) \in Nat \ {0}
  BY SeznecAssumption DEF Widths
<1> DEFINE n == 2 ^ (bits - 1)
<1>2. Lowest(bits) = -n /\ Highest(bits) = n - 1 /\ n \in Nat \ {0}
  BY <1>1 DEF Lowest, Highest
<1> HIDE DEF n
<1>3. {-1, 0} \subseteq Counter(bits)
  BY <1>2 DEF Counter
<1>4. ASSUME NEW c \in Counter(bits), NEW up PROVE CtrUpdate(c, up, bits) \in Counter(bits)
  BY <1>2 DEF Counter, CtrUpdate
<1> QED
  BY <1>2, <1>3, <1>4

\* A step of a counter of seven bits keeps its int8_t from overflowing, also
\* from where no such counter should be.
LEMMA ByteStep ==
    ASSUME NEW c \in Int8, NEW up
    PROVE  CtrUpdate(c, up, 7) \in Int8
<1>1. Lowest(7) \in Int /\ Highest(7) \in Int /\ {-1, 0} \subseteq Counter(7)
  BY CounterStep DEF Widths
<1>2. Lowest(7) \in Counter(7) /\ Highest(7) \in Counter(7)
  BY <1>1 DEF Counter
<1>3. -128 <= Lowest(7) /\ Highest(7) <= 127
  BY <1>2, SeznecAssumption DEF Int8
<1> QED
  BY <1>1, <1>3 DEF CtrUpdate, Int8

LEMMA DoubleStep ==
    ASSUME NEW c \in Counter(CtrBits), NEW taken
    PROVE  CtrUpdateBis(c, taken) \in Counter(CtrBits)
<1>1. Fast \subseteq Lowest(CtrBits) + 2 .. Highest(CtrBits) - 2
  BY SeznecAssumption
<1>2. CtrBits \in Widths
  BY DEF Widths
<1>3. Lowest(CtrBits) \in Int /\ Highest(CtrBits) \in Int /\ CtrUpdate(c, taken, CtrBits) \in Counter(CtrBits)
  BY <1>2, CounterStep
<1> QED
  BY <1>1, <1>3 DEF CtrUpdateBis, Counter

LEMMA GehlKept ==
    ASSUME GehlOK, NEW p, NEW taken, GehlUpdate(p, taken) PROVE GehlOK'
<1>1. CASE UNCHANGED <<gehl, theta, countThreshold>>
  BY <1>1 DEF GehlOK
<1>2. CASE /\ gehl' = [i \in 0 .. NGehl |->
                         [gehl[i] EXCEPT ![p.index[i]] = CtrUpdateBis(@, taken)]]
           /\ \E count \in {countThreshold + 1, countThreshold - 1} :
                countThreshold' = IF count \notin -CountLimit - 1 .. CountLimit THEN 0 ELSE count
           /\ theta' \in {theta, theta - 2, theta + 2}
  <2>1. ASSUME NEW i \in 0 .. NGehl
        PROVE  [gehl[i] EXCEPT ![p.index[i]] = CtrUpdateBis(@, taken)] \in [GehlIdx -> Counter(CtrBits)]
    <3>1. gehl[i] \in [GehlIdx -> Counter(CtrBits)]
      BY DEF GehlOK
    <3> QED
      BY <3>1, DoubleStep
  <2>2. gehl' \in [0 .. NGehl -> [GehlIdx -> Counter(CtrBits)]]
    BY <1>2, <2>1
  <2>3. CountLimit \in Nat
    BY SeznecAssumption
  <2> QED
    BY <1>2, <2>2, <2>3 DEF GehlOK
<1> QED
  BY <1>1, <1>2 DEF GehlUpdate

LEMMA ChoiceKept ==
    ASSUME ChoiceOK, NEW p, NEW taken, UpdateMeta(p, taken), UpdateWithLoop(p, taken)
    PROVE  ChoiceOK'
<1>1. 6 \in Widths
  BY DEF Widths
<1>2. withLoop' \in Counter(6) /\ worthHybrid' \in Int8
  BY <1>1, CounterStep, ByteStep DEF ChoiceOK, UpdateMeta, UpdateWithLoop
<1>3. mtable' \in [0 .. 2 -> [Index -> Counter(6)]]
  <2>1. ASSUME NEW t \in 0 .. 2, NEW x, NEW up
        PROVE  [mtable[t] EXCEPT ![x] = CtrUpdate(@, up, 6)] \in [Index -> Counter(6)]
    <3>1. mtable[t] \in [Index -> Counter(6)]
      BY DEF ChoiceOK
    <3> QED
      BY <1>1, <3>1, CounterStep
  <2>2. CASE mtable' = mtable
    BY <2>2 DEF ChoiceOK
  <2>3. CASE mtable' = [t \in 0 .. 2 |-> [mtable[t] EXCEPT
                ![MetaIndex(p.pc, p.t.gi)[t]] = CtrUpdate(@, p.t.tage = taken, 6)]]
    BY <2>1, <2>3
  <2> QED
    BY <2>2, <2>3 DEF UpdateMeta
<1> QED
  BY <1>2, <1>3 DEF ChoiceOK

\* An entry some of whose fields are replaced is one again.
LEMMA FieldsReplaced ==
    ASSUME NEW A, NEW B, NEW C, NEW T, NEW D,
           NEW e \in [NbIter : A, confid : B, CurrentIter : C, tag : T, Dir : D],
           NEW a \in A, NEW b \in B, NEW c \in C, NEW d \in D
    PROVE  LET S == [NbIter : A, confid : B, CurrentIter : C, tag : T, Dir : D]
           IN  /\ [e EXCEPT !.Dir = d, !.NbIter = a, !.CurrentIter = c] \in S
               /\ [e EXCEPT !.CurrentIter = c, !.confid = b] \in S
               /\ [e EXCEPT !.CurrentIter = c, !.NbIter = a, !.confid = b] \in S
OBVIOUS

LEMMA LoopStepType ==
    ASSUME NEW e \in LoopEntry, NEW taken \in BOOLEAN PROVE LoopStep(e, taken) \in LoopEntry
<1> DEFINE n == e.CurrentIter + 1
           doubt == IF n > e.NbIter THEN 0 ELSE e.confid
<1>1. MaxConfid \in Nat \ {0}
  BY SeznecAssumption
<1>2. n \in Nat /\ doubt \in 0 .. MaxConfid /\ e.confid \in 0 .. MaxConfid
  BY <1>1 DEF LoopEntry
<1>3. Least(doubt + 1, MaxConfid) \in 0 .. MaxConfid
  BY <1>1, <1>2 DEF Least
<1>4. [e EXCEPT !.Dir = taken, !.NbIter = 0, !.CurrentIter = 1] \in LoopEntry
  <2>1. 0 \in Int /\ 1 \in Nat
    OBVIOUS
  <2> QED
    BY <1>2, <2>1, FieldsReplaced, Zenon DEF LoopEntry
<1> HIDE DEF n, doubt
<1>5. ASSUME NEW c \in 0 .. MaxConfid
      PROVE  /\ [e EXCEPT !.CurrentIter = n, !.confid = c] \in LoopEntry
             /\ [e EXCEPT !.CurrentIter = 0, !.confid = c] \in LoopEntry
             /\ [e EXCEPT !.CurrentIter = 0, !.NbIter = n, !.confid = c] \in LoopEntry
  <2>1. 0 \in Nat /\ 0 \in Int /\ n \in Int
    BY <1>2
  <2> QED
    BY <1>2, <2>1, FieldsReplaced, Zenon DEF LoopEntry
<1> DEFINE counted == IF n < 3 THEN 0 ELSE Least(doubt + 1, MaxConfid)
<1>6. counted \in 0 .. MaxConfid /\ 0 \in 0 .. MaxConfid
  BY <1>1, <1>3
<1>7. LoopStep(e, taken) =
        IF e.NbIter = -1 THEN [e EXCEPT !.Dir = taken, !.NbIter = 0, !.CurrentIter = 1]
        ELSE CASE taken = e.Dir -> [e EXCEPT !.CurrentIter = n, !.confid = doubt]
               [] taken # e.Dir /\ n = e.NbIter -> [e EXCEPT !.CurrentIter = 0, !.confid = counted]
               [] OTHER -> [e EXCEPT !.CurrentIter = 0, !.NbIter = n, !.confid = 0]
  BY Zenon DEF LoopStep, n, doubt
<1> HIDE DEF counted
<1>8. LoopStep(e, taken) \in
        {[e EXCEPT !.Dir = taken, !.NbIter = 0, !.CurrentIter = 1],
         [e EXCEPT !.CurrentIter = n, !.confid = doubt],
         [e EXCEPT !.CurrentIter = 0, !.confid = counted],
         [e EXCEPT !.CurrentIter = 0, !.NbIter = n, !.confid = 0]}
  BY <1>7
<1> QED
  BY <1>2, <1>4, <1>5, <1>6, <1>8

LEMMA LoopKept ==
    ASSUME LoopOK, NEW p, NEW taken \in BOOLEAN, LoopUpdate(p, taken) PROVE LoopOK'
<1>1. LoopOf(p.pc) \in Loop
  BY DEF LoopOf, Loop
<1>2. LoopStep(ltable[LoopOf(p.pc)], taken) \in LoopEntry
  BY <1>1, LoopStepType DEF LoopOK
<1> QED
  BY <1>1, <1>2 DEF LoopOK, LoopUpdate

\* What each part of an update makes of an entry of TAGE.
LEMMA TageEntryType ==
    ASSUME NEW e \in TageEntry, NEW p, NEW taken, NEW i
    PROVE  Aged(e) \in TageEntry /\ Trained(p, taken, e, i) \in TageEntry
<1>1. Aged(e) \in TageEntry
  <2>1. e.u \in 0 .. 3 /\ e.u \div 2 \in 0 .. 3
    BY DEF TageEntry
  <2> QED
    BY <2>1 DEF Aged, TageEntry
<1>2. CtrUpdate(e.ctr, taken, CBits) \in Counter(CBits)
  <2>1. CBits \in Widths /\ e.ctr \in Counter(CBits)
    BY DEF Widths, TageEntry
  <2> QED
    BY <2>1, CounterStep
<1> DEFINE counted == [e EXCEPT !.ctr = CtrUpdate(@, taken, CBits)]
<1>3. counted \in TageEntry
  BY <1>2 DEF TageEntry
<1>4. ASSUME NEW u \in {e.u, Least(e.u + 1, 3), e.u - 1}, u = e.u - 1 => e.u > 0
      PROVE  [counted EXCEPT !.u = u] \in TageEntry
  <2>1. u \in 0 .. 3
    BY <1>4 DEF TageEntry, Least
  <2> HIDE DEF counted
  <2> QED
    BY <1>3, <2>1 DEF TageEntry
<1>5. Trained(p, taken, e, i) \in TageEntry
  <2> HIDE DEF counted
  <2> DEFINE useAlt == UseAlt(p, taken)
             tage == IF PseudoNew(p) /\ useAlt >= 0 THEN LongestMatch(p) ELSE p.t.tage
             u == CASE tage = p.t.alttaken -> e.u
                    [] tage # p.t.alttaken /\ tage = taken -> Least(e.u + 1, 3)
                    [] OTHER -> IF useAlt < 0 /\ e.u > 0 THEN e.u - 1 ELSE e.u
  <2>1. Trained(p, taken, e, i) = IF i = p.t.hit THEN [counted EXCEPT !.u = u] ELSE counted
    BY Zenon DEF Trained, counted
  <2> HIDE DEF tage, useAlt
  <2>2. u \in {e.u, Least(e.u + 1, 3), e.u - 1} /\ (u = e.u - 1 => e.u > 0)
    BY DEF TageEntry, Least
  <2> HIDE DEF u
  <2>3. [counted EXCEPT !.u = u] \in TageEntry
    BY <1>4, <2>2
  <2>4. Trained(p, taken, e, i) \in {counted, [counted EXCEPT !.u = u]}
    BY <2>1
  <2> QED
    BY <1>3, <2>3, <2>4
<1> QED
  BY <1>1, <1>5

LEMMA AllocatedType ==
    ASSUME TageOK, LookedUp(pending), NEW taken, NEW random, NEW i \in Bank
    PROVE  AfterAllocation(pending, taken, random, comp, i) \in TageEntry
<1> DEFINE e == gtable[i][pending.t.gi[i]]
<1>1. e \in TageEntry
  BY DEF TageOK, LookedUp
<1>2. CBits \in Widths
  BY DEF Widths
<1>3. {-1, 0} \subseteq Counter(CBits)
  BY <1>2, CounterStep
<1>4. Tag(TagePc(pending.pc, pending.gehl), i, comp) \in SUBSET Bits(TBits)
  BY DEF Tag
<1>5. [e EXCEPT !.u = 0] \in TageEntry
  <2> HIDE DEF e
  <2> QED
    BY <1>1 DEF TageEntry
<1>6. [ctr |-> IF taken THEN 0 ELSE -1, u |-> 0,
       tag |-> Tag(TagePc(pending.pc, pending.gehl), i, comp)] \in TageEntry
  BY <1>3, <1>4 DEF TageEntry
<1> QED
  BY <1>1, <1>5, <1>6 DEF AfterAllocation

LEMMA TageKept ==
    ASSUME TageOK, LookedUp(pending), NEW taken,
           TageUpdate(pending, taken, seed', comp)
    PROVE  TageOK'
<1> DEFINE p == pending
           a(i) == Aged(AfterAllocation(p, taken, seed', comp, i))
<1>1. useAltOnNa' \in Counter(4)
  <2>1. 4 \in Widths
    BY DEF Widths
  <2> QED
    BY <2>1, CounterStep DEF TageOK, TageUpdate, UseAlt
<1>2. tick' \in 0 .. 2 ^ LogTick - 1
  <2> DEFINE n == 2 ^ LogTick
  <2>1. n \in Nat \ {0}
    BY SeznecAssumption
  <2>2. tick' = (tick + 1) % n /\ tick \in 0 .. n - 1
    BY DEF TageOK, TageUpdate
  <2> HIDE DEF n
  <2>3. tick' \in 0 .. n - 1
    BY <2>1, <2>2
  <2> QED
    BY <2>3 DEF n
<1>3. gtable' \in [Bank -> [Index -> TageEntry]]
  <2>1. gtable' = [i \in Bank |-> [x \in Index |->
                IF x = p.t.gi[i] THEN EntryOfBank(p, taken, seed', comp, i)
                                 ELSE Aged(gtable[i][x])]]
    BY TageUpdateIs
  <2>2. ASSUME NEW i \in Bank PROVE a(i) \in TageEntry /\ Trained(p, taken, a(i), i) \in TageEntry
    BY AllocatedType, TageEntryType
  <2>3. ASSUME NEW i \in Bank, NEW x \in Index PROVE Aged(gtable[i][x]) \in TageEntry
    BY TageEntryType DEF TageOK
  <2>4. ASSUME NEW i \in Bank PROVE EntryOfBank(p, taken, seed', comp, i) \in TageEntry
    BY <2>2 DEF EntryOfBank
  <2> QED
    BY <2>1, <2>3, <2>4
<1> QED
  BY <1>1, <1>2, <1>3 DEF TageOK

LEMMA FoldsKept ==
    ASSUME FoldsFit, NEW pc, NEW taken, EnterHistory(pc, taken) PROVE FoldsFit'
<1>1. CASE EnterWild
  BY <1>1 DEF EnterWild, FoldsFit
<1>2. CASE Enter(pc, taken)
  BY <1>2 DEF Enter, Folded, FoldsFit
<1> QED
  BY <1>1, <1>2 DEF EnterHistory

LEMMA TypeInit == Init => TypeInv
<1> SUFFICES ASSUME Init PROVE TypeInv
  OBVIOUS
<1>1. \A bits \in Widths : {-1, 0} \subseteq Counter(bits)
  BY CounterStep
<1>2. {-4, 3} \subseteq Counter(CtrBits) /\ CountLimit \in Nat /\ MaxConfid \in Nat
  BY SeznecAssumption
<1>3. GehlOK
  BY <1>2, HistoryAssumption DEF Init, GehlOK
<1>4. TageOK
  <2>1. tick \in 0 .. 2 ^ LogTick - 1
    BY SeznecAssumption DEF Init
  <2>2. NewEntry \in TageEntry /\ 0 \in Counter(4)
    BY <1>1 DEF NewEntry, TageEntry, Widths
  <2> QED
    BY <2>1, <2>2 DEF Init, TageOK
<1>5. ChoiceOK
  <2>1. worthHybrid \in Int8
    BY SeznecAssumption DEF Init
  <2>2. -1 \in Counter(6) /\ 0 \in Counter(6)
    BY <1>1 DEF Widths
  <2> QED
    BY <2>1, <2>2 DEF Init, ChoiceOK
<1>6. LoopOK
  <2>1. PICK g \in Garbage : ltable = [l \in Loop |-> NewLoop(g.tag)]
    BY DEF Init
  <2>2. g.tag \in SUBSET Bits(Word)
    BY SeznecAssumption
  <2>3. NewLoop(g.tag) \in LoopEntry
    BY <1>2, <2>2 DEF NewLoop, LoopEntry
  <2> QED
    BY <2>1, <2>3 DEF LoopOK
<1>7. FoldsFit
  BY DEF Init, HistoryInit, FoldsFit
<1>8. seed \in 0 .. 3
  BY DEF Init
<1> QED
  BY <1>3, <1>4, <1>5, <1>6, <1>7, <1>8 DEF TypeInv

LEMMA TypeStep == TypeInv /\ TagInv /\ [Next]_vars => TypeInv'
<1> SUFFICES ASSUME TypeInv, TagInv, [Next]_vars PROVE TypeInv'
  OBVIOUS
<1> USE DEF TypeInv
<1>1. ASSUME NEW pc \in PCs, Predict(pc) PROVE TypeInv'
  <2>1. UNCHANGED <<comp, gehl, theta, countThreshold, gtable, useAltOnNa, tick, seed,
                    mtable, worthHybrid, withLoop>>
    BY <1>1 DEF Predict, historyVars
  <2>2. LoopOK'
    <3>1. ltable' = [ltable EXCEPT ![LoopOf(pc)].tag = pc]
      BY <1>1 DEF Predict
    <3>2. pc \in SUBSET Bits(Word) /\ LoopOf(pc) \in Loop
      BY HistoryAssumption DEF LoopOf, Loop
    <3>3. \A e \in LoopEntry : [e EXCEPT !.tag = pc] \in LoopEntry
      BY <3>2 DEF LoopEntry
    <3> QED
      BY <3>1, <3>2, <3>3 DEF LoopOK
  <2> QED
    BY <2>1, <2>2 DEF GehlOK, TageOK, ChoiceOK, FoldsFit
<1>2. ASSUME NEW pc \in PCs, PredictOther(pc) PROVE TypeInv'
  BY <1>2 DEF PredictOther, tables, historyVars, GehlOK, TageOK, ChoiceOK, LoopOK, FoldsFit
<1>3. ASSUME NEW taken \in BOOLEAN, Update(taken) PROVE TypeInv'
  <2>1. /\ UpdateWithLoop(pending, taken) /\ UpdateMeta(pending, taken)
        /\ LoopUpdate(pending, taken) /\ GehlUpdate(pending, taken)
        /\ TageUpdate(pending, taken, seed', comp)
        /\ EnterHistory(pending.pc, taken) /\ seed' = (seed + 1) % 4 /\ LookedUp(pending)
    BY <1>3 DEF Update, LearnTables, TagInv
  <2>2. seed' \in 0 .. 3
    BY <2>1
  <2> QED
    BY <2>1, <2>2, GehlKept, ChoiceKept, LoopKept, TageKept, FoldsKept
<1>4. CASE UpdateOther
  <2>1. EnterHistory(pending.pc, TRUE) /\ seed' = (seed + 1) % 4
    BY <1>4 DEF UpdateOther
  <2>2. seed' \in 0 .. 3
    BY <2>1
  <2>3. FoldsFit'
    BY <2>1, FoldsKept
  <2> QED
    BY <1>4, <2>2, <2>3 DEF UpdateOther, GehlOK, TageOK, ChoiceOK, LoopOK
<1>5. CASE UNCHANGED vars
  BY <1>5 DEF vars, tables, historyVars, GehlOK, TageOK, ChoiceOK, LoopOK, FoldsFit
<1> QED
  BY <1>1, <1>2, <1>3, <1>4, <1>5 DEF Next

(***************************************************************************)
(* All counters stay within their widths whatever update() does to them    *)
(* (374-406, 563-728, 773-784), and the position stays in front of the     *)
(* entries that are read behind it.  WORTHHYBRID, which may start anywhere *)
(* in its int8_t (211), does not overflow it.                              *)
(***************************************************************************)
THEOREM TypeCorrect == Spec => []TypeOK
<1>1. TypeInv /\ HistoryInv => TypeOK
  BY DEF TypeInv, GehlOK, TageOK, ChoiceOK, LoopOK, FoldsFit, HistoryInv, PositionsOK,
         TageEntry, LoopEntry, Position, TypeOK
<1> QED
  BY <1>1, TypeInit, TypeStep, TagInit, TagStep, HistoryOfPredictor, HistoryInvariant,
     PTL DEF Spec

-----------------------------------------------------------------------------
(***************************************************************************)
(* The loop predictor.  Its entry tells the outcomes of its branches by    *)
(* their age: the run in progress is of CurrentIter outcomes Dir, before   *)
(* it every NbIter-th outcome is the opposite.                             *)
(***************************************************************************)
Remembered(e) == (e.confid + 1) * e.NbIter + e.CurrentIter
EndsLoop(e, age) == age >= e.CurrentIter /\ (age - e.CurrentIter) % e.NbIter = 0

\* Remainders around a multiple, for ages in loops of n iterations.
LEMMA AgeInLoop ==
    ASSUME NEW n \in Nat \ {0}
    PROVE  /\ \A x \in Nat : (x + n) % n = x % n
           /\ \A x \in 0 .. n - 1 : x % n = x
<1>1. ASSUME NEW x \in Nat PROVE (x + n) % n = x % n
  <2> DEFINE q == x \div n
             r == x % n
  <2>1. r \in 0 .. n - 1 /\ q \in Nat /\ x = n * q + r
    BY Division
  <2> HIDE DEF q, r
  <2>2. x + n = n * (q + 1) + r /\ q + 1 \in Nat
    BY <2>1
  <2>3. (x + n) % n = r
    BY <2>1, <2>2, RemainderIs
  <2> QED
    BY <2>3 DEF r
<1>2. ASSUME NEW x \in 0 .. n - 1 PROVE x % n = x
  BY WrappedBelow DEF Wrapped
<1> QED
  BY <1>1, <1>2

\* An outcome makes every other outcome one older, and remembers at most one
\* outcome more.
LEMMA LoopStepAges ==
    ASSUME NEW e \in LoopEntry, e.NbIter \in Nat, NEW taken \in BOOLEAN,
           NEW f \in LoopEntry, f = LoopStep(e, taken)
    PROVE  /\ f.NbIter \in Nat /\ f.Dir = e.Dir
           /\ Remembered(f) <= Remembered(e) + 1
           /\ \A a \in Nat : a + 1 < Remembered(f) => (EndsLoop(f, a + 1) <=> EndsLoop(e, a))
           /\ taken # e.Dir <=> EndsLoop(f, 0)
<1> DEFINE C == e.CurrentIter
           N == e.NbIter
           c == e.confid
           doubt == IF C + 1 > N THEN 0 ELSE c
           counted == IF C + 1 < 3 THEN 0 ELSE Least(doubt + 1, MaxConfid)
<1>1. C \in Nat /\ N \in Nat /\ c \in Nat /\ MaxConfid \in Nat /\ e.Dir \in BOOLEAN
  BY SeznecAssumption DEF LoopEntry
<1>2. /\ DOMAIN e = {"NbIter", "confid", "CurrentIter", "tag", "Dir"}
      /\ N # -1
  BY <1>1 DEF LoopEntry
<1>3. f = CASE taken = e.Dir -> [e EXCEPT !.CurrentIter = C + 1, !.confid = doubt]
            [] taken # e.Dir /\ C + 1 = N -> [e EXCEPT !.CurrentIter = 0, !.confid = counted]
            [] OTHER -> [e EXCEPT !.CurrentIter = 0, !.NbIter = C + 1, !.confid = 0]
  BY <1>2, Zenon DEF LoopStep
<1>4. c * N \in Nat /\ Remembered(e) = (c * N + N) + C
  BY <1>1 DEF Remembered
<1>5. doubt \in Nat /\ counted \in Nat /\ (doubt = 0 \/ doubt = c)
  BY <1>1 DEF Least
<1>6. counted <= doubt + 1
  BY <1>1, <1>5 DEF Least
<1> HIDE DEF counted, doubt
<1>7. CASE taken = e.Dir
  <2>1. /\ f.CurrentIter = C + 1 /\ f.NbIter = N /\ f.confid = doubt /\ f.Dir = e.Dir
    <3>1. f = [e EXCEPT !.CurrentIter = C + 1, !.confid = doubt]
      BY <1>3, <1>7
    <3> QED
      BY <1>2, <3>1
  <2>2. Remembered(f) = (doubt * N + N) + (C + 1)
    <3>1. \A x, y \in Nat : (x + 1) * y = x * y + y
      OBVIOUS
    <3>2. (doubt + 1) * N = doubt * N + N
      BY <1>1, <1>5, <3>1
    <3> QED
      BY <2>1, <3>2 DEF Remembered
  <2>3. doubt * N <= c * N
    BY <1>1, <1>4, <1>5
  <2>4. Remembered(f) <= Remembered(e) + 1
    <3> DEFINE x == doubt * N
               y == c * N
    <3>1. x \in Nat /\ y \in Nat /\ x <= y
      BY <1>1, <1>4, <1>5, <2>3
    <3> HIDE DEF x, y
    <3>2. x + N + (C + 1) <= (y + N + C) + 1
      BY <1>1, <3>1
    <3> QED
      BY <1>4, <2>2, <3>2 DEF x, y
  <2>5. ASSUME NEW a \in Nat PROVE EndsLoop(f, a + 1) <=> EndsLoop(e, a)
    <3>1. a + 1 >= C + 1 <=> a >= C
      BY <1>1
    <3>2. (a + 1) - (C + 1) = a - C
      BY <1>1
    <3> QED
      BY <2>1, <3>1, <3>2 DEF EndsLoop
  <2>6. ~ EndsLoop(f, 0)
    BY <1>1, <2>1 DEF EndsLoop
  <2> QED
    BY <1>1, <1>7, <2>1, <2>4, <2>5, <2>6
<1>8. CASE taken # e.Dir /\ C + 1 = N
  <2>1. /\ f.CurrentIter = 0 /\ f.NbIter = N /\ f.confid = counted /\ f.Dir = e.Dir
    <3>1. f = [e EXCEPT !.CurrentIter = 0, !.confid = counted]
      BY <1>3, <1>8
    <3> QED
      BY <1>2, <3>1
  <2>2. counted <= c + 1
    BY <1>1, <1>5, <1>6
  <2>3. Remembered(f) <= Remembered(e) + 1
    <3>1. Remembered(f) = (counted + 1) * N
      BY <1>1, <1>5, <2>1 DEF Remembered
    <3>2. (counted + 1) * N <= (c + 2) * N
      <4>1. \A x, y, z \in Nat : (x + y) * z = x * z + y * z /\ y * z \in Nat /\ x * z \in Nat
        OBVIOUS
      <4>2. PICK d \in Nat : c + 2 = (counted + 1) + d
        <5>1. c + 1 - counted \in Nat /\ c + 2 = (counted + 1) + (c + 1 - counted)
          BY <1>1, <1>5, <2>2
        <5> QED
          BY <5>1
      <4> DEFINE x == counted + 1
                 w == c + 2
                 y == x * N
                 z == d * N
      <4>3. x \in Nat /\ w = x + d
        BY <1>5, <4>2
      <4> HIDE DEF x, w
      <4>4. (x + d) * N = y + z /\ y \in Nat /\ z \in Nat
        BY <1>1, <4>1, <4>2, <4>3
      <4> HIDE DEF y, z
      <4>5. y <= y + z
        BY <4>4
      <4> QED
        <5>1. y <= w * N
          BY <4>3, <4>4, <4>5
        <5> QED
          BY <5>1 DEF w, x, y
    <3>3. (c + 2) * N = (c * N + N) + N
      <4>1. \A x, z \in Nat : (x + 2) * z = (x * z + z) + z
        OBVIOUS
      <4> QED
        BY <1>1, <4>1
    <3> QED
      BY <1>1, <1>4, <1>8, <3>1, <3>2, <3>3
  <2>4. N \in Nat \ {0} /\ C = N - 1
    BY <1>1, <1>8
  <2>5. ASSUME NEW a \in Nat PROVE EndsLoop(f, a + 1) <=> EndsLoop(e, a)
    <3>1. (a + 1) - 0 = a + 1 /\ a + 1 >= 0
      OBVIOUS
    <3>2. CASE a >= C
      <4>1. a - C \in Nat /\ a + 1 = (a - C) + N
        BY <2>4, <3>2
      <4>2. (a + 1) % N = (a - C) % N
        BY <2>4, <4>1, AgeInLoop
      <4> QED
        BY <2>1, <3>1, <3>2, <4>2 DEF EndsLoop
    <3>3. CASE ~ (a >= C)
      <4>1. a + 1 \in 0 .. N - 1
        BY <2>4, <3>3
      <4>2. (a + 1) % N = a + 1
        BY <2>4, <4>1, AgeInLoop
      <4>3. a + 1 # 0
        OBVIOUS
      <4> QED
        BY <2>1, <3>1, <3>3, <4>2, <4>3 DEF EndsLoop
    <3> QED
      BY <3>2, <3>3
  <2>6. EndsLoop(f, 0)
    <3>1. 0 \in 0 .. N - 1 /\ 0 - 0 = 0 /\ 0 >= 0
      BY <2>4
    <3>2. 0 % N = 0
      BY <2>4, <3>1, AgeInLoop
    <3> QED
      BY <2>1, <3>1, <3>2 DEF EndsLoop
  <2> QED
    BY <1>1, <1>8, <2>1, <2>3, <2>5, <2>6
<1>9. CASE taken # e.Dir /\ C + 1 # N
  <2>1. /\ f.CurrentIter = 0 /\ f.NbIter = C + 1 /\ f.confid = 0 /\ f.Dir = e.Dir
    <3>1. f = [e EXCEPT !.CurrentIter = 0, !.NbIter = C + 1, !.confid = 0]
      BY <1>3, <1>9
    <3> QED
      BY <1>2, <3>1
  <2>2. Remembered(f) = C + 1
    BY <1>1, <2>1 DEF Remembered
  <2>3. Remembered(f) <= Remembered(e) + 1
    <3> DEFINE x == c * N
    <3>1. x \in Nat
      BY <1>4
    <3> HIDE DEF x
    <3>2. C + 1 <= (x + N) + C + 1
      BY <1>1, <3>1
    <3> QED
      BY <1>4, <2>2, <3>2 DEF x
  <2>4. C + 1 \in Nat \ {0}
    BY <1>1
  <2>5. ASSUME NEW a \in Nat, a + 1 < Remembered(f) PROVE EndsLoop(f, a + 1) <=> EndsLoop(e, a)
    <3>1. (a + 1) - 0 = a + 1 /\ a + 1 # 0 /\ a + 1 \in 0 .. (C + 1) - 1
      BY <1>1, <2>2, <2>5
    <3>2. (a + 1) % (C + 1) = a + 1
      BY <2>4, <3>1, AgeInLoop
    <3>3. ~ (a >= C)
      BY <1>1, <2>2, <2>5
    <3> QED
      BY <2>1, <3>1, <3>2, <3>3 DEF EndsLoop
  <2>6. EndsLoop(f, 0)
    <3>1. 0 \in 0 .. (C + 1) - 1 /\ 0 - 0 = 0 /\ 0 >= 0
      BY <1>1
    <3>2. 0 % (C + 1) = 0
      BY <2>4, <3>1, AgeInLoop
    <3> QED
      BY <2>1, <3>1, <3>2 DEF EndsLoop
  <2> QED
    BY <1>1, <1>9, <2>1, <2>3, <2>4, <2>5, <2>6
<1> QED
  BY <1>7, <1>8, <1>9

\* The ages of the places S, once a younger place y is added.
AgeIn(S, k) == Cardinality({m \in S : m > k})

LEMMA AgesNext ==
    ASSUME NEW n \in Nat, NEW S \in SUBSET (1 .. n)
    PROVE  /\ Cardinality(S \cup {n + 1}) = Cardinality(S) + 1
           /\ Cardinality(S) \in Nat
           /\ AgeIn(S \cup {n + 1}, n + 1) = 0
           /\ \A k \in S : AgeIn(S, k) \in Nat /\ AgeIn(S \cup {n + 1}, k) = AgeIn(S, k) + 1
<1>1. IsFiniteSet(S) /\ n + 1 \notin S /\ \A m \in S : m \in Nat /\ m < n + 1
  <2>1. IsFiniteSet(1 .. n) /\ S \subseteq 1 .. n
    BY FS_Interval
  <2>2. IsFiniteSet(S)
    BY <2>1, FS_Subset
  <2>3. \A m \in 1 .. n : m \in Nat /\ m < n + 1
    OBVIOUS
  <2>4. n + 1 \notin 1 .. n
    OBVIOUS
  <2> QED
    BY <2>1, <2>2, <2>3, <2>4
<1>2. Cardinality(S \cup {n + 1}) = Cardinality(S) + 1 /\ Cardinality(S) \in Nat
  BY <1>1, FS_AddElement, FS_CardinalityType
<1>3. AgeIn(S \cup {n + 1}, n + 1) = 0
  <2>1. \A m \in S \cup {n + 1} : ~ (m > n + 1)
    BY <1>1
  <2>2. {m \in S \cup {n + 1} : m > n + 1} = {}
    BY <2>1
  <2> QED
    BY <2>2, FS_EmptySet DEF AgeIn
<1>4. ASSUME NEW k \in S
      PROVE  AgeIn(S, k) \in Nat /\ AgeIn(S \cup {n + 1}, k) = AgeIn(S, k) + 1
  <2> DEFINE T == {m \in S : m > k}
  <2>1. {m \in S \cup {n + 1} : m > k} = T \cup {n + 1}
    BY <1>1
  <2>2. T \subseteq S /\ n + 1 \notin T
    BY <1>1
  <2>3. IsFiniteSet(T)
    BY <1>1, <2>2, FS_Subset
  <2>4. AgeIn(S, k) = Cardinality(T) /\ AgeIn(S \cup {n + 1}, k) = Cardinality(T \cup {n + 1})
    BY <2>1 DEF AgeIn
  <2> HIDE DEF T
  <2> QED
    BY <2>2, <2>3, <2>4, FS_AddElement, FS_CardinalityType
<1> QED
  BY <1>2, <1>3, <1>4

OwnIn(t, l) == {k \in DOMAIN t : t[k].conditional /\ LoopOf(t[k].pc) = l}

\* The entry e is right about the outcomes of the places S of the trace t.
Tells(e, S, t) ==
    /\ Cardinality(S) >= Remembered(e)
    /\ \A k \in S : AgeIn(S, k) < Remembered(e) =>
                      (t[k].taken # e.Dir <=> EndsLoop(e, AgeIn(S, k)))

Started(e, S, t) ==
    IF e.NbIter = -1 THEN e.confid = 0 ELSE e.NbIter \in Nat /\ Tells(e, S, t)

\* The entries know what has happened, confident or not.
LoopInv ==
    /\ trace \in Seq([pc : PCs, conditional : BOOLEAN, taken : BOOLEAN])
    /\ \A l \in Loop : Started(ltable[l], OwnIn(trace, l), trace)

LEMMA StepTells ==
    ASSUME NEW e \in LoopEntry, NEW taken \in BOOLEAN, NEW n \in Nat,
           NEW S \in SUBSET (1 .. n), NEW t, NEW u,
           \A k \in S : u[k] = t[k], u[n + 1].taken = taken,
           Started(e, S, t)
    PROVE  Started(LoopStep(e, taken), S \cup {n + 1}, u)
<1> DEFINE f == LoopStep(e, taken)
           T == S \cup {n + 1}
<1>1. f \in LoopEntry
  BY LoopStepType
<1>2. /\ Cardinality(T) = Cardinality(S) + 1 /\ Cardinality(S) \in Nat
      /\ AgeIn(T, n + 1) = 0
      /\ \A k \in S : AgeIn(S, k) \in Nat /\ AgeIn(T, k) = AgeIn(S, k) + 1
  BY AgesNext
<1>3. \A k \in T : k = n + 1 \/ k \in S
  OBVIOUS
<1>4. CASE e.NbIter = -1
  <2>1. f.NbIter = 0 /\ f.CurrentIter = 1 /\ f.Dir = taken /\ f.confid = 0
    <3>1. f = [e EXCEPT !.Dir = taken, !.NbIter = 0, !.CurrentIter = 1]
      BY <1>4 DEF LoopStep
    <3>2. DOMAIN e = {"NbIter", "confid", "CurrentIter", "tag", "Dir"} /\ e.confid = 0
      BY <1>4 DEF LoopEntry, Started
    <3> QED
      BY <3>1, <3>2
  <2>2. Remembered(f) = 1
    BY <2>1 DEF Remembered
  <2>3. ~ EndsLoop(f, 0)
    BY <2>1 DEF EndsLoop
  <2> HIDE DEF f, T
  <2>4. ASSUME NEW k \in T, AgeIn(T, k) < 1
        PROVE  u[k].taken # f.Dir <=> EndsLoop(f, AgeIn(T, k))
    <3>1. k = n + 1
      <4>1. \A a \in Nat : ~ (a + 1 < 1)
        OBVIOUS
      <4>2. k \notin S
        BY <1>2, <2>4, <4>1
      <4> QED
        BY <1>3, <4>2
    <3> QED
      BY <1>2, <2>1, <2>3, <3>1
  <2>5. Tells(f, T, u)
    BY <1>2, <2>2, <2>4 DEF Tells
  <2> QED
    BY <2>1, <2>5 DEF Started, f, T
<1>5. CASE e.NbIter # -1
  <2>1. e.NbIter \in Nat /\ Tells(e, S, t)
    BY <1>5 DEF Started
  <2>2. /\ f.NbIter \in Nat /\ f.Dir = e.Dir
        /\ Remembered(f) <= Remembered(e) + 1
        /\ \A a \in Nat : a + 1 < Remembered(f) => (EndsLoop(f, a + 1) <=> EndsLoop(e, a))
        /\ taken # e.Dir <=> EndsLoop(f, 0)
    BY <1>1, <2>1, LoopStepAges
  <2>3. Remembered(f) \in Int /\ Remembered(e) \in Int
    <3>1. \A g \in LoopEntry : Remembered(g) \in Int
      <4>1. \A g \in LoopEntry : g.confid \in Int /\ g.NbIter \in Int /\ g.CurrentIter \in Int
        BY SeznecAssumption DEF LoopEntry
      <4> QED
        BY <4>1 DEF Remembered
    <3> QED
      BY <1>1, <3>1
  <2> HIDE DEF f, T
  <2>4. Cardinality(T) >= Remembered(f)
    BY <1>2, <2>1, <2>2, <2>3 DEF Tells
  <2>5. ASSUME NEW k \in T, AgeIn(T, k) < Remembered(f)
        PROVE  u[k].taken # f.Dir <=> EndsLoop(f, AgeIn(T, k))
    <3>1. CASE k = n + 1
      BY <1>2, <2>2, <3>1
    <3>2. CASE k \in S
      <4> DEFINE a == AgeIn(S, k)
      <4>1. a \in Nat /\ AgeIn(T, k) = a + 1
        BY <1>2, <3>2
      <4> HIDE DEF a
      <4>2. a < Remembered(e)
        BY <2>2, <2>3, <2>5, <4>1
      <4>3. EndsLoop(f, a + 1) <=> EndsLoop(e, a)
        BY <2>2, <2>5, <4>1
      <4>4. t[k].taken # e.Dir <=> EndsLoop(e, a)
        BY <2>1, <3>2, <4>2 DEF Tells, a
      <4> QED
        BY <2>2, <3>2, <4>1, <4>3, <4>4
    <3> QED
      BY <1>3, <3>1, <3>2
  <2>6. Tells(f, T, u)
    BY <2>4, <2>5 DEF Tells
  <2>7. f.NbIter # -1
    BY <2>2
  <2> QED
    BY <2>2, <2>6, <2>7 DEF Started, f, T
<1> QED
  BY <1>4, <1>5

LEMMA SameTells ==
    ASSUME NEW e, NEW f, NEW S, NEW t, NEW u, \A k \in S : u[k] = t[k],
           f.NbIter = e.NbIter, f.confid = e.confid, f.CurrentIter = e.CurrentIter,
           f.Dir = e.Dir, Started(e, S, t)
    PROVE  Started(f, S, u)
  BY DEF Started, Tells, Remembered, EndsLoop

\* Where an instruction that has been updated is in the trace.
LEMMA FinishTrace ==
    ASSUME LoopInv, PendingKnown, pending # Idle, NEW c \in BOOLEAN, NEW taken \in BOOLEAN,
           Finish(c, taken)
    PROVE  /\ trace' \in Seq([pc : PCs, conditional : BOOLEAN, taken : BOOLEAN])
           /\ Len(trace) \in Nat
           /\ trace'[Len(trace) + 1].taken = taken
           /\ \A l \in Loop :
                /\ OwnIn(trace, l) \in SUBSET (1 .. Len(trace))
                /\ \A k \in OwnIn(trace, l) : trace'[k] = trace[k]
                /\ OwnIn(trace', l) = IF c /\ LoopOf(pending.pc) = l
                                      THEN OwnIn(trace, l) \cup {Len(trace) + 1}
                                      ELSE OwnIn(trace, l)
<1> DEFINE x == [pc |-> pending.pc, conditional |-> c, taken |-> taken]
           n == Len(trace)
           I == [pc : PCs, conditional : BOOLEAN, taken : BOOLEAN]
<1>1. x \in I /\ x.pc = pending.pc /\ x.conditional = c /\ x.taken = taken
  BY DEF PendingKnown
<1>2. trace \in Seq(I) /\ trace' = Append(trace, x)
  BY DEF LoopInv, Finish
<1> HIDE DEF x, I
<1>3. /\ trace' \in Seq(I) /\ n \in Nat
      /\ DOMAIN trace = 1 .. n /\ DOMAIN trace' = 1 .. n + 1
      /\ \A k \in 1 .. n : trace'[k] = trace[k]
      /\ trace'[n + 1] = x
  BY <1>1, <1>2
<1> HIDE DEF n
<1>4. ASSUME NEW l \in Loop
      PROVE  /\ OwnIn(trace, l) \in SUBSET (1 .. n)
             /\ \A k \in OwnIn(trace, l) : trace'[k] = trace[k]
             /\ OwnIn(trace', l) = IF c /\ LoopOf(pending.pc) = l
                                   THEN OwnIn(trace, l) \cup {n + 1} ELSE OwnIn(trace, l)
  <2>1. OwnIn(trace, l) \in SUBSET (1 .. n)
    BY <1>3 DEF OwnIn
  <2>2. \A k \in 1 .. n + 1 : k \in 1 .. n \/ k = n + 1
    BY <1>3
  <2>3. 1 .. n \subseteq 1 .. n + 1 /\ n + 1 \in 1 .. n + 1 /\ n + 1 \notin 1 .. n
    BY <1>3
  <2>4. \A k \in 1 .. n : k \in OwnIn(trace', l) <=> k \in OwnIn(trace, l)
    BY <1>3, <2>3 DEF OwnIn
  <2>5. n + 1 \in OwnIn(trace', l) <=> c /\ LoopOf(pending.pc) = l
    BY <1>1, <1>3, <2>3 DEF OwnIn
  <2>6. OwnIn(trace', l) \subseteq 1 .. n + 1
    BY <1>3 DEF OwnIn
  <2> DEFINE R == IF c /\ LoopOf(pending.pc) = l THEN OwnIn(trace, l) \cup {n + 1}
                                                 ELSE OwnIn(trace, l)
  <2>7. R \subseteq 1 .. n + 1
    BY <2>1, <2>3
  <2>8. ASSUME NEW k \in 1 .. n + 1 PROVE k \in OwnIn(trace', l) <=> k \in R
    <3>1. CASE k = n + 1
      BY <2>1, <2>3, <2>5, <3>1
    <3>2. CASE k \in 1 .. n
      BY <2>3, <2>4, <3>2
    <3> QED
      BY <2>2, <3>1, <3>2
  <2> HIDE DEF R
  <2>9. OwnIn(trace', l) = R
    BY <2>6, <2>7, <2>8
  <2> QED
    BY <1>3, <2>1, <2>9 DEF R
<1> QED
  BY <1>1, <1>3, <1>4 DEF n, I

LEMMA LoopInvStep ==
    TypeInv /\ PendingKnown /\ LoopInv /\ [Next]_vars => LoopInv'
<1> SUFFICES ASSUME TypeInv, PendingKnown, LoopInv, [Next]_vars PROVE LoopInv'
  OBVIOUS
<1>1. \A l \in Loop : ltable[l] \in LoopEntry /\ Started(ltable[l], OwnIn(trace, l), trace)
  BY DEF TypeInv, LoopOK, LoopInv
<1>2. ASSUME NEW pc \in PCs, Predict(pc) PROVE LoopInv'
  <2>1. trace' = trace /\ ltable' = [ltable EXCEPT ![LoopOf(pc)].tag = pc]
    BY <1>2 DEF Predict
  <2>2. ASSUME NEW l \in Loop
        PROVE  /\ ltable'[l].NbIter = ltable[l].NbIter /\ ltable'[l].confid = ltable[l].confid
               /\ ltable'[l].CurrentIter = ltable[l].CurrentIter /\ ltable'[l].Dir = ltable[l].Dir
    <3>1. ltable \in [Loop -> LoopEntry]
      BY DEF TypeInv, LoopOK
    <3>2. ltable'[l] = IF l = LoopOf(pc) THEN [ltable[l] EXCEPT !.tag = pc] ELSE ltable[l]
      BY <2>1, <3>1
    <3>3. DOMAIN ltable[l] = {"NbIter", "confid", "CurrentIter", "tag", "Dir"}
      BY <3>1 DEF LoopEntry
    <3> QED
      BY <3>2, <3>3
  <2>3. ASSUME NEW l \in Loop PROVE Started(ltable'[l], OwnIn(trace', l), trace')
    <3>1. Started(ltable'[l], OwnIn(trace, l), trace)
      BY <1>1, <2>2, SameTells
    <3> QED
      BY <2>1, <3>1
  <2> QED
    BY <2>1, <2>3 DEF LoopInv
<1>3. CASE UNCHANGED <<ltable, trace>>
  BY <1>3 DEF LoopInv
<1>4. ASSUME NEW taken \in BOOLEAN, Update(taken) PROVE LoopInv'
  <2> DEFINE m == LoopOf(pending.pc)
             n == Len(trace)
  <2>1. /\ pending # Idle /\ Finish(TRUE, taken)
        /\ ltable' = [ltable EXCEPT ![m] = LoopStep(@, taken)]
    <3>1. pending.kind = "C" /\ Finish(TRUE, taken) /\ LoopUpdate(pending, taken)
      BY <1>4 DEF Update, LearnTables
    <3>2. pending # Idle
      BY <3>1 DEF Idle
    <3> QED
      BY <3>1, <3>2 DEF LoopUpdate
  <2>2. /\ trace' \in Seq([pc : PCs, conditional : BOOLEAN, taken : BOOLEAN])
        /\ n \in Nat /\ trace'[n + 1].taken = taken
        /\ \A l \in Loop :
             /\ OwnIn(trace, l) \in SUBSET (1 .. n)
             /\ \A k \in OwnIn(trace, l) : trace'[k] = trace[k]
             /\ OwnIn(trace', l) = IF m = l THEN OwnIn(trace, l) \cup {n + 1} ELSE OwnIn(trace, l)
    BY <2>1, FinishTrace
  <2>3. \A l \in Loop : ltable'[l] = IF m = l THEN LoopStep(ltable[l], taken) ELSE ltable[l]
    BY <2>1 DEF TypeInv, LoopOK
  <2> HIDE DEF m, n
  <2>4. ASSUME NEW l \in Loop PROVE Started(ltable'[l], OwnIn(trace', l), trace')
    <3>1. CASE m = l
      <4>1. Started(LoopStep(ltable[l], taken), OwnIn(trace, l) \cup {n + 1}, trace')
        BY <1>1, <2>2, StepTells
      <4> QED
        BY <2>2, <2>3, <3>1, <4>1
    <3>2. CASE m # l
      <4>1. ltable'[l] = ltable[l] /\ OwnIn(trace', l) = OwnIn(trace, l)
        BY <2>2, <2>3, <3>2
      <4>2. Started(ltable[l], OwnIn(trace, l), trace')
        BY <1>1, <2>2, SameTells
      <4> QED
        BY <4>1, <4>2
    <3> QED
      BY <3>1, <3>2
  <2> QED
    BY <2>2, <2>4 DEF LoopInv
<1>5. CASE UpdateOther
  <2>1. pending # Idle /\ Finish(FALSE, TRUE) /\ ltable' = ltable
    <3>1. pending.kind = "other" /\ Finish(FALSE, TRUE) /\ ltable' = ltable
      BY <1>5 DEF UpdateOther
    <3>2. pending # Idle
      BY <3>1 DEF Idle
    <3> QED
      BY <3>1, <3>2
  <2>2. /\ trace' \in Seq([pc : PCs, conditional : BOOLEAN, taken : BOOLEAN])
        /\ \A l \in Loop :
             /\ \A k \in OwnIn(trace, l) : trace'[k] = trace[k]
             /\ OwnIn(trace', l) = OwnIn(trace, l)
    BY <2>1, FinishTrace
  <2>3. \A l \in Loop : Started(ltable'[l], OwnIn(trace', l), trace')
    BY <1>1, <2>1, <2>2, SameTells
  <2> QED
    BY <2>2, <2>3 DEF LoopInv
<1>6. \A pc \in PCs : PredictOther(pc) => UNCHANGED <<ltable, trace>>
  BY DEF PredictOther, tables
<1> QED
  BY <1>2, <1>3, <1>4, <1>5, <1>6 DEF Next, vars, tables

LEMMA LoopInvInit == Init => LoopInv
<1> SUFFICES ASSUME Init PROVE LoopInv
  OBVIOUS
<1>1. trace = <<>> /\ \A l \in Loop : ltable[l].NbIter = -1 /\ ltable[l].confid = 0
  BY DEF Init, NewLoop
<1> QED
  BY <1>1 DEF LoopInv, Started

(***************************************************************************)
(* The loop predictor is confident only of what has happened (563-594),    *)
(* for every number of entries and every bound of the confidence: whatever *)
(* branches share an entry, the loops it counts have gone before.          *)
(***************************************************************************)
THEOREM LoopConfidentTheorem == Spec => []LoopConfident
<1>1. TypeInv /\ LoopInv => LoopConfident
  <2> SUFFICES ASSUME TypeInv, LoopInv, NEW l \in Loop, ltable[l].confid > 0
               PROVE  Tells(ltable[l], OwnIn(trace, l), trace)
    BY DEF LoopConfident, Tells, Remembered, EndsLoop, Own, OwnIn, Age, AgeIn
  <2> QED
    BY DEF LoopInv, Started
<1> QED
  BY <1>1, TypeInit, TypeStep, TagInit, TagStep, LoopInvInit, LoopInvStep,
     PendingKnownInit, PendingKnownStep, PTL DEF Spec

=============================================================================

-------------------------- MODULE ProcessorProofs --------------------------
(***************************************************************************)
(* Theorems about Processor, for every number of registers, every capacity *)
(* of the reorder buffer, every width, experiment and set of records.      *)
(***************************************************************************)
EXTENDS Processor, SequenceTheorems, FiniteSetTheorems, TLAPS

RegOrNone == PhyReg \cup {NoReg}
Renamed == [map : [ArchReg -> PhyReg], free : Seq(PhyReg),
            pdest : [1 .. 2 -> RegOrNone], pfree : [1 .. 2 -> RegOrNone]]

LEMMA DestType ==
    ASSUME NEW op \in Records, NEW k \in 1 .. 2
    PROVE  ArchDest(op)[k] \in ArchReg \cup {NoReg}
BY RecordsAssumption, SizesAssumption DEF ArchDest, Record

LEMMA SrcType ==
    ASSUME NEW op \in Records
    PROVE  ArchSrc(op) \subseteq ArchReg
BY RecordsAssumption, SizesAssumption DEF ArchSrc, Record

LEMMA LatencyType ==
    ASSUME NEW op \in Records
    PROVE  Latency(op) \in Nat /\ Latency(op) >= 1
BY DEF Latency

\* One destination is renamed to the front of a free list that is not empty.
LEMMA RenameDestType ==
    ASSUME NEW r \in Renamed, NEW k \in 1 .. 2,
           NEW areg \in ArchReg \cup {NoReg},
           areg # NoReg => Len(r.free) >= 1
    PROVE  /\ RenameDest(r, k, areg) \in Renamed
           /\ Len(RenameDest(r, k, areg).free)
                 = IF areg = NoReg THEN Len(r.free) ELSE Len(r.free) - 1
<1>1. CASE areg = NoReg
  BY <1>1 DEF RenameDest
<1>2. CASE areg # NoReg
  <2>1. r.free \in Seq(PhyReg) /\ r.free # <<>>
    BY <1>2 DEF Renamed
  <2>2. /\ Head(r.free) \in PhyReg /\ Tail(r.free) \in Seq(PhyReg)
        /\ Len(Tail(r.free)) = Len(r.free) - 1
    BY <2>1, HeadTailProperties
  <2> QED
    BY <1>2, <2>2 DEF RenameDest, Renamed, RegOrNone
<1> QED  BY <1>1, <1>2

LEMMA RenameType ==
    ASSUME TypeOK, NEW op \in Records, CanRename(op)
    PROVE  RenameInstruction(op) \in Renamed
<1> DEFINE r1 == RenameDest(Unrenamed, 1, ArchDest(op)[1])
<1>1. Unrenamed \in Renamed /\ Unrenamed.free = freelist
  BY DEF TypeOK, Unrenamed, Renamed, RegOrNone
<1>2. /\ r1 \in Renamed
      /\ Len(r1.free) = IF ArchDest(op)[1] = NoReg THEN Len(freelist)
                                                  ELSE Len(freelist) - 1
  BY <1>1, DestType, RenameDestType DEF CanRename
<1> HIDE DEF r1
<1>3. RenameDest(r1, 2, ArchDest(op)[2]) \in Renamed
  <2>1. Len(freelist) \in Nat
    BY DEF TypeOK
  <2> QED  BY <1>2, <2>1, DestType, RenameDestType DEF CanRename
<1> QED  BY <1>3 DEF RenameInstruction, r1

-----------------------------------------------------------------------------
(***************************************************************************)
(* Type correctness.                                                       *)
(***************************************************************************)
LEMMA ControlType ==
    ASSUME TypeOK,
           NEW next \in {"commit", "issue", "fetch", "advance", "exit", "undefined"},
           NextIteration(next) \/ Leave(next)
    PROVE  /\ stage' \in {"commit", "issue", "fetch", "advance", "exit", "undefined"}
           /\ loop' \in 0 .. Width - 1 /\ pos' \in Nat \ {0}
BY SizesAssumption DEF TypeOK, NextIteration, Leave

LEMMA FreedByType ==
    ASSUME NEW queue \in Seq(PhyReg), NEW e \in Entry
    PROVE  FreedBy(queue, e) \in Seq(PhyReg)
<1>1. PushValid(queue, e.pfree[1]) \in Seq(PhyReg)
  BY AppendProperties DEF PushValid, Entry
<1>2. \A q \in Seq(PhyReg) : PushValid(q, e.pfree[2]) \in Seq(PhyReg)
  BY AppendProperties DEF PushValid, Entry
<1> QED  BY <1>1, <1>2 DEF FreedBy

LEMMA ExecuteType ==
    ASSUME TypeOK, NEW e \in Entry
    PROVE  Execute(e) \in Entry
<1>1. e.op \in Records
  BY DEF Entry
<1>2. currentCycle \in Nat /\ currentCycle + Latency(e.op) \in Nat
  BY <1>1, LatencyType DEF TypeOK
<1>3. \A issue, done \in Nat :
         [e EXCEPT !.issued = TRUE, !.issueCycle = issue, !.doneCycle = done] \in Entry
  BY DEF Entry
<1> QED  BY <1>2, <1>3 DEF Execute

LEMMA NewEntryType ==
    ASSUME TypeOK, NEW op \in Records, NEW r \in Renamed, NEW miss \in BOOLEAN
    PROVE  NewEntry(op, r, miss) \in Entry
BY SrcType DEF TypeOK, NewEntry, Entry, Renamed, RegOrNone

LEMMA TypeInit == Init => TypeOK
<1> SUFFICES ASSUME Init PROVE TypeOK
  OBVIOUS
<1>1. freelist \in Seq(PhyReg)
  <2>1. \A i \in 1 .. NumPhyReg - NumArchReg : NumArchReg + i - 1 \in PhyReg
    BY SizesAssumption DEF PhyReg
  <2> QED  BY <2>1, SizesAssumption, IsASeq DEF Init
<1>2. rob \in Seq(Entry) /\ Len(rob) <= RobCapacity
  BY SizesAssumption DEF Init
<1> QED  BY <1>1, <1>2, SizesAssumption DEF Init, TypeOK, ArchReg, PhyReg

LEMMA TypeInductive == TypeOK /\ [Next]_vars => TypeOK'
<1> SUFFICES ASSUME TypeOK, [Next]_vars PROVE TypeOK'
  OBVIOUS
<1>1. CASE Commit
  <2>1. rob \in Seq(Entry) /\ rob # <<>>
    BY <1>1 DEF TypeOK, Commit
  <2>2. /\ Head(rob) \in Entry /\ Tail(rob) \in Seq(Entry)
        /\ Len(Tail(rob)) = Len(rob) - 1
    BY <2>1, HeadTailProperties
  <2>3. freelist' \in Seq(PhyReg)
    BY <1>1, <2>2, FreedByType DEF TypeOK, Commit
  <2>4. rob' \in Seq(Entry) /\ Len(rob') <= RobCapacity
    BY <1>1, <2>1, <2>2, SizesAssumption DEF TypeOK, Commit
  <2> QED  BY <1>1, <2>3, <2>4, ControlType DEF TypeOK, Commit
<1>2. CASE CommitNothing
  BY <1>2, ControlType DEF TypeOK, CommitNothing
<1>3. CASE Issue
  <2>1. pos \in 1 .. Len(rob) /\ rob \in Seq(Entry) /\ rob[pos] \in Entry
    BY <1>3, ElementOfSeq DEF TypeOK, Issue
  <2>2. rob' \in Seq(Entry) /\ Len(rob') <= RobCapacity
    BY <1>3, <2>1, ExecuteType, ExceptSeq DEF TypeOK, Issue
  <2>3. Latency(rob[pos].op) \in Nat
    BY <2>1, LatencyType DEF Entry
  <2>4. scoreboard' \in [PhyReg -> Int] /\ nFetchReady' \in Int
    BY <1>3, <2>3 DEF TypeOK, Issue, WakeUp, RestartFetch
  <2>5. /\ stage' \in {"commit", "issue", "fetch", "advance", "exit", "undefined"}
        /\ loop' \in 0 .. Width - 1 /\ pos' \in Nat \ {0}
    BY <1>3, SizesAssumption DEF TypeOK, Issue, Leave
  <2> QED  BY <1>3, <2>2, <2>4, <2>5 DEF TypeOK, Issue
<1>4. CASE IssueSkip
  BY <1>4 DEF TypeOK, IssueSkip
<1>5. CASE IssueEnd
  BY <1>5, ControlType DEF TypeOK, IssueEnd
<1>6. ASSUME NEW op \in Records, NEW miss \in BOOLEAN, Fetch(op, miss)
      PROVE  TypeOK'
  <2> DEFINE r == RenameInstruction(op)
  <2>1. r \in Renamed
    BY <1>6, RenameType DEF Fetch
  <2> HIDE DEF r
  <2>2. /\ maptable' = r.map /\ freelist' = r.free
        /\ scoreboard' = UnReady(r.pdest)
        /\ rob' = Append(rob, NewEntry(op, r, miss))
    BY <1>6 DEF Fetch, r
  <2>3. maptable' \in [ArchReg -> PhyReg] /\ freelist' \in Seq(PhyReg)
    BY <2>1, <2>2 DEF Renamed
  <2>4. scoreboard' \in [PhyReg -> Int]
    BY <2>2 DEF TypeOK, UnReady
  <2>5. rob' \in Seq(Entry) /\ Len(rob') = Len(rob) + 1
    BY <2>1, <2>2, NewEntryType, AppendProperties DEF TypeOK
  <2>6. Len(rob') <= RobCapacity
    BY <1>6, <2>5, SizesAssumption DEF TypeOK, Fetch, FetchGuard
  <2>7. /\ totalMicro' \in Nat /\ totalMacro' \in Nat /\ nFetchReady' \in Int
        /\ currentCycle' \in Nat /\ ins' \in BOOLEAN /\ exp' \in Experiments
    BY <1>6 DEF TypeOK, Fetch, SuspendFetch
  <2>8. NextIteration("advance")
    BY <1>6 DEF Fetch
  <2> QED  BY <2>3, <2>4, <2>5, <2>6, <2>7, <2>8, ControlType DEF TypeOK
<1>7. ASSUME NEW op \in Records, FetchUndefined(op)
      PROVE  TypeOK'
  BY <1>7, ControlType DEF TypeOK, FetchUndefined
<1>8. CASE FetchEndOfTrace
  BY <1>8, ControlType DEF TypeOK, FetchEndOfTrace
<1>9. CASE FetchSuspended
  BY <1>9, ControlType DEF TypeOK, FetchSuspended
<1>10. CASE FetchNothing
  BY <1>10, ControlType DEF TypeOK, FetchNothing
<1>11. CASE Advance
  <2>1. scoreboard' \in [PhyReg -> Int]
    BY <1>11 DEF TypeOK, Advance
  <2> QED  BY <1>11, <2>1, ControlType DEF TypeOK, Advance
<1>12. CASE UNCHANGED vars
  BY <1>12 DEF TypeOK, vars
<1> QED  BY <1>1, <1>2, <1>3, <1>4, <1>5, <1>6, <1>7, <1>8, <1>9, <1>10,
            <1>11, <1>12 DEF Next, Stopped

\* Every reachable state has the types that TypeOK gives.
THEOREM TypeCorrect == Spec => []TypeOK
BY TypeInit, TypeInductive, PTL DEF Spec

-----------------------------------------------------------------------------
(***************************************************************************)
(* Conservation of the physical registers: each is held by exactly one of  *)
(* the map table, the free list and the instructions in flight.  Renaming  *)
(* is followed one destination at a time; pend stands for what the older   *)
(* instructions will free, and r.pfree for the instruction being renamed.  *)
(***************************************************************************)
Pendings(n) == [1 .. n -> [1 .. 2 -> RegOrNone]]
With(pend, n, f) == [j \in 1 .. n + 1 |-> IF j = n + 1 THEN f ELSE pend[j]]

LEMMA RenameDestFrame ==
    ASSUME NEW r \in Renamed, NEW k \in 1 .. 2, NEW areg, NEW l \in 1 .. 2, l # k
    PROVE  /\ RenameDest(r, k, areg).pfree[l] = r.pfree[l]
           /\ RenameDest(r, k, areg).pdest[l] = r.pdest[l]
BY DEF RenameDest, Renamed

LEMMA RenameDestDisjoint ==
    ASSUME NEW r \in Renamed, NEW k \in 1 .. 2, NEW areg \in ArchReg \cup {NoReg},
           areg # NoReg => Len(r.free) >= 1,
           NEW n \in Nat, NEW pend \in Pendings(n), r.pfree[k] = NoReg,
           Disjoint(r.map, r.free, With(pend, n, r.pfree))
    PROVE  LET s == RenameDest(r, k, areg)
           IN  Disjoint(s.map, s.free, With(pend, n, s.pfree))
<1>1. CASE areg = NoReg
  BY <1>1 DEF RenameDest
<1>2. CASE areg # NoReg
  <2> DEFINE s == RenameDest(r, k, areg)
             old == With(pend, n, r.pfree)
             new == With(pend, n, s.pfree)
  <2>1. r.free \in Seq(PhyReg) /\ r.free # <<>> /\ areg \in ArchReg
    BY <1>2 DEF Renamed
  <2>2. /\ Tail(r.free) \in Seq(PhyReg) /\ Head(r.free) = r.free[1]
        /\ Len(Tail(r.free)) = Len(r.free) - 1
        /\ \A i \in 1 .. Len(Tail(r.free)) : Tail(r.free)[i] = r.free[i + 1]
    BY <2>1, HeadTailProperties
  <2>3. /\ s.free = Tail(r.free) /\ DOMAIN s.free = 1 .. Len(r.free) - 1
        /\ \A i \in DOMAIN s.free :
              s.free[i] = r.free[i + 1] /\ i + 1 \in DOMAIN r.free /\ i + 1 # 1
        /\ 1 \in DOMAIN r.free /\ DOMAIN r.free = 1 .. Len(r.free)
    BY <1>2, <2>1, <2>2 DEF RenameDest
  <2>4. /\ DOMAIN s.map = ArchReg /\ DOMAIN r.map = ArchReg
        /\ \A a \in ArchReg : s.map[a] = IF a = areg THEN r.free[1] ELSE r.map[a]
    BY <1>2, <2>2 DEF RenameDest, Renamed
  <2>5. \A l \in 1 .. 2 : s.pfree[l] = IF l = k THEN r.map[areg] ELSE r.pfree[l]
    BY <1>2 DEF RenameDest, Renamed
  <2>6. /\ DOMAIN new = 1 .. n + 1 /\ DOMAIN old = 1 .. n + 1
        /\ \A j \in 1 .. n + 1, l \in 1 .. 2 :
              new[j][l] = IF j = n + 1 /\ l = k THEN r.map[areg] ELSE old[j][l]
        /\ old[n + 1][k] = NoReg
    BY <2>5 DEF With
  <2>7. /\ \A a \in ArchReg : r.map[a] \in PhyReg
        /\ \A i \in DOMAIN r.free : r.free[i] \in PhyReg
        /\ NoReg \notin PhyReg
    <3>1. NoReg \notin PhyReg
      BY DEF PhyReg, NoReg
    <3>2. \A i \in DOMAIN r.free : r.free[i] \in PhyReg
      BY <2>1, <2>3, ElementOfSeq
    <3> QED  BY <3>1, <3>2 DEF Renamed
  <2> HIDE DEF s, old, new
  <2>8. /\ \A a, b \in ArchReg : r.map[a] = r.map[b] => a = b
        /\ \A i, j \in DOMAIN r.free : r.free[i] = r.free[j] => i = j
        /\ \A i, j \in 1 .. n + 1 : \A x, y \in 1 .. 2 :
              old[i][x] # NoReg /\ old[i][x] = old[j][y] => i = j /\ x = y
        /\ \A a \in ArchReg : \A i \in DOMAIN r.free : r.map[a] # r.free[i]
        /\ \A a \in ArchReg : \A j \in 1 .. n + 1 : \A x \in 1 .. 2 :
              r.map[a] # old[j][x]
        /\ \A i \in DOMAIN r.free : \A j \in 1 .. n + 1 : \A x \in 1 .. 2 :
              r.free[i] # old[j][x]
    BY <2>4, <2>6 DEF Disjoint, old
  <2>9. \A a, b \in ArchReg : s.map[a] = s.map[b] => a = b
    BY <2>1, <2>3, <2>4, <2>8
  <2>10. \A i, j \in DOMAIN s.free : s.free[i] = s.free[j] => i = j
    BY <2>3, <2>8
  <2>11. \A i, j \in 1 .. n + 1 : \A x, y \in 1 .. 2 :
            new[i][x] # NoReg /\ new[i][x] = new[j][y] => i = j /\ x = y
    BY <2>1, <2>6, <2>8
  <2>12. \A a \in ArchReg : \A i \in DOMAIN s.free : s.map[a] # s.free[i]
    BY <2>3, <2>4, <2>8
  <2>13. \A a \in ArchReg : \A j \in 1 .. n + 1 : \A x \in 1 .. 2 :
            s.map[a] # new[j][x]
    <3>1. SUFFICES ASSUME NEW a \in ArchReg, NEW j \in 1 .. n + 1, NEW x \in 1 .. 2
                   PROVE  s.map[a] # new[j][x]
      OBVIOUS
    <3>2. CASE a = areg
      <4>1. s.map[a] = r.free[1]
        BY <2>4, <3>2
      <4>2. r.free[1] # r.map[areg] /\ r.free[1] # old[j][x]
        BY <2>1, <2>3, <2>8
      <4> QED  BY <2>6, <4>1, <4>2
    <3>3. CASE a # areg
      <4>1. s.map[a] = r.map[a]
        BY <2>4, <3>3
      <4>2. r.map[a] # r.map[areg] /\ r.map[a] # old[j][x]
        BY <2>1, <2>8, <3>3
      <4> QED  BY <2>6, <4>1, <4>2
    <3> QED  BY <3>2, <3>3
  <2>14. \A i \in DOMAIN s.free : \A j \in 1 .. n + 1 : \A x \in 1 .. 2 :
            s.free[i] # new[j][x]
    BY <2>1, <2>3, <2>6, <2>8
  <2> QED
    BY <2>4, <2>6, <2>9, <2>10, <2>11, <2>12, <2>13, <2>14 DEF Disjoint, s, new
<1> QED  BY <1>1, <1>2

LEMMA RenameDestCovers ==
    ASSUME NEW r \in Renamed, NEW k \in 1 .. 2, NEW areg \in ArchReg \cup {NoReg},
           areg # NoReg => Len(r.free) >= 1,
           NEW n \in Nat, NEW pend \in Pendings(n), r.pfree[k] = NoReg,
           Covers(r.map, r.free, With(pend, n, r.pfree))
    PROVE  LET s == RenameDest(r, k, areg)
           IN  Covers(s.map, s.free, With(pend, n, s.pfree))
<1>1. CASE areg = NoReg
  BY <1>1 DEF RenameDest
<1>2. CASE areg # NoReg
  <2> DEFINE s == RenameDest(r, k, areg)
             old == With(pend, n, r.pfree)
             new == With(pend, n, s.pfree)
  <2>1. r.free \in Seq(PhyReg) /\ r.free # <<>> /\ areg \in ArchReg
    BY <1>2 DEF Renamed
  <2>2. /\ Tail(r.free) \in Seq(PhyReg) /\ Head(r.free) = r.free[1]
        /\ Len(Tail(r.free)) = Len(r.free) - 1
        /\ \A i \in 1 .. Len(Tail(r.free)) : Tail(r.free)[i] = r.free[i + 1]
    BY <2>1, HeadTailProperties
  <2>3. /\ DOMAIN r.free = 1 .. Len(r.free) /\ DOMAIN s.free = 1 .. Len(r.free) - 1
        /\ \A i \in DOMAIN r.free :
              i = 1 \/ (i - 1 \in DOMAIN s.free /\ s.free[i - 1] = r.free[i])
    BY <1>2, <2>1, <2>2 DEF RenameDest
  <2>4. /\ DOMAIN s.map = ArchReg /\ DOMAIN r.map = ArchReg
        /\ \A a \in ArchReg : s.map[a] = IF a = areg THEN r.free[1] ELSE r.map[a]
    BY <1>2, <2>2 DEF RenameDest, Renamed
  <2>5. \A l \in 1 .. 2 : s.pfree[l] = IF l = k THEN r.map[areg] ELSE r.pfree[l]
    BY <1>2 DEF RenameDest, Renamed
  <2>6. /\ DOMAIN new = 1 .. n + 1 /\ DOMAIN old = 1 .. n + 1
        /\ \A j \in 1 .. n + 1, l \in 1 .. 2 :
              new[j][l] = IF j = n + 1 /\ l = k THEN r.map[areg] ELSE old[j][l]
        /\ old[n + 1][k] = NoReg
    BY <2>5 DEF With
  <2>7. NoReg \notin PhyReg
    BY DEF PhyReg, NoReg
  <2> HIDE DEF s, old, new
  <2> SUFFICES ASSUME NEW p \in PhyReg
               PROVE  \/ \E a \in ArchReg : s.map[a] = p
                      \/ \E i \in DOMAIN s.free : s.free[i] = p
                      \/ \E j \in 1 .. n + 1 : \E l \in 1 .. 2 : new[j][l] = p
    BY <2>4, <2>6 DEF Covers, s, new
  <2>8. \/ \E a \in ArchReg : r.map[a] = p
        \/ \E i \in DOMAIN r.free : r.free[i] = p
        \/ \E j \in 1 .. n + 1 : \E l \in 1 .. 2 : old[j][l] = p
    BY <2>4, <2>6 DEF Covers, old
  <2>9. ASSUME NEW a \in ArchReg, r.map[a] = p
        PROVE  \/ s.map[a] = p
               \/ new[n + 1][k] = p
    BY <2>4, <2>6, <2>9
  <2>10. ASSUME NEW i \in DOMAIN r.free, r.free[i] = p
         PROVE  s.map[areg] = p \/ (i - 1 \in DOMAIN s.free /\ s.free[i - 1] = p)
    BY <2>1, <2>3, <2>4, <2>10
  <2>11. ASSUME NEW j \in 1 .. n + 1, NEW l \in 1 .. 2, old[j][l] = p
         PROVE  new[j][l] = p
    BY <2>6, <2>7, <2>11
  <2> QED  BY <2>1, <2>8, <2>9, <2>10, <2>11
<1> QED  BY <1>1, <1>2

LEMMA RenameConserves ==
    ASSUME TypeOK, NEW op \in Records, CanRename(op), NoSharing, NoLeak
    PROVE  LET r == RenameInstruction(op)
               n == Len(rob)
           IN  /\ Disjoint(r.map, r.free, With(PendingFree, n, r.pfree))
               /\ Covers(r.map, r.free, With(PendingFree, n, r.pfree))
<1> DEFINE r0 == Unrenamed
           r1 == RenameDest(r0, 1, ArchDest(op)[1])
           r2 == RenameDest(r1, 2, ArchDest(op)[2])
           n == Len(rob)
<1>1. n \in Nat /\ DOMAIN rob = 1 .. n /\ PendingFree \in Pendings(n)
  <2>1. n \in Nat /\ DOMAIN rob = 1 .. n /\ \A j \in 1 .. n : rob[j] \in Entry
    BY LenProperties, ElementOfSeq DEF TypeOK
  <2> HIDE DEF n
  <2>2. \A j \in 1 .. n : rob[j].pfree \in [1 .. 2 -> RegOrNone]
    BY <2>1 DEF Entry, RegOrNone
  <2> QED  BY <2>1, <2>2 DEF PendingFree, Pendings
<1>2. /\ r0 \in Renamed /\ r0.free = freelist /\ r0.map = maptable
      /\ r0.pfree[1] = NoReg /\ r0.pfree[2] = NoReg
  BY DEF TypeOK, Unrenamed, Renamed, RegOrNone
<1> HIDE DEF n, r0
<1>3. \A j \in 1 .. n + 1, k \in 1 .. 2 :
         With(PendingFree, n, r0.pfree)[j][k] = IF j = n + 1 THEN NoReg
                                                ELSE PendingFree[j][k]
  BY <1>2 DEF With
<1>4. /\ DOMAIN With(PendingFree, n, r0.pfree) = 1 .. n + 1
      /\ DOMAIN PendingFree = 1 .. n
  BY <1>1 DEF With, Pendings
<1>5. Disjoint(r0.map, r0.free, With(PendingFree, n, r0.pfree))
  <2>1. \A i \in DOMAIN freelist : freelist[i] # NoReg
    <3>1. \A i \in DOMAIN freelist : freelist[i] \in PhyReg
      BY ElementOfSeq, LenProperties DEF TypeOK
    <3> QED  BY <3>1 DEF PhyReg, NoReg
  <2>2. \A a \in DOMAIN maptable : maptable[a] # NoReg
    BY DEF TypeOK, PhyReg, NoReg
  <2> QED  BY <1>1, <1>2, <1>3, <1>4, <2>1, <2>2 DEF NoSharing, Disjoint
<1>6. Covers(r0.map, r0.free, With(PendingFree, n, r0.pfree))
  BY <1>1, <1>2, <1>3, <1>4 DEF NoLeak, Covers
<1>7. /\ ArchDest(op)[1] # NoReg => Len(r0.free) >= 1
      /\ Len(freelist) \in Nat
  BY <1>2 DEF CanRename, TypeOK
<1>8. /\ r1 \in Renamed
      /\ Len(r1.free) = IF ArchDest(op)[1] = NoReg THEN Len(freelist)
                                                  ELSE Len(freelist) - 1
      /\ r1.pfree[2] = NoReg
  BY <1>2, <1>7, DestType, RenameDestType, RenameDestFrame
<1>9. /\ Disjoint(r1.map, r1.free, With(PendingFree, n, r1.pfree))
      /\ Covers(r1.map, r1.free, With(PendingFree, n, r1.pfree))
  BY <1>1, <1>2, <1>5, <1>6, <1>7, DestType, RenameDestDisjoint, RenameDestCovers
<1> HIDE DEF r1
<1>10. ArchDest(op)[2] # NoReg => Len(r1.free) >= 1
  BY <1>7, <1>8 DEF CanRename
<1>11. /\ Disjoint(r2.map, r2.free, With(PendingFree, n, r2.pfree))
       /\ Covers(r2.map, r2.free, With(PendingFree, n, r2.pfree))
  BY <1>1, <1>8, <1>9, <1>10, DestType, RenameDestDisjoint, RenameDestCovers
<1> QED  BY <1>11 DEF RenameInstruction, r0, r1, n

\* commit() moves one register of the oldest instruction to the free list.
Moved(pend, k) ==
    [j \in DOMAIN pend |-> IF j = 1 THEN [pend[1] EXCEPT ![k] = NoReg] ELSE pend[j]]

LEMMA PushConserves ==
    ASSUME NEW map \in [ArchReg -> PhyReg], NEW free \in Seq(PhyReg),
           NEW n \in Nat \ {0}, NEW pend \in Pendings(n), NEW k \in 1 .. 2,
           Disjoint(map, free, pend), Covers(map, free, pend)
    PROVE  /\ PushValid(free, pend[1][k]) \in Seq(PhyReg)
           /\ Moved(pend, k) \in Pendings(n)
           /\ Disjoint(map, PushValid(free, pend[1][k]), Moved(pend, k))
           /\ Covers(map, PushValid(free, pend[1][k]), Moved(pend, k))
<1> DEFINE p0 == pend[1][k]
           f == PushValid(free, p0)
           m == Len(free)
           new == Moved(pend, k)
<1>1. /\ DOMAIN pend = 1 .. n /\ pend[1] \in [1 .. 2 -> RegOrNone]
      /\ p0 \in RegOrNone
  BY DEF Pendings
<1>2. new \in Pendings(n)
  BY <1>1 DEF Moved, Pendings, RegOrNone
<1>3. /\ DOMAIN new = 1 .. n
      /\ \A j \in 1 .. n, l \in 1 .. 2 :
            new[j][l] = IF j = 1 /\ l = k THEN NoReg ELSE pend[j][l]
  BY <1>1 DEF Moved, Pendings
<1>4. NoReg \notin PhyReg /\ \A a \in ArchReg : map[a] # NoReg
  BY DEF PhyReg, NoReg
<1>5. m \in Nat /\ DOMAIN free = 1 .. m /\ \A i \in 1 .. m : free[i] # NoReg
  BY <1>4, LenProperties, ElementOfSeq
<1>6. CASE p0 = NoReg
  <2>1. f = free
    BY <1>6 DEF PushValid
  <2>2. [pend[1] EXCEPT ![k] = NoReg] = pend[1]
    BY <1>1, <1>6
  <2>3. new = pend
    BY <1>1, <2>2 DEF Moved, Pendings
  <2> QED  BY <2>1, <2>3
<1>7. CASE p0 # NoReg
  <2>1. p0 \in PhyReg
    BY <1>1, <1>7 DEF RegOrNone
  <2>2. f \in Seq(PhyReg) /\ DOMAIN f = 1 .. m + 1
        /\ \A i \in 1 .. m + 1 : f[i] = IF i = m + 1 THEN p0 ELSE free[i]
    BY <1>5, <1>7, <2>1, AppendProperties DEF PushValid
  <2>3. p0 = pend[1][k] /\ 1 \in 1 .. n
    OBVIOUS
  <2> HIDE DEF p0, f, m, new
  <2>4. Disjoint(map, f, new)
    <3>1. \A a, b \in DOMAIN map : map[a] = map[b] => a = b
      BY DEF Disjoint
    <3>2. \A i, j \in DOMAIN f : f[i] = f[j] => i = j
      BY <1>1, <1>5, <2>2, <2>3 DEF Disjoint
    <3>3. \A i, j \in DOMAIN new : \A x, y \in 1 .. 2 :
             new[i][x] # NoReg /\ new[i][x] = new[j][y] => i = j /\ x = y
      BY <1>1, <1>3 DEF Disjoint
    <3>4. \A a \in DOMAIN map : \A i \in DOMAIN f : map[a] # f[i]
      BY <1>1, <1>5, <2>2, <2>3 DEF Disjoint
    <3>5. \A a \in DOMAIN map : \A j \in DOMAIN new : \A x \in 1 .. 2 :
             map[a] # new[j][x]
      BY <1>1, <1>3, <1>4 DEF Disjoint
    <3>6. \A i \in DOMAIN f : \A j \in DOMAIN new : \A x \in 1 .. 2 : f[i] # new[j][x]
      BY <1>1, <1>3, <1>4, <1>5, <1>7, <2>2, <2>3 DEF Disjoint
    <3> QED  BY <3>1, <3>2, <3>3, <3>4, <3>5, <3>6 DEF Disjoint
  <2>5. Covers(map, f, new)
    <3> SUFFICES ASSUME NEW p \in PhyReg
                 PROVE  \/ \E a \in DOMAIN map : map[a] = p
                        \/ \E i \in DOMAIN f : f[i] = p
                        \/ \E j \in DOMAIN new : \E l \in 1 .. 2 : new[j][l] = p
      BY DEF Covers
    <3>1. CASE p = p0
      BY <2>2, <3>1, <1>5
    <3>2. CASE p # p0
      <4>1. \A i \in DOMAIN free : i \in DOMAIN f /\ f[i] = free[i]
        BY <1>5, <2>2
      <4>2. \A j \in DOMAIN pend, l \in 1 .. 2 :
               pend[j][l] = p => j \in DOMAIN new /\ new[j][l] = p
        BY <1>1, <1>3, <2>3, <3>2
      <4> QED  BY <4>1, <4>2 DEF Covers
    <3> QED  BY <3>1, <3>2
  <2> QED  BY <1>2, <2>2, <2>4, <2>5 DEF f, new, p0
<1> QED  BY <1>6, <1>7

LEMMA CommitConserves ==
    ASSUME TypeOK, Commit, NoSharing, NoLeak
    PROVE  NoSharing' /\ NoLeak'
<1> DEFINE n == Len(rob)
           e == Head(rob)
           P0 == PendingFree
           P1 == Moved(P0, 1)
           P2 == Moved(P1, 2)
           f1 == PushValid(freelist, e.pfree[1])
           f2 == PushValid(f1, e.pfree[2])
           Q == [j \in 1 .. n - 1 |-> rob[j + 1].pfree]
<1>1. rob \in Seq(Entry) /\ rob # <<>> /\ rob' = Tail(rob)
  BY DEF TypeOK, Commit
<1>2. /\ n \in Nat \ {0} /\ DOMAIN rob = 1 .. n /\ e = rob[1]
      /\ rob' \in Seq(Entry) /\ Len(rob') = n - 1
      /\ \A j \in 1 .. n - 1 : rob'[j] = rob[j + 1]
      /\ \A j \in 1 .. n : rob[j] \in Entry
  BY <1>1, HeadTailProperties, LenProperties, ElementOfSeq
<1> HIDE DEF n
<1>3. PendingFree' = Q
  BY <1>2 DEF PendingFree
<1>4. P0 \in Pendings(n) /\ P0[1] = e.pfree
  <2>1. \A j \in 1 .. n : rob[j].pfree \in [1 .. 2 -> RegOrNone]
    BY <1>2 DEF Entry, RegOrNone
  <2> QED  BY <1>2, <2>1 DEF PendingFree, Pendings
<1> HIDE DEF e, P0, Q
<1>5. maptable \in [ArchReg -> PhyReg] /\ freelist \in Seq(PhyReg)
  BY DEF TypeOK
<1>6. /\ f1 \in Seq(PhyReg) /\ P1 \in Pendings(n)
      /\ Disjoint(maptable, f1, P1) /\ Covers(maptable, f1, P1)
  BY <1>2, <1>4, <1>5, PushConserves DEF NoSharing, NoLeak, P0
<1>7. P1[1][2] = e.pfree[2] /\ P1[1][1] = NoReg /\ \A j \in 2 .. n : P1[j] = P0[j]
  BY <1>2, <1>4 DEF Moved, Pendings
<1> HIDE DEF f1, P1
<1>8. /\ P2 \in Pendings(n)
      /\ Disjoint(maptable, f2, P2) /\ Covers(maptable, f2, P2)
  BY <1>2, <1>5, <1>6, <1>7, PushConserves
<1>9. /\ P2[1][1] = NoReg /\ P2[1][2] = NoReg /\ \A j \in 2 .. n : P2[j] = P0[j]
  BY <1>2, <1>6, <1>7 DEF Moved, Pendings
<1>11. maptable' = maptable /\ freelist' = f2
  BY DEF Commit, FreedBy, f1, e
<1> HIDE DEF P2, f2
<1>10. /\ DOMAIN Q = 1 .. n - 1 /\ DOMAIN P2 = 1 .. n
       /\ \A j \in 1 .. n - 1 : j + 1 \in 1 .. n /\ Q[j] = P2[j + 1]
  <2>1. DOMAIN Q = 1 .. n - 1 /\ \A j \in 1 .. n - 1 : Q[j] = rob[j + 1].pfree
    BY DEF Q
  <2>2. DOMAIN P2 = 1 .. n
    BY <1>8 DEF Pendings
  <2>3. \A j \in 2 .. n : P2[j] = rob[j].pfree
    <3>1. \A j \in 1 .. n : P0[j] = rob[j].pfree
      BY <1>2 DEF P0, PendingFree
    <3>2. \A j \in 2 .. n : j \in 1 .. n
      BY <1>2
    <3> QED  BY <1>9, <3>1, <3>2
  <2>4. \A j \in 1 .. n - 1 : j + 1 \in 2 .. n /\ j + 1 \in 1 .. n
    BY <1>2
  <2> QED  BY <2>1, <2>2, <2>3, <2>4
<1>12. Disjoint(maptable, f2, Q)
  <2>1. \A i, j \in DOMAIN Q : \A k, l \in 1 .. 2 :
           Q[i][k] # NoReg /\ Q[i][k] = Q[j][l] => i = j /\ k = l
    <3> SUFFICES ASSUME NEW i \in 1 .. n - 1, NEW j \in 1 .. n - 1,
                        NEW k \in 1 .. 2, NEW l \in 1 .. 2,
                        Q[i][k] # NoReg, Q[i][k] = Q[j][l]
                 PROVE  i = j /\ k = l
      BY <1>10
    <3>1. P2[i + 1][k] # NoReg /\ P2[i + 1][k] = P2[j + 1][l]
      BY <1>10
    <3>2. i + 1 = j + 1 /\ k = l
      BY <1>8, <1>10, <3>1 DEF Disjoint
    <3> QED  BY <1>2, <3>2
  <2>2. /\ \A a \in DOMAIN maptable : \A j \in DOMAIN Q : \A k \in 1 .. 2 :
              maptable[a] # Q[j][k]
        /\ \A i \in DOMAIN f2 : \A j \in DOMAIN Q : \A k \in 1 .. 2 :
              f2[i] # Q[j][k]
    BY <1>8, <1>10 DEF Disjoint
  <2> QED  BY <1>8, <2>1, <2>2 DEF Disjoint
<1>13. Covers(maptable, f2, Q)
  <2>1. \A j \in DOMAIN P2, l \in 1 .. 2, p \in PhyReg :
           P2[j][l] = p => j - 1 \in DOMAIN Q /\ Q[j - 1][l] = p
    BY <1>2, <1>9, <1>10 DEF PhyReg, NoReg
  <2> QED  BY <1>8, <2>1 DEF Covers
<1> QED  BY <1>3, <1>11, <1>12, <1>13 DEF NoSharing, NoLeak

LEMMA SamePending ==
    ASSUME TypeOK, Issue
    PROVE  PendingFree' = PendingFree
<1>1. /\ pos \in DOMAIN rob /\ rob' = [rob EXCEPT ![pos] = Execute(rob[pos])]
      /\ rob[pos] \in Entry /\ DOMAIN rob = 1 .. Len(rob)
  BY ElementOfSeq, LenProperties DEF TypeOK, Issue
<1>2. Execute(rob[pos]).pfree = rob[pos].pfree
  BY <1>1 DEF Execute, Entry
<1> QED  BY <1>1, <1>2 DEF PendingFree

\* Renaming and committing neither lose a physical register nor give it two
\* owners, for every size of the machine and every trace.
Conserved == TypeOK /\ NoSharing /\ NoLeak

LEMMA ConservedInductive == Conserved /\ [Next]_vars => Conserved'
<1> SUFFICES ASSUME TypeOK, NoSharing, NoLeak, [Next]_vars
             PROVE  NoSharing' /\ NoLeak'
  BY TypeInductive DEF Conserved
<1>1. CASE Commit
  BY <1>1, CommitConserves
<1>2. CASE Issue
  <2>1. maptable' = maptable /\ freelist' = freelist
    BY <1>2 DEF Issue
  <2> QED  BY <1>2, <2>1, SamePending DEF NoSharing, NoLeak
<1>3. ASSUME NEW op \in Records, NEW miss \in BOOLEAN, Fetch(op, miss)
      PROVE  NoSharing' /\ NoLeak'
  <2> DEFINE r == RenameInstruction(op)
             e == NewEntry(op, r, miss)
  <2>1. r \in Renamed /\ CanRename(op)
    BY <1>3, RenameType DEF Fetch
  <2>2. /\ Disjoint(r.map, r.free, With(PendingFree, Len(rob), r.pfree))
        /\ Covers(r.map, r.free, With(PendingFree, Len(rob), r.pfree))
    BY <2>1, RenameConserves
  <2> HIDE DEF r
  <2>3. maptable' = r.map /\ freelist' = r.free /\ rob' = Append(rob, e)
    BY <1>3 DEF Fetch, r
  <2>4. e \in Entry /\ e.pfree = r.pfree
    <3>1. e.pfree = r.pfree
      BY DEF NewEntry
    <3> QED  BY <2>1, <3>1, NewEntryType
  <2> HIDE DEF e
  <2>5. /\ DOMAIN rob = 1 .. Len(rob) /\ Len(rob) \in Nat
        /\ DOMAIN rob' = 1 .. Len(rob) + 1 /\ rob'[Len(rob) + 1] = e
        /\ \A j \in 1 .. Len(rob) : rob'[j] = rob[j]
    BY <2>3, <2>4, AppendProperties, LenProperties DEF TypeOK
  <2>6. PendingFree' = With(PendingFree, Len(rob), r.pfree)
    BY <2>4, <2>5 DEF PendingFree, With
  <2> QED  BY <2>2, <2>3, <2>6 DEF NoSharing, NoLeak
<1>4. CASE UNCHANGED <<maptable, freelist, rob>>
  BY <1>4 DEF NoSharing, NoLeak, PendingFree
<1> QED
  BY <1>1, <1>2, <1>3, <1>4 DEF Next, CommitNothing, IssueSkip, IssueEnd,
     FetchUndefined, FetchEndOfTrace, FetchSuspended, FetchNothing, Advance,
     Stopped, vars

LEMMA ConservedInit == Init => Conserved
<1> SUFFICES ASSUME Init PROVE NoSharing /\ NoLeak
  BY TypeInit DEF Conserved
<1>1. /\ rob = <<>> /\ DOMAIN rob = {} /\ PendingFree = [j \in {} |-> rob[j].pfree]
  BY DEF Init, PendingFree
<1>2. /\ DOMAIN maptable = ArchReg /\ \A a \in ArchReg : maptable[a] = a
      /\ DOMAIN freelist = 1 .. NumPhyReg - NumArchReg
      /\ \A i \in DOMAIN freelist : freelist[i] = NumArchReg + i - 1
  BY DEF Init
<1>3. NoSharing
  BY <1>1, <1>2, SizesAssumption DEF NoSharing, Disjoint, ArchReg
<1>4. NoLeak
  <2> SUFFICES ASSUME NEW p \in PhyReg
               PROVE  \/ \E a \in ArchReg : maptable[a] = p
                      \/ \E i \in DOMAIN freelist : freelist[i] = p
    BY <1>2 DEF NoLeak, Covers
  <2>1. CASE p < NumArchReg
    BY <2>1, <1>2, SizesAssumption DEF ArchReg, PhyReg
  <2>2. CASE p >= NumArchReg
    <3>1. /\ p - NumArchReg + 1 \in DOMAIN freelist
          /\ freelist[p - NumArchReg + 1] = p
      BY <2>2, <1>2, SizesAssumption DEF PhyReg
    <3> QED  BY <3>1
  <2> QED  BY <2>1, <2>2, SizesAssumption DEF PhyReg
<1> QED  BY <1>3, <1>4

\* No physical register ever has two owners.
THEOREM RegistersNotShared == Spec => []NoSharing
<1>1. Conserved => NoSharing
  BY DEF Conserved
<1> QED  BY <1>1, ConservedInit, ConservedInductive, PTL DEF Spec

\* No physical register is ever lost.
THEOREM RegistersNotLost == Spec => []NoLeak
<1>1. Conserved => NoLeak
  BY DEF Conserved
<1> QED  BY <1>1, ConservedInit, ConservedInductive, PTL DEF Spec

\* Counting the places where a register can be: whatever is not in the map
\* table or held by an instruction in flight is in the free list.
LEMMA FreeListBound ==
    ASSUME TypeOK, NoLeak
    PROVE  NumPhyReg <= NumArchReg + Len(freelist) + 2 * Len(rob)
<1> DEFINE m == Len(freelist)
           n == Len(rob)
           N == NumArchReg + m + 2 * n
           held(i) == IF i <= NumArchReg THEN maptable[i - 1]
                      ELSE IF i <= NumArchReg + m THEN freelist[i - NumArchReg]
                      ELSE IF i <= NumArchReg + m + n
                           THEN rob[i - NumArchReg - m].pfree[1]
                           ELSE rob[i - NumArchReg - m - n].pfree[2]
           f == [i \in 1 .. N |-> IF held(i) \in PhyReg THEN held(i) ELSE 0]
<1>1. /\ m \in Nat /\ n \in Nat /\ N \in Nat /\ 0 \in PhyReg
      /\ DOMAIN freelist = 1 .. m /\ DOMAIN rob = 1 .. n /\ DOMAIN maptable = ArchReg
  BY LenProperties, SizesAssumption DEF TypeOK, PhyReg
<1> HIDE DEF m, n
<1>2. f \in [1 .. N -> PhyReg]
  BY <1>1
<1>3. ASSUME NEW p \in PhyReg
      PROVE  \E i \in 1 .. N : f[i] = p
  <2>1. CASE \E a \in ArchReg : maptable[a] = p
    <3>1. PICK a \in ArchReg : maptable[a] = p
      BY <2>1
    <3>2. a + 1 \in 1 .. N /\ held(a + 1) = p
      BY <1>1, <3>1, SizesAssumption DEF ArchReg
    <3> QED  BY <3>2
  <2>2. CASE \E i \in DOMAIN freelist : freelist[i] = p
    <3>1. PICK i \in 1 .. m : freelist[i] = p
      BY <1>1, <2>2
    <3>2. NumArchReg + i \in 1 .. N /\ held(NumArchReg + i) = p
      BY <1>1, <3>1, SizesAssumption
    <3> QED  BY <3>2
  <2>3. CASE \E j \in DOMAIN rob : \E k \in 1 .. 2 : rob[j].pfree[k] = p
    <3>1. PICK j \in 1 .. n, k \in 1 .. 2 : rob[j].pfree[k] = p
      BY <1>1, <2>3
    <3>2. CASE k = 1
      <4>1. NumArchReg + m + j \in 1 .. N /\ held(NumArchReg + m + j) = p
        BY <1>1, <3>1, <3>2, SizesAssumption
      <4> QED  BY <4>1
    <3>3. CASE k = 2
      <4> DEFINE q == NumArchReg + m + n + j
      <4>1. /\ q \in 1 .. N /\ q - NumArchReg - m - n = j
            /\ ~ q <= NumArchReg /\ ~ q <= NumArchReg + m
            /\ ~ q <= NumArchReg + m + n
        BY <1>1, <3>1, SizesAssumption
      <4> HIDE DEF q
      <4>2. held(q) = rob[j].pfree[2]
        BY <4>1
      <4> QED  BY <3>1, <3>3, <4>1, <4>2
    <3> QED  BY <3>2, <3>3
  <2>4. /\ DOMAIN PendingFree = DOMAIN rob
        /\ \A j \in DOMAIN rob : PendingFree[j] = rob[j].pfree
    BY DEF PendingFree
  <2>5. \/ \E a \in ArchReg : maptable[a] = p
        \/ \E i \in DOMAIN freelist : freelist[i] = p
        \/ \E j \in DOMAIN rob : \E k \in 1 .. 2 : rob[j].pfree[k] = p
    BY <1>1, <2>4 DEF NoLeak, Covers
  <2> QED  BY <2>1, <2>2, <2>3, <2>5
<1>4. f \in Surjection(1 .. N, PhyReg)
  BY <1>2, <1>3 DEF Surjection
<1>5. ExistsSurjection(1 .. N, PhyReg)
  BY <1>4 DEF ExistsSurjection
<1>6. Cardinality(PhyReg) <= N
  BY <1>1, <1>5, FS_SurjCardinalityBound
<1>7. Cardinality(PhyReg) = NumPhyReg
  BY SizesAssumption, FS_Interval DEF PhyReg
<1> QED  BY <1>6, <1>7 DEF m, n

\* With two spare registers for each entry of the reorder buffer, the free
\* list never runs empty under renameInstruction().
THEOREM FreeListSuffices == Spec => []NoUnderflow
<1>1. Init => NoUnderflow
  BY DEF Init, NoUnderflow
<1>2. Conserved /\ NoUnderflow /\ [Next]_vars => NoUnderflow'
  <2> SUFFICES ASSUME TypeOK, NoLeak, NoUnderflow, [Next]_vars, EnoughRegisters
               PROVE  stage' # "undefined"
    BY DEF Conserved, NoUnderflow, EnoughRegisters
  <2>1. stage # "undefined"
    BY DEF NoUnderflow
  <2>2. ASSUME NEW op \in Records, FetchUndefined(op)
        PROVE  FALSE
    <3>1. /\ Len(freelist) <= 1 /\ Len(rob) < RobCapacity
          /\ Len(freelist) \in Nat /\ Len(rob) \in Nat
      BY <2>2, LenProperties DEF FetchUndefined, FetchGuard, CanRename, TypeOK
    <3>2. NumPhyReg <= NumArchReg + Len(freelist) + 2 * Len(rob)
      BY FreeListBound
    <3> QED  BY <3>1, <3>2, SizesAssumption DEF EnoughRegisters
  <2> QED
    BY <2>1, <2>2 DEF Next, Commit, CommitNothing, Issue, IssueSkip, IssueEnd,
       Fetch, FetchEndOfTrace, FetchSuspended, FetchNothing, Advance, Stopped,
       vars, NextIteration, Leave
<1> QED  BY <1>1, <1>2, ConservedInit, ConservedInductive, PTL DEF Spec

-----------------------------------------------------------------------------
(***************************************************************************)
(* Suspension of fetch in Exp4Processor.  No other subclass suspends it.   *)
(***************************************************************************)
Suspension == /\ SuspendedByMisprediction
              /\ exp # 4 => nFetchReady = 0

LEMMA SuspensionInductive ==
    ASSUME TypeOK, Suspension, [Next]_vars
    PROVE  Suspension'
<1> DEFINE n == Len(rob)
<1>1. /\ n \in Nat /\ DOMAIN rob = 1 .. n /\ rob \in Seq(Entry)
      /\ rob # <<>> <=> n > 0
      /\ nFetchReady \in Int
  BY LenProperties, EmptySeq DEF TypeOK
<1>2. /\ \A j \in 1 .. n : rob[j].mispredicted /\ ~ rob[j].issued
                              => j = n /\ nFetchReady < 0
      /\ nFetchReady < 0 => n > 0 /\ rob[n].mispredicted /\ ~ rob[n].issued
      /\ exp # 4 => nFetchReady = 0
  BY <1>1 DEF Suspension, SuspendedByMisprediction
<1>0. exp' = exp
  BY DEF Next, Commit, CommitNothing, Issue, IssueSkip, IssueEnd, Fetch,
     FetchUndefined, FetchEndOfTrace, FetchSuspended, FetchNothing, Advance,
     Stopped, vars
<1>3. CASE Commit
  <2>1. rob # <<>> /\ rob' = Tail(rob) /\ nFetchReady' = nFetchReady
    BY <1>3 DEF Commit
  <2>2. /\ Head(rob) = rob[1] /\ n >= 1 /\ Len(rob') = n - 1
        /\ rob' \in Seq(Entry) /\ DOMAIN rob' = 1 .. n - 1
        /\ \A j \in 1 .. n - 1 : rob'[j] = rob[j + 1]
    BY <1>1, <2>1, HeadTailProperties, LenProperties
  <2>3. rob[1].issued
    BY <1>3, <2>2 DEF Commit, IsDone
  <2> HIDE DEF n
  <2>4. \A j \in 1 .. n - 1 : rob'[j].mispredicted /\ ~ rob'[j].issued
           => j = n - 1 /\ nFetchReady < 0
    BY <1>1, <1>2, <2>2
  <2>5. nFetchReady < 0 => /\ n - 1 > 0
                           /\ rob'[n - 1].mispredicted /\ ~ rob'[n - 1].issued
    BY <1>1, <1>2, <2>2, <2>3
  <2>6. n - 1 > 0 => rob' # <<>>
    BY <2>2, EmptySeq
  <2> QED
    BY <1>2, <1>0, <2>1, <2>2, <2>4, <2>5, <2>6 DEF Suspension, SuspendedByMisprediction
<1>4. CASE Issue
  <2>1. /\ pos \in 1 .. n /\ ~ rob[pos].issued /\ rob[pos] \in Entry
        /\ rob' = [rob EXCEPT ![pos] = Execute(rob[pos])]
        /\ nFetchReady' = RestartFetch(rob[pos])
    BY <1>1, <1>4, ElementOfSeq DEF TypeOK, Issue, CanIssue
  <2>2. /\ Execute(rob[pos]).issued
        /\ Execute(rob[pos]).mispredicted = rob[pos].mispredicted
    BY <2>1 DEF Execute, Entry
  <2>3. Len(rob') = n /\ DOMAIN rob' = 1 .. n /\ rob' # <<>>
    BY <1>1, <2>1, ExecuteType, ExceptSeq, EmptySeq
  <2>4. \A j \in 1 .. n : rob'[j] = IF j = pos THEN Execute(rob[pos]) ELSE rob[j]
    BY <1>1, <2>1
  <2>5. rob[pos].op \in Records
    BY <2>1 DEF Entry
  <2> HIDE DEF n
  <2>6. CASE rob[pos].mispredicted
    <3>1. pos = n /\ nFetchReady < 0 /\ exp = 4
      BY <1>2, <2>1, <2>6
    <3>2. nFetchReady' >= 0
      BY <2>1, <2>5, <2>6, LatencyType DEF RestartFetch
    <3>3. \A j \in 1 .. n : ~ (rob'[j].mispredicted /\ ~ rob'[j].issued)
      BY <1>2, <2>2, <2>4, <3>1
    <3> QED
      BY <1>0, <2>1, <2>3, <2>5, <3>1, <3>2, <3>3, LatencyType
         DEF Suspension, SuspendedByMisprediction, RestartFetch
  <2>7. CASE ~ rob[pos].mispredicted
    <3>1. nFetchReady' = nFetchReady
      BY <2>1, <2>7 DEF RestartFetch
    <3>2. \A j \in 1 .. n : rob'[j].mispredicted /\ ~ rob'[j].issued
             => j = n /\ nFetchReady' < 0
      BY <1>2, <2>2, <2>4, <2>7, <3>1
    <3>3. nFetchReady' < 0 => n # pos /\ rob'[n] = rob[n]
      BY <1>1, <1>2, <2>4, <2>7, <3>1
    <3> QED
      BY <1>2, <1>0, <2>3, <3>1, <3>2, <3>3 DEF Suspension, SuspendedByMisprediction
  <2> QED  BY <2>6, <2>7
<1>5. ASSUME NEW op \in Records, NEW miss \in BOOLEAN, Fetch(op, miss)
      PROVE  Suspension'
  <2> DEFINE e == NewEntry(op, RenameInstruction(op), miss)
  <2>1. /\ rob' = Append(rob, e) /\ nFetchReady' = SuspendFetch(miss)
        /\ exp = 4 => nFetchReady = 0
        /\ miss => exp = 4
    BY <1>5 DEF Fetch, FetchGuard
  <2>2. e \in Entry /\ e.mispredicted = miss /\ ~ e.issued
    <3>1. e.mispredicted = miss /\ ~ e.issued
      BY DEF NewEntry
    <3> QED  BY <1>5, <3>1, RenameType, NewEntryType DEF Fetch
  <2> HIDE DEF e
  <2>3. /\ Len(rob') = n + 1 /\ DOMAIN rob' = 1 .. n + 1 /\ rob' # <<>>
        /\ rob'[n + 1] = e /\ \A j \in 1 .. n : rob'[j] = rob[j]
    BY <1>1, <2>1, <2>2, AppendProperties, LenProperties
  <2>4. nFetchReady = 0
    BY <1>2, <2>1
  <2> HIDE DEF n
  <2>5. \A j \in 1 .. n : ~ (rob'[j].mispredicted /\ ~ rob'[j].issued)
    BY <1>2, <2>3, <2>4
  <2> QED
    BY <1>1, <1>0, <2>1, <2>2, <2>3, <2>4, <2>5
       DEF Suspension, SuspendedByMisprediction, SuspendFetch
<1>6. CASE FetchSuspended
  <2>1. /\ rob' = rob /\ nFetchReady' \in Int /\ exp = 4
        /\ nFetchReady' < 0 <=> nFetchReady < 0
    BY <1>1, <1>6 DEF FetchSuspended
  <2> QED  BY <1>0, <2>1 DEF Suspension, SuspendedByMisprediction
<1>7. CASE UNCHANGED <<rob, nFetchReady>>
  BY <1>7, <1>0 DEF Suspension, SuspendedByMisprediction
<1> QED
  BY <1>3, <1>4, <1>5, <1>6, <1>7 DEF Next, CommitNothing, IssueSkip, IssueEnd,
     FetchUndefined, FetchEndOfTrace, FetchNothing, Advance, Stopped, vars

\* Fetch is suspended exactly while the youngest instruction in flight is a
\* mispredicted branch that has not issued.
THEOREM FetchSuspendedOnlyByBranch == Spec => []SuspendedByMisprediction
<1>1. Init => Suspension
  BY DEF Init, Suspension, SuspendedByMisprediction
<1>2. Suspension => SuspendedByMisprediction
  BY DEF Suspension
<1> QED
  BY <1>1, <1>2, TypeInit, TypeInductive, SuspensionInductive, PTL DEF Spec

\* The assertion of Exp4Processor::issue() never fails.
THEOREM AssertionNeverFails == Spec => []AssertSuspended
<1>1. TypeOK /\ SuspendedByMisprediction => AssertSuspended
  <2> SUFFICES ASSUME TypeOK, SuspendedByMisprediction, pos <= Len(rob),
                      CanIssue(rob[pos]), rob[pos].mispredicted
               PROVE  nFetchReady < 0
    BY DEF AssertSuspended
  <2>1. pos \in DOMAIN rob
    BY LenProperties DEF TypeOK
  <2> QED  BY <2>1 DEF SuspendedByMisprediction, CanIssue
<1> QED  BY <1>1, TypeCorrect, FetchSuspendedOnlyByBranch, PTL

-----------------------------------------------------------------------------
(***************************************************************************)
(* The order in which instructions issue and retire: the scoreboard agrees *)
(* with the reorder buffer, so that instructions wait for their operands;  *)
(* loads wait for the stores their experiment names; retirement is in      *)
(* program order.                                                          *)
(***************************************************************************)

\* The shape of the reorder buffer after each action that changes it.
LEMMA RobFacts ==
    ASSUME TypeOK
    PROVE  /\ Len(rob) \in Nat /\ DOMAIN rob = 1 .. Len(rob)
           /\ \A j \in 1 .. Len(rob) : rob[j] \in Entry
BY LenProperties, ElementOfSeq DEF TypeOK

LEMMA CommitFacts ==
    ASSUME TypeOK, Commit
    PROVE  /\ Len(rob) >= 1 /\ Head(rob) = rob[1] /\ IsDone(rob[1])
           /\ Len(rob') = Len(rob) - 1 /\ DOMAIN rob' = 1 .. Len(rob) - 1
           /\ \A j \in 1 .. Len(rob) - 1 : rob'[j] = rob[j + 1]
<1>1. rob \in Seq(Entry) /\ rob # <<>> /\ rob' = Tail(rob)
  BY DEF TypeOK, Commit
<1>2. Len(rob) \in Nat \ {0} /\ Head(rob) = rob[1]
  BY <1>1, EmptySeq
<1> QED  BY <1>1, <1>2, HeadTailProperties, LenProperties DEF Commit

LEMMA IssueFacts ==
    ASSUME TypeOK, Issue
    PROVE  LET e == rob[pos]
           IN  /\ pos \in 1 .. Len(rob) /\ e \in Entry
               /\ ~ e.issued /\ IsReady(e)
               /\ Len(rob') = Len(rob) /\ DOMAIN rob' = 1 .. Len(rob)
               /\ rob'[pos] = Execute(e)
               /\ \A j \in 1 .. Len(rob) : j # pos => rob'[j] = rob[j]
<1>1. /\ pos \in 1 .. Len(rob) /\ CanIssue(rob[pos]) /\ rob \in Seq(Entry)
      /\ rob' = [rob EXCEPT ![pos] = Execute(rob[pos])]
  BY RobFacts DEF TypeOK, Issue
<1>2. rob[pos] \in Entry
  BY <1>1, ElementOfSeq
<1> QED
  BY <1>1, <1>2, ExecuteType, ExceptSeq, RobFacts DEF CanIssue

LEMMA ExecuteFields ==
    ASSUME TypeOK, NEW e \in Entry
    PROVE  LET x == Execute(e)
           IN  /\ x.issued /\ x.issueCycle = currentCycle
               /\ x.doneCycle = currentCycle + Latency(e.op)
               /\ x.op = e.op /\ x.age = e.age /\ x.psrc = e.psrc
               /\ x.pdest = e.pdest /\ x.pfree = e.pfree
               /\ x.fetchCycle = e.fetchCycle /\ x.mispredicted = e.mispredicted
BY DEF Execute, Entry

LEMMA FetchFacts ==
    ASSUME TypeOK, NEW op \in Records, NEW miss \in BOOLEAN, Fetch(op, miss)
    PROVE  LET r == RenameInstruction(op)
           IN  /\ r \in Renamed
               /\ Len(rob') = Len(rob) + 1 /\ DOMAIN rob' = 1 .. Len(rob) + 1
               /\ rob'[Len(rob) + 1] = NewEntry(op, r, miss)
               /\ \A j \in 1 .. Len(rob) : rob'[j] = rob[j]
<1>1. RenameInstruction(op) \in Renamed
  BY RenameType DEF Fetch
<1>2. /\ NewEntry(op, RenameInstruction(op), miss) \in Entry
      /\ rob' = Append(rob, NewEntry(op, RenameInstruction(op), miss))
      /\ rob \in Seq(Entry)
  BY <1>1, NewEntryType DEF Fetch, TypeOK
<1> QED  BY <1>1, <1>2, AppendProperties, LenProperties

-----------------------------------------------------------------------------
(***************************************************************************)
(* Program order.                                                          *)
(***************************************************************************)
\* The ages in the reorder buffer are those of the last instructions fetched.
AgesConsecutive == \A j \in DOMAIN rob : rob[j].age = totalMicro - Len(rob) + j

\* An instruction is fetched before the cycle it issues in, and issued before
\* the cycle it is done in; only the fetch of this cycle has its time.
TimesOrdered ==
    \A j \in DOMAIN rob :
        /\ \/ rob[j].fetchCycle < currentCycle
           \/ /\ rob[j].fetchCycle = currentCycle
              /\ stage \in {"fetch", "advance", "undefined"}
        /\ rob[j].issued => /\ rob[j].fetchCycle < rob[j].issueCycle
                            /\ rob[j].issueCycle < rob[j].doneCycle

OrderInv == TypeOK /\ AgesConsecutive /\ TimesOrdered

LEMMA OrderInductive ==
    ASSUME OrderInv, [Next]_vars
    PROVE  AgesConsecutive' /\ TimesOrdered'
<1> USE DEF OrderInv
<1>1. /\ Len(rob) \in Nat /\ DOMAIN rob = 1 .. Len(rob)
      /\ totalMicro \in Nat /\ currentCycle \in Nat
      /\ \A j \in 1 .. Len(rob) : rob[j] \in Entry
  BY RobFacts DEF TypeOK
<1>2. CASE Commit
  <2>1. totalMicro' = totalMicro /\ currentCycle' = currentCycle
    BY <1>2 DEF Commit
  <2>2. stage = "commit"
    BY <1>2 DEF Commit
  <2>3. \A j \in 1 .. Len(rob) - 1 : j + 1 \in DOMAIN rob
    BY <1>1
  <2>4. AgesConsecutive'
    <3> DEFINE n == Len(rob)
    <3>1. \A j \in 1 .. n - 1 : rob[j + 1].age = totalMicro - n + (j + 1)
      BY <2>3 DEF AgesConsecutive
    <3>2. /\ DOMAIN rob' = 1 .. n - 1 /\ Len(rob') = n - 1
          /\ \A j \in 1 .. n - 1 : rob'[j] = rob[j + 1]
      BY <1>2, CommitFacts
    <3>3. n \in Nat /\ totalMicro \in Nat
      BY <1>1
    <3> HIDE DEF n
    <3> QED  BY <2>1, <3>1, <3>2, <3>3 DEF AgesConsecutive
  <2>5. TimesOrdered'
    <3>1. \A j \in DOMAIN rob :
             /\ rob[j].fetchCycle < currentCycle
             /\ rob[j].issued => /\ rob[j].fetchCycle < rob[j].issueCycle
                                 /\ rob[j].issueCycle < rob[j].doneCycle
      BY <2>2 DEF TimesOrdered
    <3>2. /\ DOMAIN rob' = 1 .. Len(rob) - 1
          /\ \A j \in 1 .. Len(rob) - 1 : rob'[j] = rob[j + 1]
      BY <1>2, CommitFacts
    <3> QED  BY <2>1, <2>3, <3>1, <3>2 DEF TimesOrdered
  <2> QED  BY <2>4, <2>5
<1>3. CASE Issue
  <2>1. /\ totalMicro' = totalMicro /\ currentCycle' = currentCycle
        /\ stage = "issue" /\ Len(rob') = Len(rob)
        /\ DOMAIN rob' = DOMAIN rob /\ pos \in DOMAIN rob
        /\ rob'[pos] = Execute(rob[pos]) /\ rob[pos] \in Entry
        /\ \A j \in DOMAIN rob : j # pos => rob'[j] = rob[j]
    BY <1>1, <1>3, IssueFacts DEF Issue
  <2>2. /\ rob'[pos].age = rob[pos].age
        /\ rob'[pos].fetchCycle = rob[pos].fetchCycle
        /\ rob'[pos].issueCycle = currentCycle
        /\ rob'[pos].doneCycle = currentCycle + Latency(rob[pos].op)
    BY <2>1, ExecuteFields
  <2>3. Latency(rob[pos].op) \in Nat /\ Latency(rob[pos].op) >= 1
    BY <2>1, LatencyType DEF Entry
  <2>4. AgesConsecutive'
    BY <2>1, <2>2 DEF AgesConsecutive
  <2>5. rob[pos].fetchCycle < currentCycle
    BY <2>1 DEF TimesOrdered
  <2>6. TimesOrdered'
    BY <1>1, <2>1, <2>2, <2>3, <2>5 DEF TimesOrdered
  <2> QED  BY <2>4, <2>6
<1>4. ASSUME NEW op \in Records, NEW miss \in BOOLEAN, Fetch(op, miss)
      PROVE  AgesConsecutive' /\ TimesOrdered'
  <2> DEFINE e == NewEntry(op, RenameInstruction(op), miss)
  <2>1. /\ totalMicro' = totalMicro + 1 /\ currentCycle' = currentCycle
        /\ stage = "fetch" /\ stage' \in {"fetch", "advance"}
    BY <1>4 DEF Fetch, FetchGuard, NextIteration
  <2>2. /\ Len(rob') = Len(rob) + 1 /\ DOMAIN rob' = 1 .. Len(rob) + 1
        /\ rob'[Len(rob) + 1] = e
        /\ \A j \in 1 .. Len(rob) : rob'[j] = rob[j]
    BY <1>4, FetchFacts
  <2>3. e.age = totalMicro + 1 /\ e.fetchCycle = currentCycle /\ ~ e.issued
    BY DEF NewEntry
  <2> HIDE DEF e
  <2>4. AgesConsecutive'
    BY <1>1, <2>1, <2>2, <2>3 DEF AgesConsecutive
  <2>5. TimesOrdered'
    BY <1>1, <2>1, <2>2, <2>3 DEF TimesOrdered
  <2> QED  BY <2>4, <2>5
<1>5. CASE Advance
  BY <1>1, <1>5 DEF Advance, AgesConsecutive, TimesOrdered, Entry, Leave
<1>6. CASE \/ CommitNothing \/ IssueSkip \/ IssueEnd
           \/ \E op \in Records : FetchUndefined(op)
           \/ FetchEndOfTrace \/ FetchSuspended \/ FetchNothing
  <2>1. UNCHANGED <<rob, totalMicro, currentCycle>>
    BY <1>6 DEF CommitNothing, IssueSkip, IssueEnd, FetchUndefined,
       FetchEndOfTrace, FetchSuspended, FetchNothing
  <2>2. stage \in {"fetch", "advance", "undefined"}
           => stage' \in {"fetch", "advance", "undefined"}
    BY <1>6 DEF CommitNothing, IssueSkip, IssueEnd, FetchUndefined,
       FetchEndOfTrace, FetchSuspended, FetchNothing, Leave
  <2> QED  BY <2>1, <2>2 DEF AgesConsecutive, TimesOrdered
<1>7. CASE UNCHANGED vars
  BY <1>7 DEF AgesConsecutive, TimesOrdered, vars
<1> QED
  BY <1>2, <1>3, <1>4, <1>5, <1>6, <1>7 DEF Next, Stopped

LEMMA OrderInit == Init => OrderInv
BY TypeInit DEF Init, OrderInv, AgesConsecutive, TimesOrdered

LEMMA OrderStep == OrderInv /\ [Next]_vars => OrderInv'
BY TypeInductive, OrderInductive DEF OrderInv

\* Instructions retire one by one in program order, each in a later cycle than
\* it issued in, and issued in a later cycle than it was fetched in.
THEOREM RetirementInOrder == Spec => RetireInOrder
<1>1. OrderInv /\ [Next]_vars
         => [Len(rob') < Len(rob) => Retires(Head(rob)) /\ rob' = Tail(rob)]_vars
  <2> SUFFICES ASSUME OrderInv, [Next]_vars, Len(rob') < Len(rob)
               PROVE  Retires(Head(rob)) /\ rob' = Tail(rob)
    OBVIOUS
  <2>1. TypeOK /\ Len(rob) \in Nat
    BY RobFacts DEF OrderInv
  <2>2. Commit
    <3>1. ~ Issue
      BY <2>1, IssueFacts
    <3>2. \A op \in Records, miss \in BOOLEAN : ~ Fetch(op, miss)
      BY <2>1, FetchFacts
    <3>3. rob' # rob
      BY <2>1
    <3> QED
      BY <3>1, <3>2, <3>3 DEF Next, CommitNothing, IssueSkip, IssueEnd,
         FetchUndefined, FetchEndOfTrace, FetchSuspended, FetchNothing, Advance,
         Stopped, vars
  <2>3. 1 \in DOMAIN rob /\ Head(rob) = rob[1] /\ IsDone(rob[1])
    BY <2>1, <2>2, CommitFacts, RobFacts
  <2>4. Retires(rob[1])
    BY <2>1, <2>3 DEF OrderInv, AgesConsecutive, TimesOrdered, Retires, IsDone, TypeOK
  <2> QED  BY <2>2, <2>3, <2>4 DEF Commit
<1> QED  BY <1>1, OrderInit, OrderStep, PTL DEF Spec, RetireInOrder

-----------------------------------------------------------------------------
(***************************************************************************)
(* Destinations.  What an instruction in flight writes stays allocated: it *)
(* is the current mapping of a register, or a younger writer of the same   *)
(* register will free it (the second destination of the same instruction,  *)
(* when both are one register).                                            *)
(***************************************************************************)
FreedAfter(p, j, d) ==
    \E i \in DOMAIN rob, k \in 1 .. 2 :
        /\ rob[i].pfree[k] = p
        /\ i > j \/ (i = j /\ d = 1 /\ k = 2)

DestsHeld ==
    \A j \in DOMAIN rob, d \in 1 .. 2 : rob[j].pdest[d] # NoReg =>
        \/ \E a \in ArchReg : maptable[a] = rob[j].pdest[d]
        \/ FreedAfter(rob[j].pdest[d], j, d)

DestsDistinct ==
    \A i, j \in DOMAIN rob, c, d \in 1 .. 2 :
        i # j /\ rob[i].pdest[c] # NoReg => rob[i].pdest[c] # rob[j].pdest[d]

\* The registers that renaming an instruction displaces and allocates.
LEMMA RenameDestEffect ==
    ASSUME NEW r \in Renamed, NEW k \in 1 .. 2, NEW areg \in ArchReg \cup {NoReg},
           areg # NoReg => Len(r.free) >= 1,
           r.pdest[k] = NoReg
    PROVE  LET s == RenameDest(r, k, areg)
           IN  /\ \A p \in PhyReg : (\E a \in ArchReg : r.map[a] = p)
                     => (\E a \in ArchReg : s.map[a] = p) \/ s.pfree[k] = p
               /\ s.pdest[k] # NoReg =>
                     /\ \E a \in ArchReg : s.map[a] = s.pdest[k]
                     /\ \E i \in DOMAIN r.free : r.free[i] = s.pdest[k]
               /\ \A i \in DOMAIN s.free : \E j \in DOMAIN r.free : r.free[j] = s.free[i]
<1>1. CASE areg = NoReg
  BY <1>1 DEF RenameDest
<1>2. CASE areg # NoReg
  <2> DEFINE s == RenameDest(r, k, areg)
  <2>1. r.free \in Seq(PhyReg) /\ r.free # <<>> /\ areg \in ArchReg
    BY <1>2 DEF Renamed
  <2>2. /\ Head(r.free) = r.free[1] /\ DOMAIN r.free = 1 .. Len(r.free)
        /\ Len(r.free) \in Nat /\ DOMAIN Tail(r.free) = 1 .. Len(r.free) - 1
        /\ \A i \in 1 .. Len(r.free) - 1 : Tail(r.free)[i] = r.free[i + 1]
    BY <2>1, HeadTailProperties, LenProperties
  <2>3. /\ s.free = Tail(r.free)
        /\ s.pdest[k] = r.free[1] /\ s.pfree[k] = r.map[areg]
        /\ \A a \in ArchReg : s.map[a] = IF a = areg THEN r.free[1] ELSE r.map[a]
    BY <1>2, <2>1, <2>2 DEF RenameDest, Renamed
  <2> HIDE DEF s
  <2>4. 1 \in DOMAIN r.free /\ \A i \in 1 .. Len(r.free) - 1 : i + 1 \in DOMAIN r.free
    BY <1>2, <2>2
  <2>5. \A i \in DOMAIN s.free : \E j \in DOMAIN r.free : r.free[j] = s.free[i]
    BY <2>2, <2>3, <2>4
  <2>6. \A p \in PhyReg : (\E a \in ArchReg : r.map[a] = p)
           => (\E a \in ArchReg : s.map[a] = p) \/ s.pfree[k] = p
    BY <2>3
  <2>7. /\ \E a \in ArchReg : s.map[a] = s.pdest[k]
        /\ \E i \in DOMAIN r.free : r.free[i] = s.pdest[k]
    BY <2>1, <2>3, <2>4
  <2> QED  BY <2>5, <2>6, <2>7 DEF s
<1> QED  BY <1>1, <1>2

LEMMA RenameEffect ==
    ASSUME TypeOK, NEW op \in Records, CanRename(op)
    PROVE  LET r == RenameInstruction(op)
           IN  /\ \A p \in PhyReg : (\E a \in ArchReg : maptable[a] = p)
                     => (\E a \in ArchReg : r.map[a] = p) \/ (\E k \in 1 .. 2 : r.pfree[k] = p)
               /\ \A d \in 1 .. 2 : r.pdest[d] # NoReg =>
                     /\ \/ \E a \in ArchReg : r.map[a] = r.pdest[d]
                        \/ d = 1 /\ r.pfree[2] = r.pdest[d]
                     /\ \E i \in DOMAIN freelist : freelist[i] = r.pdest[d]
<1> DEFINE r0 == Unrenamed
           r1 == RenameDest(r0, 1, ArchDest(op)[1])
           r2 == RenameDest(r1, 2, ArchDest(op)[2])
<1>1. /\ r0 \in Renamed /\ r0.free = freelist /\ r0.map = maptable
      /\ r0.pdest[1] = NoReg /\ r0.pdest[2] = NoReg
  BY DEF TypeOK, Unrenamed, Renamed, RegOrNone
<1> HIDE DEF r0
<1>2. /\ ArchDest(op)[1] # NoReg => Len(r0.free) >= 1
      /\ Len(freelist) \in Nat
  BY <1>1 DEF CanRename, TypeOK
<1>3. /\ r1 \in Renamed
      /\ Len(r1.free) = IF ArchDest(op)[1] = NoReg THEN Len(freelist)
                                                  ELSE Len(freelist) - 1
      /\ r1.pdest[2] = NoReg
  BY <1>1, <1>2, DestType, RenameDestType, RenameDestFrame
<1>4. /\ \A p \in PhyReg : (\E a \in ArchReg : r0.map[a] = p)
            => (\E a \in ArchReg : r1.map[a] = p) \/ r1.pfree[1] = p
      /\ r1.pdest[1] # NoReg =>
            /\ \E a \in ArchReg : r1.map[a] = r1.pdest[1]
            /\ \E i \in DOMAIN r0.free : r0.free[i] = r1.pdest[1]
      /\ \A i \in DOMAIN r1.free : \E j \in DOMAIN r0.free : r0.free[j] = r1.free[i]
  BY <1>1, <1>2, DestType, RenameDestEffect
<1> HIDE DEF r1
<1>5. ArchDest(op)[2] # NoReg => Len(r1.free) >= 1
  BY <1>2, <1>3 DEF CanRename
<1>6. /\ \A p \in PhyReg : (\E a \in ArchReg : r1.map[a] = p)
            => (\E a \in ArchReg : r2.map[a] = p) \/ r2.pfree[2] = p
      /\ r2.pdest[2] # NoReg =>
            /\ \E a \in ArchReg : r2.map[a] = r2.pdest[2]
            /\ \E i \in DOMAIN r1.free : r1.free[i] = r2.pdest[2]
  BY <1>3, <1>5, DestType, RenameDestEffect
<1>7. r2.pfree[1] = r1.pfree[1] /\ r2.pdest[1] = r1.pdest[1]
  BY <1>3, RenameDestFrame
<1>8. r1.pdest[1] # NoReg => r1.pdest[1] \in PhyReg
  BY <1>3 DEF Renamed, RegOrNone
<1> HIDE DEF r2
<1>9. \A p \in PhyReg : (\E a \in ArchReg : maptable[a] = p)
         => (\E a \in ArchReg : r2.map[a] = p) \/ (\E k \in 1 .. 2 : r2.pfree[k] = p)
  BY <1>1, <1>4, <1>6, <1>7
<1>10. r2.pdest[1] # NoReg =>
          /\ \/ \E a \in ArchReg : r2.map[a] = r2.pdest[1]
             \/ r2.pfree[2] = r2.pdest[1]
          /\ \E i \in DOMAIN freelist : freelist[i] = r2.pdest[1]
  BY <1>1, <1>4, <1>6, <1>7, <1>8
<1>11. r2.pdest[2] # NoReg =>
          /\ \E a \in ArchReg : r2.map[a] = r2.pdest[2]
          /\ \E i \in DOMAIN freelist : freelist[i] = r2.pdest[2]
  BY <1>1, <1>4, <1>6
<1>12. r2 = RenameInstruction(op)
  BY DEF RenameInstruction, r0, r1, r2
<1> QED  BY <1>9, <1>10, <1>11, <1>12

DestInv == Conserved /\ DestsHeld /\ DestsDistinct

LEMMA DestCommit ==
    ASSUME DestInv, Commit
    PROVE  DestsHeld' /\ DestsDistinct'
<1> DEFINE n == Len(rob)
<1>1. /\ TypeOK /\ n \in Nat /\ n >= 1 /\ DOMAIN rob = 1 .. n /\ DOMAIN rob' = 1 .. n - 1
      /\ maptable' = maptable
      /\ \A j \in 1 .. n - 1 : j + 1 \in DOMAIN rob /\ rob'[j] = rob[j + 1]
  BY CommitFacts, RobFacts DEF DestInv, Conserved, Commit
<1> HIDE DEF n
<1>2. DestsDistinct'
  <2> SUFFICES ASSUME NEW i \in 1 .. n - 1, NEW j \in 1 .. n - 1, i # j,
                      NEW c \in 1 .. 2, NEW d \in 1 .. 2, rob'[i].pdest[c] # NoReg
               PROVE  rob'[i].pdest[c] # rob'[j].pdest[d]
    BY <1>1 DEF DestsDistinct
  <2>1. /\ i + 1 \in DOMAIN rob /\ j + 1 \in DOMAIN rob /\ i + 1 # j + 1
        /\ rob'[i] = rob[i + 1] /\ rob'[j] = rob[j + 1]
    BY <1>1
  <2>2. rob[i + 1].pdest[c] # rob[j + 1].pdest[d]
    BY <2>1 DEF DestInv, DestsDistinct
  <2> QED  BY <2>1, <2>2
<1>3. ASSUME NEW j \in 1 .. n - 1, NEW d \in 1 .. 2, rob'[j].pdest[d] # NoReg
      PROVE  \/ \E a \in ArchReg : maptable'[a] = rob'[j].pdest[d]
             \/ \E i \in DOMAIN rob', k \in 1 .. 2 :
                   /\ rob'[i].pfree[k] = rob'[j].pdest[d]
                   /\ i > j \/ (i = j /\ d = 1 /\ k = 2)
  <2>1. \/ \E a \in ArchReg : maptable[a] = rob[j + 1].pdest[d]
        \/ FreedAfter(rob[j + 1].pdest[d], j + 1, d)
    BY <1>1, <1>3 DEF DestInv, DestsHeld
  <2>2. CASE FreedAfter(rob[j + 1].pdest[d], j + 1, d)
    <3>1. PICK i \in 1 .. n, k \in 1 .. 2 :
             /\ rob[i].pfree[k] = rob[j + 1].pdest[d]
             /\ i > j + 1 \/ (i = j + 1 /\ d = 1 /\ k = 2)
      BY <1>1, <2>2 DEF FreedAfter
    <3>2. i - 1 \in 1 .. n - 1 /\ (i - 1) + 1 = i
      BY <1>1, <3>1
    <3>3. rob'[i - 1].pfree[k] = rob'[j].pdest[d]
      BY <1>1, <3>1, <3>2
    <3>4. i - 1 > j \/ (i - 1 = j /\ d = 1 /\ k = 2)
      BY <3>1
    <3> QED  BY <1>1, <3>2, <3>3, <3>4
  <2> QED  BY <1>1, <2>1, <2>2
<1> QED  BY <1>1, <1>2, <1>3 DEF DestsHeld, FreedAfter

LEMMA DestFetch ==
    ASSUME DestInv, NEW op \in Records, NEW miss \in BOOLEAN, Fetch(op, miss)
    PROVE  /\ DestsHeld' /\ DestsDistinct'
           /\ \A j \in DOMAIN rob, c, d \in 1 .. 2 :
                 rob[j].pdest[c] # NoReg
                     => rob[j].pdest[c] # RenameInstruction(op).pdest[d]
<1> DEFINE n == Len(rob)
           r == RenameInstruction(op)
           e == NewEntry(op, r, miss)
<1>1. /\ TypeOK /\ n \in Nat /\ DOMAIN rob = 1 .. n /\ DOMAIN rob' = 1 .. n + 1
      /\ \A j \in 1 .. n : rob'[j] = rob[j] /\ rob[j] \in Entry
      /\ rob'[n + 1] = e /\ r \in Renamed
  BY RobFacts, FetchFacts DEF DestInv, Conserved
<1>2. maptable' = r.map /\ CanRename(op)
  BY DEF Fetch
<1>3. /\ \A p \in PhyReg : (\E a \in ArchReg : maptable[a] = p)
            => (\E a \in ArchReg : r.map[a] = p) \/ (\E k \in 1 .. 2 : r.pfree[k] = p)
      /\ \A d \in 1 .. 2 : r.pdest[d] # NoReg =>
            /\ \/ \E a \in ArchReg : r.map[a] = r.pdest[d]
               \/ d = 1 /\ r.pfree[2] = r.pdest[d]
            /\ \E i \in DOMAIN freelist : freelist[i] = r.pdest[d]
  BY <1>1, <1>2, RenameEffect
<1>4. e.pdest = r.pdest /\ e.pfree = r.pfree
  BY DEF NewEntry
<1> HIDE DEF n, r, e
<1>5. ASSUME NEW j \in 1 .. n, NEW c \in 1 .. 2, rob[j].pdest[c] # NoReg
      PROVE  /\ rob[j].pdest[c] \in PhyReg
             /\ \A i \in DOMAIN freelist : freelist[i] # rob[j].pdest[c]
             /\ \A d \in 1 .. 2 : r.pdest[d] # rob[j].pdest[c]
  <2>1. rob[j].pdest[c] \in PhyReg
    BY <1>1, <1>5 DEF Entry
  <2>2. \/ \E a \in ArchReg : maptable[a] = rob[j].pdest[c]
        \/ \E i \in 1 .. n, k \in 1 .. 2 : rob[i].pfree[k] = rob[j].pdest[c]
    BY <1>1, <1>5 DEF DestInv, DestsHeld, FreedAfter
  <2>3. /\ DOMAIN maptable = ArchReg /\ DOMAIN PendingFree = 1 .. n
        /\ \A i \in 1 .. n : PendingFree[i] = rob[i].pfree
    BY <1>1 DEF TypeOK, PendingFree
  <2>4. \A i \in DOMAIN freelist : freelist[i] # rob[j].pdest[c]
    BY <2>2, <2>3 DEF DestInv, Conserved, NoSharing, Disjoint
  <2> QED  BY <1>3, <1>5, <2>1, <2>4
<1>6. DestsDistinct'
  <2> SUFFICES ASSUME NEW i \in 1 .. n + 1, NEW j \in 1 .. n + 1,
                      NEW c \in 1 .. 2, NEW d \in 1 .. 2,
                      i # j, rob'[i].pdest[c] # NoReg
               PROVE  rob'[i].pdest[c] # rob'[j].pdest[d]
    BY <1>1 DEF DestsDistinct
  <2>1. CASE i \in 1 .. n /\ j \in 1 .. n
    BY <1>1, <2>1 DEF DestInv, DestsDistinct
  <2>2. CASE i \in 1 .. n /\ j = n + 1
    BY <1>1, <1>4, <1>5, <2>2
  <2>3. CASE i = n + 1 /\ j \in 1 .. n
    BY <1>1, <1>4, <1>5, <2>3
  <2> QED  BY <1>1, <2>1, <2>2, <2>3
<1>7. ASSUME NEW j \in 1 .. n + 1, NEW d \in 1 .. 2, rob'[j].pdest[d] # NoReg
      PROVE  \/ \E a \in ArchReg : maptable'[a] = rob'[j].pdest[d]
             \/ \E i \in 1 .. n + 1, k \in 1 .. 2 :
                   /\ rob'[i].pfree[k] = rob'[j].pdest[d]
                   /\ i > j \/ (i = j /\ d = 1 /\ k = 2)
  <2>1. CASE j = n + 1
    BY <1>1, <1>2, <1>3, <1>4, <1>7, <2>1
  <2>2. CASE j \in 1 .. n
    <3> DEFINE p == rob[j].pdest[d]
    <3>1. rob'[j].pdest[d] = p /\ p # NoReg /\ p \in PhyReg
      BY <1>1, <1>5, <1>7, <2>2
    <3>2. (\E a \in ArchReg : maptable[a] = p) \/ FreedAfter(p, j, d)
      BY <1>1, <2>2, <3>1 DEF DestInv, DestsHeld
    <3> HIDE DEF p
    <3>3. CASE \E a \in ArchReg : maptable[a] = p
      <4>1. \/ \E a \in ArchReg : maptable'[a] = p
            \/ \E k \in 1 .. 2 : rob'[n + 1].pfree[k] = p
        BY <1>1, <1>2, <1>3, <1>4, <3>1, <3>3
      <4>2. n + 1 > j /\ n + 1 \in 1 .. n + 1
        BY <1>1, <2>2
      <4> QED  BY <3>1, <4>1, <4>2
    <3>4. CASE FreedAfter(p, j, d)
      <4>1. PICK i \in 1 .. n, k \in 1 .. 2 :
               rob[i].pfree[k] = p /\ (i > j \/ (i = j /\ d = 1 /\ k = 2))
        BY <1>1, <3>4 DEF FreedAfter
      <4>2. i \in 1 .. n + 1 /\ rob'[i].pfree[k] = p
        BY <1>1, <4>1
      <4> QED  BY <3>1, <4>1, <4>2
    <3> QED  BY <3>2, <3>3, <3>4
  <2> QED  BY <1>1, <2>1, <2>2
<1>8. DestsHeld'
  BY <1>1, <1>7 DEF DestsHeld, FreedAfter
<1> QED  BY <1>1, <1>5, <1>6, <1>8 DEF r

LEMMA DestIssue ==
    ASSUME DestInv, Issue
    PROVE  DestsHeld' /\ DestsDistinct'
<1>1. /\ TypeOK /\ DOMAIN rob' = DOMAIN rob /\ pos \in DOMAIN rob
      /\ maptable' = maptable
      /\ rob'[pos] = Execute(rob[pos]) /\ rob[pos] \in Entry
      /\ \A j \in DOMAIN rob : j # pos => rob'[j] = rob[j]
  BY IssueFacts, RobFacts DEF DestInv, Conserved, Issue
<1>2. \A j \in DOMAIN rob : rob'[j].pdest = rob[j].pdest /\ rob'[j].pfree = rob[j].pfree
  BY <1>1, ExecuteFields
<1> QED  BY <1>1, <1>2 DEF DestInv, DestsHeld, DestsDistinct, FreedAfter

LEMMA DestInductive == DestInv /\ [Next]_vars => DestInv'
<1> SUFFICES ASSUME DestInv, [Next]_vars PROVE DestsHeld' /\ DestsDistinct'
  BY ConservedInductive DEF DestInv
<1>1. CASE UNCHANGED <<maptable, rob>>
  BY <1>1 DEF DestInv, DestsHeld, DestsDistinct, FreedAfter
<1> QED
  BY <1>1, DestCommit, DestIssue, DestFetch DEF Next, CommitNothing, IssueSkip,
     IssueEnd, FetchUndefined, FetchEndOfTrace, FetchSuspended, FetchNothing,
     Advance, Stopped, vars

-----------------------------------------------------------------------------
(***************************************************************************)
(* The scoreboard, and the order of dependent instructions.                *)
(***************************************************************************)
Left(e, cycle) == IF ~ e.issued THEN -1
                  ELSE IF e.doneCycle <= cycle THEN 0 ELSE e.doneCycle - cycle

\* ScoreboardExact as a statement about three values, so that it can be made
\* of the next state as well as of the current one.
Agree(board, buffer, cycle) ==
    /\ \A j \in DOMAIN buffer : \A d \in 1 .. 2 : buffer[j].pdest[d] # NoReg
          => board[buffer[j].pdest[d]] = Left(buffer[j], cycle)
    /\ \A p \in PhyReg :
          (\A j \in DOMAIN buffer : \A d \in 1 .. 2 : buffer[j].pdest[d] # p)
             => board[p] = 0

LEMMA AgreeIsExact ==
    /\ ScoreboardExact <=> Agree(scoreboard, rob, currentCycle)
    /\ ScoreboardExact' <=> Agree(scoreboard', rob', currentCycle')
BY DEF ScoreboardExact, Agree, Remaining, IsDone, Left

LEMMA ScoreboardCommit ==
    ASSUME TypeOK, Agree(scoreboard, rob, currentCycle), Commit
    PROVE  Agree(scoreboard', rob', currentCycle')
<1>1. /\ Len(rob) \in Nat /\ DOMAIN rob = 1 .. Len(rob)
      /\ DOMAIN rob' = 1 .. Len(rob) - 1 /\ 1 \in DOMAIN rob
      /\ \A j \in 1 .. Len(rob) - 1 : j + 1 \in DOMAIN rob /\ rob'[j] = rob[j + 1]
      /\ rob[1].issued /\ rob[1].doneCycle <= currentCycle
  BY CommitFacts, RobFacts DEF IsDone
<1>2. scoreboard' = scoreboard /\ currentCycle' = currentCycle
  BY DEF Commit
<1>3. \A j \in DOMAIN rob' : \A d \in 1 .. 2 : rob'[j].pdest[d] # NoReg
         => scoreboard'[rob'[j].pdest[d]] = Left(rob'[j], currentCycle')
  BY <1>1, <1>2 DEF Agree
<1>4. ASSUME NEW p \in PhyReg,
             \A j \in DOMAIN rob' : \A d \in 1 .. 2 : rob'[j].pdest[d] # p
      PROVE  scoreboard'[p] = 0
  <2>1. CASE \E d \in 1 .. 2 : rob[1].pdest[d] = p
    <3>1. p # NoReg
      BY DEF PhyReg, NoReg
    <3>2. Left(rob[1], currentCycle) = 0
      BY <1>1 DEF Left
    <3> QED  BY <1>1, <1>2, <2>1, <3>1, <3>2 DEF Agree
  <2>2. CASE \A d \in 1 .. 2 : rob[1].pdest[d] # p
    <3>1. \A j \in DOMAIN rob : j = 1 \/ (j - 1 \in DOMAIN rob' /\ rob'[j - 1] = rob[j])
      BY <1>1
    <3>2. \A j \in DOMAIN rob : \A d \in 1 .. 2 : rob[j].pdest[d] # p
      BY <1>4, <2>2, <3>1
    <3> QED  BY <1>2, <3>2 DEF Agree
  <2> QED  BY <2>1, <2>2
<1> QED  BY <1>3, <1>4 DEF Agree

LEMMA ScoreboardIssue ==
    ASSUME DestInv, Agree(scoreboard, rob, currentCycle), Issue
    PROVE  Agree(scoreboard', rob', currentCycle')
<1> DEFINE e == rob[pos]
<1>1. /\ TypeOK /\ DOMAIN rob' = DOMAIN rob /\ pos \in DOMAIN rob
      /\ rob'[pos] = Execute(e) /\ e \in Entry
      /\ \A j \in DOMAIN rob : j # pos => rob'[j] = rob[j]
      /\ \A j \in DOMAIN rob : rob[j] \in Entry
  BY IssueFacts, RobFacts DEF DestInv, Conserved
<1>2. scoreboard' = WakeUp(e) /\ currentCycle' = currentCycle /\ currentCycle \in Nat
  BY <1>1 DEF Issue, TypeOK
<1>3. /\ rob'[pos].pdest = e.pdest /\ rob'[pos].issued
      /\ rob'[pos].doneCycle = currentCycle + Latency(e.op)
  BY <1>1, ExecuteFields
<1>4. Latency(e.op) \in Nat /\ Latency(e.op) >= 1
  BY <1>1, LatencyType DEF Entry
<1> HIDE DEF e
<1>5. \A p \in PhyReg : scoreboard'[p] = IF \E d \in 1 .. 2 : e.pdest[d] = p
                                         THEN Latency(e.op) ELSE scoreboard[p]
  BY <1>2 DEF WakeUp
<1>6. ASSUME NEW j \in DOMAIN rob, NEW d \in 1 .. 2, rob'[j].pdest[d] # NoReg
      PROVE  scoreboard'[rob'[j].pdest[d]] = Left(rob'[j], currentCycle')
  <2>1. CASE j = pos
    <3>1. Left(rob'[pos], currentCycle') = Latency(e.op)
      BY <1>2, <1>3, <1>4 DEF Left
    <3>2. e.pdest[d] \in PhyReg
      BY <1>1, <1>3, <1>6, <2>1 DEF Entry
    <3> QED  BY <1>3, <1>5, <2>1, <3>1, <3>2
  <2>2. CASE j # pos
    <3>1. rob'[j] = rob[j] /\ rob[j].pdest[d] \in PhyReg
      BY <1>1, <1>6, <2>2 DEF Entry
    <3>2. \A c \in 1 .. 2 : e.pdest[c] # rob[j].pdest[d]
      BY <1>1, <1>6, <2>2, <3>1 DEF DestInv, DestsDistinct, e
    <3>3. scoreboard[rob[j].pdest[d]] = Left(rob[j], currentCycle)
      BY <1>6, <3>1 DEF Agree
    <3>4. Left(rob'[j], currentCycle') = Left(rob[j], currentCycle)
      BY <1>2, <3>1 DEF Left
    <3> QED  BY <1>5, <3>1, <3>2, <3>3, <3>4
  <2> QED  BY <2>1, <2>2
<1>7. ASSUME NEW p \in PhyReg,
             \A j \in DOMAIN rob' : \A d \in 1 .. 2 : rob'[j].pdest[d] # p
      PROVE  scoreboard'[p] = 0
  <2>1. \A j \in DOMAIN rob : \A d \in 1 .. 2 : rob[j].pdest[d] # p
    BY <1>1, <1>3, <1>7 DEF e
  <2>2. scoreboard[p] = 0 /\ \A d \in 1 .. 2 : e.pdest[d] # p
    BY <1>1, <2>1 DEF Agree, e
  <2> QED  BY <1>5, <2>2
<1> QED  BY <1>1, <1>6, <1>7 DEF Agree

LEMMA ScoreboardFetch ==
    ASSUME DestInv, Agree(scoreboard, rob, currentCycle),
           NEW op \in Records, NEW miss \in BOOLEAN, Fetch(op, miss)
    PROVE  Agree(scoreboard', rob', currentCycle')
<1> DEFINE n == Len(rob)
           r == RenameInstruction(op)
           e == NewEntry(op, r, miss)
<1>1. /\ TypeOK /\ n \in Nat /\ DOMAIN rob = 1 .. n /\ DOMAIN rob' = 1 .. n + 1
      /\ \A j \in 1 .. n : rob'[j] = rob[j] /\ rob[j] \in Entry
      /\ rob'[n + 1] = e /\ r \in Renamed
  BY RobFacts, FetchFacts DEF DestInv, Conserved
<1>2. \A j \in DOMAIN rob, c, d \in 1 .. 2 :
         rob[j].pdest[c] # NoReg => rob[j].pdest[c] # r.pdest[d]
  BY DestFetch
<1>3. scoreboard' = UnReady(r.pdest) /\ currentCycle' = currentCycle
  BY DEF Fetch
<1>4. e.pdest = r.pdest /\ ~ e.issued
  BY DEF NewEntry
<1> HIDE DEF n, r, e
<1>5. \A p \in PhyReg : scoreboard'[p] = IF \E d \in 1 .. 2 : r.pdest[d] = p
                                         THEN -1 ELSE scoreboard[p]
  BY <1>3 DEF UnReady
<1>6. ASSUME NEW j \in 1 .. n + 1, NEW d \in 1 .. 2, rob'[j].pdest[d] # NoReg
      PROVE  scoreboard'[rob'[j].pdest[d]] = Left(rob'[j], currentCycle')
  <2>1. CASE j = n + 1
    <3>1. r.pdest[d] \in PhyReg
      BY <1>1, <1>4, <1>6, <2>1 DEF Renamed, RegOrNone
    <3> QED  BY <1>1, <1>4, <1>5, <2>1, <3>1 DEF Left
  <2>2. CASE j \in 1 .. n
    <3>1. rob'[j] = rob[j] /\ rob[j].pdest[d] \in PhyReg
      BY <1>1, <1>6, <2>2 DEF Entry
    <3>2. \A c \in 1 .. 2 : r.pdest[c] # rob[j].pdest[d]
      BY <1>1, <1>2, <1>6, <2>2, <3>1
    <3> QED  BY <1>1, <1>3, <1>5, <1>6, <2>2, <3>1, <3>2 DEF Agree
  <2> QED  BY <1>1, <2>1, <2>2
<1>7. ASSUME NEW p \in PhyReg,
             \A j \in 1 .. n + 1 : \A d \in 1 .. 2 : rob'[j].pdest[d] # p
      PROVE  scoreboard'[p] = 0
  <2>1. \A d \in 1 .. 2 : r.pdest[d] # p
    BY <1>1, <1>4, <1>7
  <2>2. \A j \in 1 .. n : \A d \in 1 .. 2 : rob[j].pdest[d] # p
    BY <1>1, <1>7
  <2> QED  BY <1>1, <1>5, <2>1, <2>2 DEF Agree
<1> QED  BY <1>1, <1>6, <1>7 DEF Agree

LEMMA ScoreboardAdvance ==
    ASSUME TypeOK, Agree(scoreboard, rob, currentCycle), Advance
    PROVE  Agree(scoreboard', rob', currentCycle')
<1>1. /\ rob' = rob /\ currentCycle \in Nat /\ currentCycle' = currentCycle + 1
      /\ \A j \in DOMAIN rob : rob[j] \in Entry
      /\ scoreboard \in [PhyReg -> Int]
      /\ \A p \in PhyReg : scoreboard'[p] = IF scoreboard[p] > 0
                                            THEN scoreboard[p] - 1 ELSE scoreboard[p]
  BY RobFacts DEF Advance, TypeOK
<1>2. ASSUME NEW j \in DOMAIN rob, NEW d \in 1 .. 2, rob[j].pdest[d] # NoReg
      PROVE  scoreboard'[rob[j].pdest[d]] = Left(rob[j], currentCycle')
  <2>1. /\ rob[j].pdest[d] \in PhyReg /\ rob[j].issued \in BOOLEAN
        /\ rob[j].doneCycle \in Int
    BY <1>1, <1>2 DEF Entry, NoCycle
  <2>2. scoreboard[rob[j].pdest[d]] = Left(rob[j], currentCycle)
    BY <1>2 DEF Agree
  <2> QED  BY <1>1, <2>1, <2>2 DEF Left
<1>3. \A p \in PhyReg : (\A j \in DOMAIN rob : \A d \in 1 .. 2 : rob[j].pdest[d] # p)
         => scoreboard'[p] = 0
  BY <1>1 DEF Agree
<1> QED  BY <1>1, <1>2, <1>3 DEF Agree

BoardInv == DestInv /\ ScoreboardExact

LEMMA BoardInductive == BoardInv /\ [Next]_vars => BoardInv'
<1> SUFFICES ASSUME DestInv, Agree(scoreboard, rob, currentCycle), [Next]_vars
             PROVE  Agree(scoreboard', rob', currentCycle')
  BY DestInductive, AgreeIsExact DEF BoardInv
<1>1. TypeOK
  BY DEF DestInv, Conserved
<1>2. CASE UNCHANGED <<scoreboard, rob, currentCycle>>
  BY <1>2
<1> QED
  BY <1>1, <1>2, ScoreboardCommit, ScoreboardIssue, ScoreboardFetch,
     ScoreboardAdvance DEF Next, CommitNothing, IssueSkip, IssueEnd,
     FetchUndefined, FetchEndOfTrace, FetchSuspended, FetchNothing, Stopped, vars

LEMMA BoardInit == Init => BoardInv
<1> SUFFICES ASSUME Init PROVE DestsHeld /\ DestsDistinct /\ ScoreboardExact
  BY ConservedInit DEF BoardInv, DestInv
<1>1. DOMAIN rob = {} /\ \A p \in PhyReg : scoreboard[p] = 0
  BY DEF Init
<1> QED  BY <1>1 DEF DestsHeld, DestsDistinct, ScoreboardExact

\* What isReady() reads in the scoreboard is what the reorder buffer says.
THEOREM ScoreboardCorrect == Spec => []ScoreboardExact
<1>1. BoardInv => ScoreboardExact
  BY DEF BoardInv
<1> QED  BY <1>1, BoardInit, BoardInductive, PTL DEF Spec

LEMMA RawOrderInductive ==
    ASSUME BoardInv, RawOrder, [Next]_vars
    PROVE  RawOrder'
<1>1. /\ TypeOK /\ Len(rob) \in Nat /\ DOMAIN rob = 1 .. Len(rob)
      /\ currentCycle \in Nat
      /\ \A j \in 1 .. Len(rob) : rob[j] \in Entry
  BY RobFacts DEF BoardInv, DestInv, Conserved, TypeOK
<1>2. CASE Commit
  <2>1. /\ DOMAIN rob' = 1 .. Len(rob) - 1
        /\ \A j \in DOMAIN rob' : j + 1 \in DOMAIN rob /\ rob'[j] = rob[j + 1]
    BY <1>1, <1>2, CommitFacts
  <2>2. \A i, j \in DOMAIN rob' : i < j => i + 1 < j + 1
    BY <2>1
  <2> QED  BY <2>1, <2>2 DEF RawOrder, DependsOn
<1>3. CASE Issue
  <2> DEFINE e == rob[pos]
  <2>1. /\ pos \in DOMAIN rob /\ e \in Entry /\ ~ e.issued /\ OperandsReady(e)
        /\ DOMAIN rob' = DOMAIN rob /\ rob'[pos] = Execute(e)
        /\ \A j \in DOMAIN rob : j # pos => rob'[j] = rob[j]
    BY <1>1, <1>3, IssueFacts DEF IsReady
  <2>2. /\ rob'[pos].issued /\ rob'[pos].issueCycle = currentCycle
        /\ rob'[pos].psrc = e.psrc /\ rob'[pos].pdest = e.pdest
    BY <1>1, <2>1, ExecuteFields
  <2> SUFFICES ASSUME NEW i \in DOMAIN rob, NEW j \in DOMAIN rob,
                      i < j, rob'[j].issued, DependsOn(rob'[j], rob'[i])
               PROVE  rob'[i].issued /\ rob'[i].doneCycle <= rob'[j].issueCycle
    BY <2>1 DEF RawOrder, DependsOn
  <2>3. i # j /\ DependsOn(rob[j], rob[i])
    <3>1. \A m \in DOMAIN rob : /\ rob'[m].psrc = rob[m].psrc
                                /\ rob'[m].pdest = rob[m].pdest
      BY <2>1, <2>2
    <3> QED  BY <1>1, <3>1 DEF DependsOn
  <2> HIDE DEF e
  <2>4. CASE j = pos
    <3>1. PICK d \in 1 .. 2 : rob[i].pdest[d] \in e.psrc
      BY <2>3, <2>4 DEF DependsOn, e
    <3>2. rob[i].pdest[d] \in PhyReg /\ rob[i].pdest[d] # NoReg
      BY <2>1, <3>1 DEF Entry, PhyReg, NoReg
    <3>3. Remaining(rob[i]) = 0
      BY <2>1, <3>1, <3>2 DEF OperandsReady, BoardInv, ScoreboardExact
    <3>4. rob[i].issued /\ rob[i].doneCycle <= currentCycle
      BY <1>1, <3>3 DEF Remaining, IsDone, Entry, NoCycle
    <3> QED  BY <2>1, <2>2, <2>3, <2>4, <3>4
  <2>5. CASE j # pos
    <3>1. rob'[j] = rob[j] /\ rob[i].issued /\ rob[i].doneCycle <= rob[j].issueCycle
      BY <2>1, <2>3, <2>5 DEF RawOrder
    <3>2. i # pos
      BY <2>1, <3>1 DEF e
    <3> QED  BY <2>1, <3>1, <3>2
  <2> QED  BY <2>4, <2>5
<1>4. ASSUME NEW op \in Records, NEW miss \in BOOLEAN, Fetch(op, miss)
      PROVE  RawOrder'
  <2>1. /\ DOMAIN rob' = 1 .. Len(rob) + 1 /\ ~ rob'[Len(rob) + 1].issued
        /\ \A j \in 1 .. Len(rob) : rob'[j] = rob[j]
    <3>1. ~ NewEntry(op, RenameInstruction(op), miss).issued
      BY DEF NewEntry
    <3> QED  BY <1>1, <1>4, <3>1, FetchFacts
  <2> SUFFICES ASSUME NEW i \in 1 .. Len(rob) + 1, NEW j \in 1 .. Len(rob) + 1,
                      i < j, rob'[j].issued, DependsOn(rob'[j], rob'[i])
               PROVE  rob'[i].issued /\ rob'[i].doneCycle <= rob'[j].issueCycle
    BY <2>1 DEF RawOrder, DependsOn
  <2>2. i \in 1 .. Len(rob) /\ j \in 1 .. Len(rob)
    BY <1>1, <2>1
  <2> QED  BY <1>1, <2>1, <2>2 DEF RawOrder
<1>5. CASE UNCHANGED rob
  BY <1>5 DEF RawOrder, DependsOn
<1> QED
  BY <1>2, <1>3, <1>4, <1>5 DEF Next, CommitNothing, IssueSkip, IssueEnd,
     FetchUndefined, FetchEndOfTrace, FetchSuspended, FetchNothing, Advance,
     Stopped, vars

\* No instruction issues before the producers of its operands are done.
THEOREM OperandsAwaited == Spec => []RawOrder
<1>1. Init => RawOrder
  BY DEF Init, RawOrder
<1> QED  BY <1>1, BoardInit, BoardInductive, RawOrderInductive, PTL DEF Spec

LEMMA MemoryOrderInductive ==
    ASSUME OrderInv, MemoryOrder, [Next]_vars
    PROVE  MemoryOrder'
<1>1. /\ TypeOK /\ Len(rob) \in Nat /\ DOMAIN rob = 1 .. Len(rob)
      /\ currentCycle \in Nat /\ totalMicro \in Nat
      /\ \A j \in 1 .. Len(rob) : rob[j] \in Entry
  BY RobFacts DEF OrderInv, TypeOK
<1>0. exp' = exp
  BY DEF Next, Commit, CommitNothing, Issue, IssueSkip, IssueEnd, Fetch,
     FetchUndefined, FetchEndOfTrace, FetchSuspended, FetchNothing, Advance,
     Stopped, vars
<1>2. CASE Commit
  <2>1. /\ DOMAIN rob' = 1 .. Len(rob) - 1
        /\ \A j \in DOMAIN rob' : j + 1 \in DOMAIN rob /\ rob'[j] = rob[j + 1]
    BY <1>1, <1>2, CommitFacts
  <2>2. \A i, j \in DOMAIN rob' : i < j => i + 1 < j + 1
    BY <2>1
  <2> QED  BY <1>0, <2>1, <2>2 DEF MemoryOrder, Conflicts
<1>3. CASE Issue
  <2> DEFINE e == rob[pos]
  <2>1. /\ pos \in DOMAIN rob /\ e \in Entry /\ ~ e.issued /\ IsReady(e)
        /\ DOMAIN rob' = DOMAIN rob /\ rob'[pos] = Execute(e)
        /\ \A j \in DOMAIN rob : j # pos => rob'[j] = rob[j]
    BY <1>1, <1>3, IssueFacts
  <2>2. /\ rob'[pos].issued /\ rob'[pos].issueCycle = currentCycle
        /\ rob'[pos].op = e.op
    BY <1>1, <2>1, ExecuteFields
  <2> SUFFICES ASSUME NEW i \in DOMAIN rob, NEW j \in DOMAIN rob,
                      i < j, rob'[j].issued, Conflicts(rob'[i], rob'[j])
               PROVE  rob'[i].issued /\ rob'[i].doneCycle <= rob'[j].issueCycle
    BY <1>0, <2>1 DEF MemoryOrder, Conflicts
  <2>3. i # j /\ Conflicts(rob[i], rob[j])
    <3>1. \A m \in DOMAIN rob : rob'[m].op = rob[m].op
      BY <2>1, <2>2
    <3> QED  BY <1>1, <3>1 DEF Conflicts
  <2> HIDE DEF e
  <2>4. CASE j = pos
    <3>1. rob[i].age < e.age
      BY <1>1, <2>1, <2>4 DEF OrderInv, AgesConsecutive, e
    <3>2. ~ BlocksLoad(rob[i], e)
      BY <2>1, <2>3, <2>4 DEF IsReady, Conflicts, e
    <3>3. IsDone(rob[i])
      BY <2>3, <2>4, <3>1, <3>2 DEF BlocksLoad, Conflicts, e
    <3> QED  BY <2>1, <2>2, <2>3, <2>4, <3>3 DEF IsDone
  <2>5. CASE j # pos
    <3>1. rob'[j] = rob[j] /\ rob[i].issued /\ rob[i].doneCycle <= rob[j].issueCycle
      BY <2>1, <2>3, <2>5 DEF MemoryOrder
    <3>2. i # pos
      BY <2>1, <3>1 DEF e
    <3> QED  BY <2>1, <3>1, <3>2
  <2> QED  BY <2>4, <2>5
<1>4. ASSUME NEW op \in Records, NEW miss \in BOOLEAN, Fetch(op, miss)
      PROVE  MemoryOrder'
  <2>1. /\ DOMAIN rob' = 1 .. Len(rob) + 1 /\ ~ rob'[Len(rob) + 1].issued
        /\ \A j \in 1 .. Len(rob) : rob'[j] = rob[j]
    <3>1. ~ NewEntry(op, RenameInstruction(op), miss).issued
      BY DEF NewEntry
    <3> QED  BY <1>1, <1>4, <3>1, FetchFacts
  <2> SUFFICES ASSUME NEW i \in 1 .. Len(rob) + 1, NEW j \in 1 .. Len(rob) + 1,
                      i < j, rob'[j].issued, Conflicts(rob'[i], rob'[j])
               PROVE  rob'[i].issued /\ rob'[i].doneCycle <= rob'[j].issueCycle
    BY <1>0, <2>1 DEF MemoryOrder, Conflicts
  <2>2. i \in 1 .. Len(rob) /\ j \in 1 .. Len(rob)
    BY <1>1, <2>1
  <2> QED  BY <1>1, <2>1, <2>2 DEF MemoryOrder
<1>5. CASE UNCHANGED rob
  BY <1>0, <1>5 DEF MemoryOrder, Conflicts
<1> QED
  BY <1>2, <1>3, <1>4, <1>5 DEF Next, CommitNothing, IssueSkip, IssueEnd,
     FetchUndefined, FetchEndOfTrace, FetchSuspended, FetchNothing, Advance,
     Stopped, vars

\* No load issues before the older stores its experiment waits for are done.
THEOREM StoresAwaited == Spec => []MemoryOrder
<1>1. Init => MemoryOrder
  BY DEF Init, MemoryOrder
<1> QED  BY <1>1, OrderInit, OrderStep, MemoryOrderInductive, PTL DEF Spec
=============================================================================

-------------------------- MODULE PredictingProofs --------------------------
(***************************************************************************)
(* Proofs about the pipeline that is reset between traces: the machine     *)
(* that reset() leaves is the one the constructor makes.  The steps before *)
(* a reset are those of Processor, whose invariants are at hand.           *)
(***************************************************************************)
EXTENDS PredictingProcessor, ProcessorProofs, WellFoundedInduction

\* Once the stream has ended, fetch is not suspended: the end was read by a
\* fetch that was not, and no mispredicted branch was waiting to issue.
NotSuspendedAtEnd == ~ ins => nFetchReady = 0

\* What the condition of the loop of simulate() says when it has ended.
EmptyAtExit == stage = "exit" => rob = <<>> /\ ~ ins

ResetInv == Conserved /\ Suspension /\ NotSuspendedAtEnd /\ EmptyAtExit

-----------------------------------------------------------------------------
LEMMA ResetInvInit == Init => ResetInv
<1>1. Init => Suspension /\ NotSuspendedAtEnd /\ EmptyAtExit
  BY DEF Init, Suspension, SuspendedByMisprediction, NotSuspendedAtEnd, EmptyAtExit
<1> QED
  BY <1>1, ConservedInit DEF ResetInv

LEMMA NotSuspendedAtEndInductive ==
    ASSUME TypeOK, Suspension, NotSuspendedAtEnd, [Next]_vars
    PROVE  NotSuspendedAtEnd'
<1>1. CASE Issue
  <2>1. pos \in DOMAIN rob /\ ~ rob[pos].issued /\ ins' = ins
        /\ nFetchReady' = RestartFetch(rob[pos])
    BY <1>1, LenProperties DEF Issue, CanIssue, TypeOK
  <2>2. ~ ins => ~ rob[pos].mispredicted
    BY <2>1 DEF Suspension, SuspendedByMisprediction, NotSuspendedAtEnd, TypeOK
  <2> QED
    BY <2>1, <2>2 DEF NotSuspendedAtEnd, RestartFetch
<1>2. CASE FetchEndOfTrace
  BY <1>2 DEF FetchEndOfTrace, FetchGuard, Suspension, NotSuspendedAtEnd
<1>3. ASSUME NEW op \in Records, NEW miss \in BOOLEAN, Fetch(op, miss)
      PROVE  NotSuspendedAtEnd'
  BY <1>3 DEF Fetch, FetchGuard, NotSuspendedAtEnd
<1>4. CASE FetchSuspended
  BY <1>4 DEF FetchSuspended, NotSuspendedAtEnd
<1>5. CASE UNCHANGED <<nFetchReady, ins>>
  BY <1>5 DEF NotSuspendedAtEnd
<1> QED
  BY <1>1, <1>2, <1>3, <1>4, <1>5 DEF Next, Commit, CommitNothing, IssueSkip,
     IssueEnd, FetchUndefined, FetchNothing, Advance, Stopped, vars

LEMMA EmptyAtExitInductive ==
    ASSUME EmptyAtExit, TypeOK, [Next]_vars
    PROVE  EmptyAtExit'
<1>1. CASE Advance
  BY <1>1 DEF Advance, Leave, EmptyAtExit, TypeOK
<1>2. CASE UNCHANGED vars
  BY <1>2 DEF vars, EmptyAtExit
<1>3. stage' # "exit" \/ Advance \/ UNCHANGED vars
  BY DEF Next, Commit, CommitNothing, Issue, IssueSkip, IssueEnd, Fetch,
     FetchGuard, FetchUndefined, FetchEndOfTrace, FetchSuspended, FetchNothing,
     Stopped, vars, NextIteration, Leave
<1> QED
  BY <1>1, <1>2, <1>3 DEF EmptyAtExit

LEMMA ResetInvStep == ResetInv /\ [Next]_vars => ResetInv'
BY ConservedInductive, SuspensionInductive, NotSuspendedAtEndInductive,
   EmptyAtExitInductive DEF ResetInv, Conserved

\* With nothing in flight, the map table and the free list hold each register
\* once, so that there is no room for more in the free list.
LEMMA FreeListLimit ==
    ASSUME TypeOK, NoSharing
    PROVE  NumArchReg + Len(freelist) <= NumPhyReg
<1> DEFINE m == Len(freelist)
           N == NumArchReg + m
           f == [i \in 1 .. N |-> IF i <= NumArchReg THEN maptable[i - 1]
                                  ELSE freelist[i - NumArchReg]]
<1>1. /\ m \in Nat /\ N \in Nat
      /\ DOMAIN freelist = 1 .. m /\ DOMAIN maptable = ArchReg
      /\ \A i \in 1 .. m : freelist[i] \in PhyReg
      /\ \A a \in ArchReg : maptable[a] \in PhyReg
  BY LenProperties, ElementOfSeq, SizesAssumption DEF TypeOK
<1> HIDE DEF m
<1>2. \A i \in 1 .. N : \/ i <= NumArchReg /\ i - 1 \in ArchReg /\ f[i] = maptable[i - 1]
                        \/ /\ ~ i <= NumArchReg /\ i - NumArchReg \in 1 .. m
                           /\ f[i] = freelist[i - NumArchReg]
  BY <1>1, SizesAssumption DEF ArchReg
<1>3. f \in [1 .. N -> PhyReg]
  <2>1. \A i \in 1 .. N : f[i] \in PhyReg
    BY <1>1, <1>2
  <2> QED  BY <2>1
<1> HIDE DEF f
<1>4. /\ \A a, b \in ArchReg : maptable[a] = maptable[b] => a = b
      /\ \A i, j \in 1 .. m : freelist[i] = freelist[j] => i = j
      /\ \A a \in ArchReg : \A i \in 1 .. m : maptable[a] # freelist[i]
  BY <1>1 DEF NoSharing, Disjoint
<1>5. ASSUME NEW i \in 1 .. N, NEW j \in 1 .. N, f[i] = f[j]
      PROVE  i = j
  <2>1. CASE i <= NumArchReg /\ j <= NumArchReg
    <3>1. i - 1 = j - 1
      BY <2>1, <1>2, <1>4, <1>5
    <3> QED  BY <3>1, <1>1
  <2>2. CASE ~ i <= NumArchReg /\ ~ j <= NumArchReg
    <3>1. i - NumArchReg = j - NumArchReg
      BY <2>2, <1>2, <1>4, <1>5
    <3> QED  BY <3>1, <1>1, SizesAssumption
  <2> QED
    BY <2>1, <2>2, <1>2, <1>4, <1>5
<1>6. f \in Injection(1 .. N, PhyReg)
  BY <1>3, <1>5 DEF Injection, IsInjective
<1>7. IsFiniteSet(PhyReg) /\ Cardinality(PhyReg) = NumPhyReg /\ Cardinality(1 .. N) = N
  <2>1. N >= 1 /\ NumPhyReg >= 1 /\ N \in Int /\ NumPhyReg - 1 \in Int
    BY <1>1, SizesAssumption
  <2> HIDE DEF N
  <2>2. IsFiniteSet(PhyReg) /\ Cardinality(PhyReg) = NumPhyReg
    BY SizesAssumption, FS_Interval DEF PhyReg
  <2>3. Cardinality(1 .. N) = N
    <3>1. Cardinality(1 .. N) = IF 1 > N THEN 0 ELSE N - 1 + 1
      BY <2>1, FS_Interval
    <3> QED  BY <2>1, <3>1
  <2> QED  BY <2>2, <2>3
<1>8. Cardinality(1 .. N) <= Cardinality(PhyReg)
  BY <1>6, <1>7, FS_Injection
<1> QED
  BY <1>7, <1>8 DEF m

\* reset() on a machine that has run to its end gives the initial machine.
LEMMA ResetIsInit == ResetInv /\ Reset => Init'
<1> SUFFICES ASSUME ResetInv, Reset PROVE Init'
  OBVIOUS
<1>1. TypeOK /\ NoSharing /\ NoLeak /\ rob = <<>> /\ ~ ins /\ nFetchReady = 0
  BY DEF ResetInv, Conserved, NotSuspendedAtEnd, EmptyAtExit, Reset
<1>2. Len(freelist) \in Nat /\ DOMAIN freelist = 1 .. Len(freelist)
  BY <1>1, LenProperties DEF TypeOK
<1>3. Len(freelist) = NumPhyReg - NumArchReg
  <2>1. NumArchReg + Len(freelist) <= NumPhyReg
    BY <1>1, FreeListLimit
  <2>2. NumPhyReg <= NumArchReg + Len(freelist) + 2 * Len(rob)
    BY <1>1, FreeListBound
  <2>3. Len(rob) = 0
    BY <1>1, EmptySeq
  <2> QED
    BY <1>2, <2>1, <2>2, <2>3, SizesAssumption
<1>4. freelist' = [i \in 1 .. NumPhyReg - NumArchReg |-> NumArchReg + i - 1]
  BY <1>2, <1>3 DEF Reset, ResetRegisters
<1>5. exp' \in Experiments /\ nFetchReady' = 0
  BY <1>1 DEF Reset, TypeOK
<1> QED
  BY <1>4, <1>5 DEF Reset, ResetRegisters, Leave, Init

\* Prediction decides what was an input and adds variables of its own.
LEMMA StepOfProcessor == [PNext]_allVars => [Next]_vars \/ Reset
<1>1. ASSUME NEW op \in Records, NEW b \in ExtractTrace(op), PFetch(op, b)
      PROVE  Next
  <2>1. Mispredicts(predictor, b) \in BOOLEAN
    BY DEF Mispredicts
  <2> QED
    BY <1>1, <2>1 DEF PFetch, Next
<1> QED
  BY <1>1 DEF PNext, PCommit, Next, allVars

LEMMA ResetInvariant == PSpec => []ResetInv
<1>1. PInit => Init
  BY DEF PInit
<1>2. ResetInv /\ [PNext]_allVars => ResetInv' \/ Init'
  BY StepOfProcessor, ResetInvStep, ResetIsInit
<1> QED
  BY <1>1, <1>2, ResetInvInit, PTL DEF PSpec

\* The machine is as new after every reset between two traces, for any number
\* of registers, even too few, and with any table predictor.
THEOREM ResetTheorem == PSpec => ResetRestores
<1>1. ResetInv => [Reset => Init']_allVars
  BY ResetIsInit
<1> QED
  BY <1>1, ResetInvariant, PTL DEF ResetRestores

\* Nor do registers ever get two owners, however many traces it is used for.
THEOREM PredictingNotShared == PSpec => []NoSharing
<1>1. ResetInv => NoSharing
  BY DEF ResetInv, Conserved
<1> QED
  BY <1>1, ResetInvariant, PTL

-----------------------------------------------------------------------------
(***************************************************************************)
(* The predictors between the one that has seen what has retired and the   *)
(* one that has seen what was fetched: position k has seen k instructions  *)
(* of the buffer.  They are the function that InFlight defines.            *)
(***************************************************************************)
Drives(q, first, bs) ==
    q = [k \in 0 .. Len(bs) |-> IF k = 0 THEN first ELSE After(q[k - 1], bs[k])]

LEMMA DrivesAt ==
    ASSUME NEW q, NEW first, NEW bs, Len(bs) \in Nat, Drives(q, first, bs)
    PROVE  /\ q[0] = first
           /\ \A k \in 1 .. Len(bs) : q[k] = After(q[k - 1], bs[k])
<1> DEFINE e(k) == IF k = 0 THEN first ELSE After(q[k - 1], bs[k])
<1>1. q = [k \in 0 .. Len(bs) |-> e(k)]
  BY Zenon DEF Drives
<1> HIDE DEF e
<1>2. \A k \in 0 .. Len(bs) : q[k] = e(k)
  BY <1>1
<1>3. 0 \in 0 .. Len(bs) /\ \A k \in 1 .. Len(bs) : k \in 0 .. Len(bs) /\ k # 0
  OBVIOUS
<1> QED
  BY <1>2, <1>3 DEF e

\* Given as a table, with the steps shown one by one.
LEMMA DrivesFrom ==
    ASSUME NEW q, NEW first, NEW bs, Len(bs) \in Nat,
           q = [k \in 0 .. Len(bs) |-> q[k]], q[0] = first,
           \A k \in 1 .. Len(bs) : q[k] = After(q[k - 1], bs[k])
    PROVE  Drives(q, first, bs)
<1> DEFINE e(k) == IF k = 0 THEN first ELSE After(q[k - 1], bs[k])
<1>1. \A k \in 0 .. Len(bs) : k = 0 \/ k \in 1 .. Len(bs)
  OBVIOUS
<1>2. \A k \in 0 .. Len(bs) : q[k] = e(k)
  BY <1>1
<1> HIDE DEF e
<1>3. q = [k \in 0 .. Len(bs) |-> e(k)]
  BY <1>2
<1> QED
  BY <1>3, Zenon DEF Drives, e

\* There is no other.
LEMMA DrivesUnique ==
    ASSUME NEW q, NEW r, NEW first, NEW bs, Len(bs) \in Nat,
           Drives(q, first, bs), Drives(r, first, bs)
    PROVE  \A k \in 0 .. Len(bs) : q[k] = r[k]
<1> DEFINE Differ == {k \in Nat : k <= Len(bs) /\ q[k] # r[k]}
           R == {ss \in Nat \X Nat : ss[1] < ss[2]}
<1>1. SUFFICES ASSUME Differ # {} PROVE FALSE
  OBVIOUS
<1>2. IsWellFoundedOn(R, Nat)
  BY NatLessThanWellFounded DEF OpToRel
<1>3. Differ \subseteq Nat
  OBVIOUS
<1> HIDE DEF R, Differ
<1>4. PICK k \in Differ : \A j \in Differ : ~ <<j, k>> \in R
  BY <1>1, <1>2, <1>3, WFMin, Zenon
<1>5. k # 0
  BY <1>4, DrivesAt DEF Differ
<1>6. k \in 1 .. Len(bs) /\ k - 1 \in Nat /\ k - 1 < k /\ k - 1 <= Len(bs)
  BY <1>4, <1>5 DEF Differ
<1>7. q[k - 1] = r[k - 1]
  BY <1>4, <1>6 DEF Differ, R
<1>8. q[k] = After(q[k - 1], bs[k]) /\ r[k] = After(r[k - 1], bs[k])
  BY <1>6, DrivesAt
<1> QED
  BY <1>4, <1>7, <1>8 DEF Differ

LEMMA InFlightDrives ==
    ASSUME NEW q, Drives(q, driven, branches)
    PROVE  Drives(InFlight, driven, branches)
<1>1. q = [k \in 0 .. Len(branches) |->
             IF k = 0 THEN driven ELSE After(q[k - 1], branches[k])]
  BY Zenon DEF Drives
<1> QED
  BY <1>1, Zenon DEF InFlight, Drives

\* The predictor is the last of them, and the marks are what each would have
\* got wrong.
Marks(q) ==
    /\ predictor = q[Len(rob)]
    /\ \A k \in DOMAIN rob : rob[k].mispredicted = Mispredicts(q[k - 1], branches[k])

DriverInv ==
    /\ rob \in Seq(Entry) /\ Len(branches) = Len(rob)
    /\ branches \in Seq([pc : PCs \cup {{}}, conditional : BOOLEAN, taken : BOOLEAN])
    /\ \E q : Drives(q, driven, branches) /\ Marks(q)

NothingFetched == rob = <<>> /\ branches = <<>> /\ predictor = driven

LEMMA DriverInvEmpty == NothingFetched => DriverInv
<1> SUFFICES ASSUME NothingFetched PROVE DriverInv
  OBVIOUS
<1>0. rob = <<>> /\ branches = <<>> /\ predictor = driven
  BY DEF NothingFetched
<1> DEFINE q == [k \in 0 .. Len(branches) |-> driven]
<1>1. Len(branches) = 0 /\ Len(rob) = 0 /\ DOMAIN rob = {}
  BY <1>0
<1>2. q[0] = driven
  BY <1>1
<1>3. q = [k \in 0 .. Len(branches) |-> q[k]]
  OBVIOUS
<1> HIDE DEF q
<1>4. Drives(q, driven, branches)
  BY <1>1, <1>2, <1>3, DrivesFrom
<1>5. Marks(q)
  BY <1>0, <1>1, <1>2 DEF Marks
<1> QED
  BY <1>0, <1>1, <1>4, <1>5 DEF DriverInv

LEMMA DriverInvFetch ==
    ASSUME DriverInv, NEW op \in Records, NEW b \in ExtractTrace(op), PFetch(op, b), TypeOK'
    PROVE  DriverInv'
<1> DEFINE n == Len(rob)
<1>1. PICK q : Drives(q, driven, branches) /\ Marks(q)
  BY DEF DriverInv
<1>2. PICK e : rob' = Append(rob, e) /\ e.mispredicted = Mispredicts(predictor, b)
  BY DEF PFetch, Fetch, NewEntry
<1>3. /\ predictor' = After(predictor, b) /\ driven' = driven
      /\ branches' = Append(branches, b) /\ rob' \in Seq(Entry)
  BY DEF PFetch, Train, TypeOK
<1>4. b \in [pc : PCs \cup {{}}, conditional : BOOLEAN, taken : BOOLEAN]
  <2>1. CASE b = Other
    BY <2>1 DEF Other
  <2>2. CASE b \in [pc : PCs, conditional : {TRUE}, taken : BOOLEAN]
    BY <2>2
  <2> QED
    BY <2>1, <2>2 DEF ExtractTrace
<1>5. /\ n \in Nat /\ Len(branches) = n /\ DOMAIN rob = 1 .. n
      /\ DOMAIN rob' = 1 .. n + 1 /\ Len(rob') = n + 1
      /\ \A k \in 1 .. n : rob'[k] = rob[k]
      /\ rob'[n + 1] = e
  BY <1>2, <1>3, LenProperties DEF DriverInv
<1>6. /\ branches' \in Seq([pc : PCs \cup {{}}, conditional : BOOLEAN, taken : BOOLEAN])
      /\ Len(branches') = n + 1
      /\ \A k \in 1 .. n : branches'[k] = branches[k]
      /\ branches'[n + 1] = b
  BY <1>3, <1>4, <1>5, AppendProperties DEF DriverInv
<1> HIDE DEF n
<1>7. PICK r : /\ r[n + 1] = After(q[n], b)
               /\ \A k \in 0 .. n : r[k] = q[k]
               /\ r = [k \in 0 .. n + 1 |-> r[k]]
  <2> DEFINE s == [k \in 0 .. n + 1 |-> IF k = n + 1 THEN After(q[n], b) ELSE q[k]]
  <2>1. /\ s[n + 1] = After(q[n], b)
        /\ \A k \in 0 .. n : s[k] = q[k]
        /\ s = [k \in 0 .. n + 1 |-> s[k]]
    BY <1>5
  <2> HIDE DEF s
  <2> QED
    BY <2>1
<1>8. q[0] = driven /\ \A k \in 1 .. n : q[k] = After(q[k - 1], branches[k])
  BY <1>1, <1>5, DrivesAt
<1>9. r[0] = driven /\ \A k \in 1 .. n + 1 : r[k] = After(r[k - 1], branches'[k])
  <2>0. 0 \in 0 .. n /\ n \in 0 .. n /\ (n + 1) - 1 = n
    BY <1>5
  <2>1. r[0] = driven
    BY <2>0, <1>7, <1>8
  <2>2. r[n + 1] = After(r[n], branches'[n + 1]) /\ (n + 1) - 1 = n
    BY <2>0, <1>6, <1>7
  <2>3. ASSUME NEW k \in 1 .. n PROVE r[k] = After(r[k - 1], branches'[k])
    <3>1. k \in 0 .. n /\ k - 1 \in 0 .. n
      BY <1>5
    <3> QED
      BY <3>1, <1>6, <1>7, <1>8
  <2>4. \A k \in 1 .. n + 1 : k \in 1 .. n \/ k = n + 1
    BY <1>5
  <2> QED
    BY <2>1, <2>2, <2>3, <2>4
<1>10. Drives(r, driven', branches')
  BY <1>3, <1>5, <1>6, <1>7, <1>9, DrivesFrom
<1>11. predictor = q[n] /\ \A k \in 1 .. n : rob[k].mispredicted = Mispredicts(q[k - 1], branches[k])
  BY <1>1, <1>5 DEF Marks, n
<1>12. predictor' = r[n + 1]
  BY <1>3, <1>7, <1>11
<1>13. ASSUME NEW k \in 1 .. n + 1
       PROVE  rob'[k].mispredicted = Mispredicts(r[k - 1], branches'[k])
  <2>1. CASE k = n + 1
    <3>1. k - 1 = n /\ n \in 0 .. n
      BY <2>1, <1>5
    <3> QED
      BY <2>1, <3>1, <1>2, <1>5, <1>6, <1>7, <1>11
  <2>2. CASE k # n + 1
    <3>1. k \in 1 .. n /\ k - 1 \in 0 .. n
      BY <2>2, <1>5
    <3> QED
      BY <3>1, <1>5, <1>6, <1>7, <1>11
  <2> QED
    BY <2>1, <2>2
<1>14. Marks(r)'
  <2>1. predictor' = r[Len(rob')]
    BY <1>5, <1>12
  <2>2. \A k \in DOMAIN rob' : rob'[k].mispredicted = Mispredicts(r[k - 1], branches'[k])
    BY <1>5, <1>13
  <2> QED
    BY <2>1, <2>2 DEF Marks
<1> QED
  BY <1>3, <1>5, <1>6, <1>10, <1>14 DEF DriverInv

LEMMA DriverInvCommit == ASSUME DriverInv, PCommit, TypeOK' PROVE DriverInv'
<1> DEFINE n == Len(rob)
<1>1. PICK q : Drives(q, driven, branches) /\ Marks(q)
  BY DEF DriverInv
<1>2. /\ rob # <<>> /\ rob' = Tail(rob) /\ branches' = Tail(branches)
      /\ driven' = After(driven, Head(branches)) /\ predictor' = predictor
  BY DEF PCommit, Commit
<1>3. /\ n \in Nat \ {0} /\ Len(branches) = n /\ DOMAIN rob = 1 .. n
      /\ rob' \in Seq(Entry) /\ Len(rob') = n - 1 /\ DOMAIN rob' = 1 .. n - 1
      /\ \A k \in 1 .. n - 1 : rob'[k] = rob[k + 1]
  BY <1>2, HeadTailProperties, LenProperties DEF DriverInv
<1>4. /\ branches' \in Seq([pc : PCs \cup {{}}, conditional : BOOLEAN, taken : BOOLEAN])
      /\ Len(branches') = n - 1 /\ Head(branches) = branches[1]
      /\ \A k \in 1 .. n - 1 : branches'[k] = branches[k + 1]
  <2>1. branches # <<>>
    BY <1>3, EmptySeq DEF DriverInv
  <2> QED
    BY <2>1, <1>2, <1>3, HeadTailProperties DEF DriverInv
<1>5. q[0] = driven /\ \A k \in 1 .. n : q[k] = After(q[k - 1], branches[k])
  BY <1>1, <1>3, DrivesAt
<1>6. predictor = q[n] /\ \A k \in 1 .. n : rob[k].mispredicted = Mispredicts(q[k - 1], branches[k])
  BY <1>1, <1>3 DEF Marks
<1> HIDE DEF n
<1>7. PICK r : /\ \A k \in 0 .. n - 1 : r[k] = q[k + 1]
               /\ r = [k \in 0 .. n - 1 |-> r[k]]
  <2> DEFINE s == [k \in 0 .. n - 1 |-> q[k + 1]]
  <2>1. (\A k \in 0 .. n - 1 : s[k] = q[k + 1]) /\ s = [k \in 0 .. n - 1 |-> s[k]]
    OBVIOUS
  <2> HIDE DEF s
  <2> QED
    BY <2>1
<1>8. r[0] = driven'
  <2>1. 0 \in 0 .. n - 1 /\ 1 \in 1 .. n /\ 1 - 1 = 0 /\ 0 + 1 = 1
    BY <1>3
  <2>2. r[0] = q[1]
    BY <2>1, <1>7
  <2> QED
    BY <2>1, <2>2, <1>2, <1>4, <1>5
<1>9. ASSUME NEW k \in 1 .. n - 1
      PROVE  /\ r[k] = After(r[k - 1], branches'[k])
             /\ rob'[k].mispredicted = Mispredicts(r[k - 1], branches'[k])
  <2>1. /\ k \in 0 .. n - 1 /\ k - 1 \in 0 .. n - 1 /\ k + 1 \in 1 .. n
        /\ (k - 1) + 1 = k /\ (k + 1) - 1 = k
    BY <1>3
  <2>2. r[k] = q[k + 1] /\ r[k - 1] = q[k]
    BY <2>1, <1>7
  <2> QED
    BY <2>1, <2>2, <1>3, <1>4, <1>5, <1>6
<1>10. Drives(r, driven', branches')
  BY <1>3, <1>4, <1>7, <1>8, <1>9, DrivesFrom
<1>11. Marks(r)'
  <2>1. predictor' = r[Len(rob')]
    <3>1. n - 1 \in 0 .. n - 1 /\ (n - 1) + 1 = n
      BY <1>3
    <3>2. r[n - 1] = q[n]
      BY <3>1, <1>7
    <3> QED
      BY <3>2, <1>2, <1>3, <1>6
  <2>2. \A k \in DOMAIN rob' : rob'[k].mispredicted = Mispredicts(r[k - 1], branches'[k])
    BY <1>3, <1>9
  <2> QED
    BY <2>1, <2>2 DEF Marks
<1> QED
  BY <1>3, <1>4, <1>10, <1>11 DEF DriverInv

\* A step that leaves the marks as they are.
LEMMA DriverInvFrame ==
    ASSUME DriverInv, UNCHANGED predictorVars, rob' \in Seq(Entry), Len(rob') = Len(rob),
           \A k \in DOMAIN rob : rob'[k].mispredicted = rob[k].mispredicted
    PROVE  DriverInv'
<1>1. PICK q : Drives(q, driven, branches) /\ Marks(q)
  BY DEF DriverInv
<1>2. /\ predictor' = predictor /\ driven' = driven /\ branches' = branches
      /\ DOMAIN rob' = DOMAIN rob
  BY LenProperties DEF predictorVars, DriverInv
<1>3. Marks(q)'
  <2>1. predictor' = q[Len(rob')]
    BY <1>1, <1>2 DEF Marks
  <2>2. \A k \in DOMAIN rob' : rob'[k].mispredicted = Mispredicts(q[k - 1], branches'[k])
    BY <1>1, <1>2 DEF Marks
  <2> QED
    BY <2>1, <2>2 DEF Marks
<1>4. Drives(q, driven', branches')
  BY <1>1, <1>2
<1> QED
  BY <1>2, <1>3, <1>4 DEF DriverInv

LEMMA DriverInvIssue ==
    ASSUME DriverInv, TypeOK, TypeOK', Issue, UNCHANGED predictorVars PROVE DriverInv'
<1>1. pos \in DOMAIN rob /\ rob' = [rob EXCEPT ![pos] = Execute(rob[pos])]
  BY LenProperties DEF Issue, TypeOK
<1>2. rob \in Seq(Entry) /\ rob' \in Seq(Entry)
  BY DEF TypeOK
<1>3. DOMAIN rob' = DOMAIN rob /\ Len(rob') = Len(rob)
  BY <1>1, <1>2, LenProperties
<1>4. \A k \in DOMAIN rob : rob'[k].mispredicted = rob[k].mispredicted
  <2>1. Execute(rob[pos]).mispredicted = rob[pos].mispredicted
    BY <1>1, <1>2, ElementOfSeq DEF Execute, Entry
  <2> QED
    BY <1>1, <2>1
<1> QED
  BY <1>2, <1>3, <1>4, DriverInvFrame

LEMMA DriverInvStep ==
    ASSUME ResetInv, ResetInv', DriverInv, [PNext]_allVars
    PROVE  DriverInv' \/ NothingFetched'
<1>1. TypeOK /\ TypeOK'
  BY DEF ResetInv, Conserved
<1>2. CASE PCommit
  BY <1>1, <1>2, DriverInvCommit
<1>3. ASSUME NEW op \in Records, NEW b \in ExtractTrace(op), PFetch(op, b) PROVE DriverInv'
  BY <1>1, <1>3, DriverInvFetch
<1>4. CASE Issue /\ UNCHANGED predictorVars
  BY <1>1, <1>4, DriverInvIssue
<1>5. CASE UNCHANGED <<rob, predictorVars>>
  <2>1. rob' = rob /\ UNCHANGED predictorVars
    BY <1>5
  <2> QED
    BY <2>1, DriverInvFrame DEF DriverInv
<1>6. CASE Reset
  BY <1>6 DEF Reset, NothingFetched
<1> QED
  BY <1>2, <1>3, <1>4, <1>5, <1>6 DEF PNext, CommitNothing, IssueSkip, IssueEnd,
     FetchUndefined, FetchEndOfTrace, FetchSuspended, FetchNothing, Advance, Stopped,
     allVars, vars

\* The pipeline marks the branches that predict.cc would count, for any trace,
\* any number of instructions in flight and any of the table predictors: gshare,
\* bimodal and tournament.  GEHL, O-GEHL and Seznec's predictor also read the
\* instructions that are not conditional branches, which Other does not tell apart.
THEOREM PredictsAsDriverTheorem == PSpec => []PredictsAsDriver
<1>1. PInit => NothingFetched
  BY DEF PInit, Init, NothingFetched
<1>2. ResetInv /\ ResetInv' /\ DriverInv /\ [PNext]_allVars => DriverInv' \/ NothingFetched'
  BY DriverInvStep
<1>3. DriverInv => PredictsAsDriver
  <2> SUFFICES ASSUME DriverInv PROVE PredictsAsDriver
    OBVIOUS
  <2>1. PICK q : Drives(q, driven, branches) /\ Marks(q)
    BY DEF DriverInv
  <2>2. Len(rob) \in Nat /\ Len(branches) = Len(rob) /\ DOMAIN rob = 1 .. Len(rob)
    BY LenProperties DEF DriverInv
  <2>3. \A k \in 0 .. Len(rob) : InFlight[k] = q[k]
    BY <2>1, <2>2, InFlightDrives, DrivesUnique
  <2>4. /\ Len(rob) \in 0 .. Len(rob)
        /\ \A k \in DOMAIN rob : k - 1 \in 0 .. Len(rob)
    BY <2>2
  <2> QED
    BY <2>1, <2>3, <2>4 DEF Marks, PredictsAsDriver
<1> QED
  BY <1>1, <1>2, <1>3, DriverInvEmpty, ResetInvariant, PTL DEF PSpec

=============================================================================

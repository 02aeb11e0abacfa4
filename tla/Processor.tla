----------------------------- MODULE Processor -----------------------------
(***************************************************************************)
(* The out-of-order superscalar timing model of hw6/processor.cxx, driven  *)
(* by the loop of simulate() in hw6/simulator.cxx.                         *)
(*                                                                         *)
(* A simulated cycle calls commit(), issue(), fetch() and advance() in     *)
(* this order.  The variable stage says which of them runs and loop how    *)
(* many iterations of its for-loop are behind it (issue() counts the       *)
(* instructions it has issued), so that one action below is one iteration  *)
(* of the code's loop, with every call the iteration makes.                *)
(*                                                                         *)
(* The trace is an input: each read yields any record of Records, or the   *)
(* end of the file.  The outcome of a branch prediction is an input too:   *)
(* the predictors have modules of their own.                               *)
(***************************************************************************)
EXTENDS Integers, Sequences, FiniteSets

CONSTANTS
    NumArchReg,   \* m_nNumArchReg, 50 in the program
    NumPhyReg,    \* m_nNumPhyReg
    RobCapacity,  \* m_nRobCapacity
    Width,        \* m_nWidth, the bandwidth of commit, issue and fetch
    FlagsReg,     \* the register of the condition flags, 49 in the program
    Experiments,  \* the experiments looked at, of the four of the program
    Records,      \* the micro-op records a trace may contain
    MaxTrace      \* bound of the exploration: records in the longest trace

NoReg == -1
ArchReg == 0 .. NumArchReg - 1
PhyReg == 0 .. NumPhyReg - 1

(***************************************************************************)
(* A trace record with the fields that the pipeline looks at; target says  *)
(* whether the target address of a taken branch is nonzero.                *)
(***************************************************************************)
Record == [src1 : ArchReg \cup {NoReg}, src2 : ArchReg \cup {NoReg},
           dest : ArchReg \cup {NoReg}, cond : {"R", "W", "-"},
           ls : {"L", "S", "-"}, addr : Nat, target : BOOLEAN, micro : Nat]

ASSUME SizesAssumption ==
    /\ NumArchReg \in Nat \ {0} /\ NumPhyReg \in Nat /\ NumPhyReg >= NumArchReg
    /\ RobCapacity \in Nat \ {0} /\ Width \in Nat \ {0}
    /\ FlagsReg \in ArchReg /\ Experiments \subseteq 1 .. 4 /\ MaxTrace \in Nat
ASSUME RecordsAssumption == Records \subseteq Record

\* Two registers for each instruction in flight: what the configurations of
\* hw6/test (64/4, 128/8 and 2048/128 registers and entries) provide.
EnoughRegisters == NumPhyReg - NumArchReg >= 2 * RobCapacity

(***************************************************************************)
(* Instructions (hw6/instruction.h, instruction.cxx).                      *)
(***************************************************************************)
ArchSrc(op) == {op.src1, op.src2, IF op.cond = "R" THEN FlagsReg ELSE NoReg} \ {NoReg}
ArchDest(op) == <<op.dest, IF op.cond = "W" THEN FlagsReg ELSE NoReg>>
Latency(op) == IF op.ls = "L" THEN 3 ELSE 1
IsLoad(op) == op.ls = "L"
IsStore(op) == op.ls = "S"
IsCondBranch(op) == op.target /\ op.cond = "R"

\* The value of m_lnDoneCycle and of m_lnIssueCycle before Execute(): the
\* former starts as ULONG_MAX, and neither is read before m_bIssued is set.
NoCycle == -1

Entry == [op : Records, age : Nat, psrc : SUBSET PhyReg,
          pdest : [1 .. 2 -> PhyReg \cup {NoReg}],
          pfree : [1 .. 2 -> PhyReg \cup {NoReg}],
          fetchCycle : Nat, issued : BOOLEAN,
          issueCycle : Nat \cup {NoCycle}, doneCycle : Nat \cup {NoCycle},
          mispredicted : BOOLEAN]

VARIABLES
    exp,          \* the experiment: the subclass that simulate() instantiates
    maptable,     \* architectural to physical register
    freelist,     \* queue of unallocated physical registers
    rob,          \* reorder buffer, oldest instruction first
    scoreboard,   \* cycles until a register is ready, -1 when unknown
    currentCycle, totalMicro, totalMacro,
    nFetchReady,  \* Exp4Processor: cycles until fetch resumes, < 0 suspended
    ins,          \* the input stream is good
    stage, loop,  \* the method that runs and its iteration count
    pos           \* the position of issue()'s iterator in the reorder buffer

control == <<stage, loop, pos>>
vars == <<exp, maptable, freelist, rob, scoreboard, currentCycle, totalMicro,
          totalMacro, nFetchReady, ins, stage, loop, pos>>

Init ==
    /\ exp \in Experiments
    /\ maptable = [a \in ArchReg |-> a]
    /\ freelist = [i \in 1 .. NumPhyReg - NumArchReg |-> NumArchReg + i - 1]
    /\ rob = <<>>
    /\ scoreboard = [p \in PhyReg |-> 0]
    /\ currentCycle = 0 /\ totalMicro = 0 /\ totalMacro = 0
    /\ nFetchReady = 0
    /\ ins = TRUE
    /\ stage = "commit" /\ loop = 0 /\ pos = 1

\* Mutant: an instruction counts as done once it has issued.
IsIssued(e) == e.issued
IsDone(e) == e.issued /\ e.doneCycle <= currentCycle

\* The end of one of the Width iterations of commit() or fetch().
NextIteration(nextStage) ==
    /\ IF loop + 1 < Width THEN loop' = loop + 1 /\ stage' = stage
                           ELSE loop' = 0 /\ stage' = nextStage
    /\ pos' = 1

Leave(nextStage) == stage' = nextStage /\ loop' = 0 /\ pos' = 1

(***************************************************************************)
(* commit(): the oldest instruction retires once it is done.               *)
(***************************************************************************)
PushValid(queue, r) == IF r = NoReg THEN queue ELSE Append(queue, r)
\* Mutant: the register displaced by the second destination is not freed.
FreedByFirst(queue, e) == PushValid(queue, e.pfree[1])
FreedBy(queue, e) == PushValid(PushValid(queue, e.pfree[1]), e.pfree[2])

Commit ==
    /\ stage = "commit"
    /\ rob # <<>> /\ IsDone(Head(rob))
    /\ freelist' = FreedBy(freelist, Head(rob))
    /\ rob' = Tail(rob)
    /\ NextIteration("issue")
    /\ UNCHANGED <<exp, maptable, scoreboard, currentCycle, totalMicro, totalMacro,
                   nFetchReady, ins>>

CommitNothing ==
    /\ stage = "commit"
    /\ ~ (rob # <<>> /\ IsDone(Head(rob)))
    /\ NextIteration("issue")
    /\ UNCHANGED <<exp, maptable, freelist, rob, scoreboard, currentCycle,
                   totalMicro, totalMacro, nFetchReady, ins>>

(***************************************************************************)
(* issue(): oldest first, up to Width instructions that are ready.         *)
(***************************************************************************)
\* Mutant: the mark -1 of an unknown latency is taken for ready.
OperandsNotPending(e) == \A p \in e.psrc : scoreboard[p] <= 0
OperandsReady(e) == \A p \in e.psrc : scoreboard[p] = 0

\* Mutant: a store stops blocking when it issues, not when it is done.
BlocksLoadUntilIssued(s, e) ==
    /\ IsStore(s.op) /\ s.age < e.age /\ ~ s.issued
    /\ exp # 2 => s.op.addr = e.op.addr

\* Mutant: the ages are compared the wrong way round.
BlocksLoadOfYounger(s, e) ==
    /\ IsStore(s.op) /\ s.age > e.age /\ ~ IsDone(s)
    /\ exp # 2 => s.op.addr = e.op.addr

\* The older store s keeps the load e waiting: every store that is not done
\* in Exp2Processor, one to the same address in its successors.
BlocksLoad(s, e) ==
    /\ IsStore(s.op) /\ s.age < e.age /\ ~ IsDone(s)
    /\ exp # 2 => s.op.addr = e.op.addr

IsReady(e) ==
    /\ OperandsReady(e)
    /\ exp # 1 /\ IsLoad(e.op) => \A k \in DOMAIN rob : ~ BlocksLoad(rob[k], e)

Execute(e) == [e EXCEPT !.issued = TRUE, !.issueCycle = currentCycle,
                        !.doneCycle = currentCycle + Latency(e.op)]

CanIssue(e) == ~ e.issued /\ IsReady(e)

\* Mutants: fetch stays suspended; fetch resumes a cycle early.
RestartFetchNever(e) == nFetchReady
RestartFetchEarly(e) == IF e.mispredicted THEN Latency(e.op) + 3 ELSE nFetchReady

\* Exp4Processor::issue() restarts the fetch of a mispredicted branch.
RestartFetch(e) == IF e.mispredicted THEN Latency(e.op) + 4 ELSE nFetchReady

\* Mutant: the second destination is not woken up.
WakeUpFirst(e) == [p \in PhyReg |-> IF e.pdest[1] = p THEN Latency(e.op)
                                                      ELSE scoreboard[p]]

WakeUp(e) == [p \in PhyReg |-> IF \E d \in 1 .. 2 : e.pdest[d] = p
                               THEN Latency(e.op) ELSE scoreboard[p]]

Issue ==
    /\ stage = "issue"
    /\ pos <= Len(rob) /\ CanIssue(rob[pos])
    /\ rob' = [rob EXCEPT ![pos] = Execute(rob[pos])]
    /\ scoreboard' = WakeUp(rob[pos])
    /\ nFetchReady' = RestartFetch(rob[pos])
    /\ IF loop + 1 = Width
       THEN Leave("fetch")
       ELSE loop' = loop + 1 /\ pos' = pos + 1 /\ stage' = stage
    /\ UNCHANGED <<exp, maptable, freelist, currentCycle, totalMicro, totalMacro, ins>>

IssueSkip ==
    /\ stage = "issue"
    /\ pos <= Len(rob) /\ ~ CanIssue(rob[pos])
    /\ pos' = pos + 1
    /\ UNCHANGED <<exp, maptable, freelist, rob, scoreboard, currentCycle,
                   totalMicro, totalMacro, nFetchReady, ins, stage, loop>>

IssueEnd ==
    /\ stage = "issue"
    /\ pos > Len(rob)
    /\ Leave("fetch")
    /\ UNCHANGED <<exp, maptable, freelist, rob, scoreboard, currentCycle,
                   totalMicro, totalMacro, nFetchReady, ins>>

(***************************************************************************)
(* fetch(): up to Width records are read, renamed and marked not ready.    *)
(***************************************************************************)
\* Mutant: the register is read from the free list without being removed.
RenameDestKeepingFront(r, k, areg) ==
    IF areg = NoReg THEN r
    ELSE [map |-> [r.map EXCEPT ![areg] = Head(r.free)],
          free |-> r.free,
          pdest |-> [r.pdest EXCEPT ![k] = Head(r.free)],
          pfree |-> [r.pfree EXCEPT ![k] = r.map[areg]]]

\* One destination of renameInstruction(): r holds the map table, the free
\* list and the physical registers of the destinations renamed so far.
RenameDest(r, k, areg) ==
    IF areg = NoReg THEN r
    ELSE [map |-> [r.map EXCEPT ![areg] = Head(r.free)],
          free |-> Tail(r.free),
          pdest |-> [r.pdest EXCEPT ![k] = Head(r.free)],
          pfree |-> [r.pfree EXCEPT ![k] = r.map[areg]]]

Unrenamed == [map |-> maptable, free |-> freelist,
              pdest |-> <<NoReg, NoReg>>, pfree |-> <<NoReg, NoReg>>]

RenameInstruction(op) ==
    RenameDest(RenameDest(Unrenamed, 1, ArchDest(op)[1]), 2, ArchDest(op)[2])

\* The free list serves the front() and pop_front() of each destination;
\* on an empty deque their behaviour is undefined.
CanRename(op) ==
    /\ ArchDest(op)[1] # NoReg \/ ArchDest(op)[2] # NoReg => Len(freelist) >= 1
    /\ ArchDest(op)[1] # NoReg /\ ArchDest(op)[2] # NoReg => Len(freelist) >= 2

UnReady(pdest) == [p \in PhyReg |-> IF \E d \in 1 .. 2 : pdest[d] = p
                                    THEN -1 ELSE scoreboard[p]]

\* Mutant: the sources are renamed after the destinations.
NewEntryAfterRename(op, r, miss) ==
    [op |-> op, age |-> totalMicro + 1,
     psrc |-> {r.map[a] : a \in ArchSrc(op)},
     pdest |-> r.pdest, pfree |-> r.pfree,
     fetchCycle |-> currentCycle, issued |-> FALSE,
     issueCycle |-> NoCycle, doneCycle |-> NoCycle, mispredicted |-> miss]

NewEntry(op, r, miss) ==
    [op |-> op, age |-> totalMicro + 1,
     psrc |-> {maptable[a] : a \in ArchSrc(op)},
     pdest |-> r.pdest, pfree |-> r.pfree,
     fetchCycle |-> currentCycle, issued |-> FALSE,
     issueCycle |-> NoCycle, doneCycle |-> NoCycle, mispredicted |-> miss]

\* Mutant: a misprediction does not suspend fetch.
SuspendFetchNever(miss) == nFetchReady

\* Exp4Processor::fetch() stops fetching after a misprediction.
SuspendFetch(miss) == IF miss THEN -1 ELSE nFetchReady

\* Mutant: the capacity of the reorder buffer is not checked.
FetchUnbounded ==
    /\ stage = "fetch" /\ ins
    /\ exp = 4 => nFetchReady = 0

\* The next iteration of the loop reaches readInstruction().
FetchGuard ==
    /\ stage = "fetch" /\ ins
    /\ exp = 4 => nFetchReady = 0
    /\ Len(rob) < RobCapacity

Fetch(op, miss) ==
    LET r == RenameInstruction(op)
    IN  /\ FetchGuard /\ totalMicro < MaxTrace
        /\ CanRename(op)
        /\ miss => exp = 4 /\ IsCondBranch(op)
        /\ rob' = Append(rob, NewEntry(op, r, miss))
        /\ maptable' = r.map /\ freelist' = r.free
        /\ scoreboard' = UnReady(r.pdest)
        /\ totalMicro' = totalMicro + 1
        /\ totalMacro' = IF op.micro = 1 THEN totalMacro + 1 ELSE totalMacro
        /\ nFetchReady' = SuspendFetch(miss)
        /\ NextIteration("advance")
        /\ UNCHANGED <<exp, currentCycle, ins>>

\* The record needs more registers than are free: pop_front() on an empty
\* deque, after which the model promises nothing.
FetchUndefined(op) ==
    /\ FetchGuard /\ totalMicro < MaxTrace
    /\ ~ CanRename(op)
    /\ Leave("undefined")
    /\ UNCHANGED <<exp, maptable, freelist, rob, scoreboard, currentCycle,
                   totalMicro, totalMacro, nFetchReady, ins>>

\* The read fails: the new entry is popped and the stream is no longer good.
FetchEndOfTrace ==
    /\ FetchGuard
    /\ ins' = FALSE
    /\ Leave("advance")
    /\ UNCHANGED <<exp, maptable, freelist, rob, scoreboard, currentCycle,
                   totalMicro, totalMacro, nFetchReady>>

\* Exp4Processor::fetch() counts down, or below -1, instead of fetching.
FetchSuspended ==
    /\ stage = "fetch" /\ ins
    /\ exp = 4 /\ nFetchReady # 0
    /\ nFetchReady' = nFetchReady - 1
    /\ Leave("advance")
    /\ UNCHANGED <<exp, maptable, freelist, rob, scoreboard, currentCycle,
                   totalMicro, totalMacro, ins>>

FetchNothing ==
    /\ stage = "fetch"
    /\ \/ ~ ins
       \/ (exp = 4 => nFetchReady = 0) /\ Len(rob) = RobCapacity
    /\ Leave("advance")
    /\ UNCHANGED <<exp, maptable, freelist, rob, scoreboard, currentCycle,
                   totalMicro, totalMacro, nFetchReady, ins>>

(***************************************************************************)
(* advance(), and the condition of the loop of simulate().                 *)
(***************************************************************************)
\* Mutant: the loop goes on only while both conditions hold.
AdvanceExitingEarly ==
    /\ stage = "advance"
    /\ currentCycle' = currentCycle + 1
    /\ scoreboard' = [p \in PhyReg |-> IF scoreboard[p] > 0
                                       THEN scoreboard[p] - 1 ELSE scoreboard[p]]
    /\ Leave(IF rob # <<>> /\ ins THEN "commit" ELSE "exit")
    /\ UNCHANGED <<exp, maptable, freelist, rob, totalMicro, totalMacro, nFetchReady, ins>>

Advance ==
    /\ stage = "advance"
    /\ currentCycle' = currentCycle + 1
    /\ scoreboard' = [p \in PhyReg |-> IF scoreboard[p] > 0
                                       THEN scoreboard[p] - 1 ELSE scoreboard[p]]
    /\ Leave(IF rob # <<>> \/ ins THEN "commit" ELSE "exit")
    /\ UNCHANGED <<exp, maptable, freelist, rob, totalMicro, totalMacro, nFetchReady, ins>>

\* The simulation is over (or its behaviour is undefined): nothing happens.
Stopped == stage \in {"exit", "undefined"} /\ UNCHANGED vars

Next ==
    \/ Commit \/ CommitNothing
    \/ Issue \/ IssueSkip \/ IssueEnd
    \/ \E op \in Records : \/ \E miss \in BOOLEAN : Fetch(op, miss)
                           \/ FetchUndefined(op)
    \/ FetchEndOfTrace \/ FetchSuspended \/ FetchNothing
    \/ Advance
    \/ Stopped

Spec == Init /\ [][Next]_vars

-----------------------------------------------------------------------------
(***************************************************************************)
(* Properties.                                                             *)
(***************************************************************************)
\* Every variable holds a value of its type, the reorder buffer respects its
\* capacity and the control variables name an iteration the code has.
TypeOK ==
    /\ exp \in Experiments
    /\ maptable \in [ArchReg -> PhyReg]
    /\ freelist \in Seq(PhyReg)
    /\ rob \in Seq(Entry) /\ Len(rob) <= RobCapacity
    /\ scoreboard \in [PhyReg -> Int]
    /\ currentCycle \in Nat /\ totalMicro \in Nat /\ totalMacro \in Nat
    /\ nFetchReady \in Int /\ ins \in BOOLEAN
    /\ stage \in {"commit", "issue", "fetch", "advance", "exit", "undefined"}
    /\ loop \in 0 .. Width - 1 /\ pos \in Nat \ {0}

\* What the instructions in flight will free, in the order of the buffer.
PendingFree == [j \in DOMAIN rob |-> rob[j].pfree]

\* No physical register is held twice by the map table, the free list and the
\* registers that instructions in flight will free when they commit.
Disjoint(map, free, pending) ==
    /\ \A a, b \in DOMAIN map : map[a] = map[b] => a = b
    /\ \A i, j \in DOMAIN free : free[i] = free[j] => i = j
    /\ \A i, j \in DOMAIN pending : \A k, l \in 1 .. 2 :
          pending[i][k] # NoReg /\ pending[i][k] = pending[j][l] => i = j /\ k = l
    /\ \A a \in DOMAIN map : \A i \in DOMAIN free : map[a] # free[i]
    /\ \A a \in DOMAIN map : \A j \in DOMAIN pending : \A k \in 1 .. 2 :
          map[a] # pending[j][k]
    /\ \A i \in DOMAIN free : \A j \in DOMAIN pending : \A k \in 1 .. 2 :
          free[i] # pending[j][k]

\* Every physical register is in one of these three places.
Covers(map, free, pending) ==
    \A p \in PhyReg : \/ \E a \in DOMAIN map : map[a] = p
                      \/ \E i \in DOMAIN free : free[i] = p
                      \/ \E j \in DOMAIN pending : \E k \in 1 .. 2 : pending[j][k] = p

\* renameInstruction() and commit() never let two owners hold one physical
\* register: a register is not allocated again before it is freed, and is
\* freed once.
NoSharing == Disjoint(maptable, freelist, PendingFree)

\* ... and never lose one: the registers an instruction displaces come back.
NoLeak == Covers(maptable, freelist, PendingFree)

\* The pop_front() of renameInstruction() never meets an empty free list when
\* the machine has two spare registers for each entry of the reorder buffer.
NoUnderflow == EnoughRegisters => stage # "undefined"

\* The writers of the architectural register a among the positions J.
Writers(a, J) == {k \in J : \E d \in 1 .. 2 : ArchDest(rob[k].op)[d] = a}
Youngest(J) == CHOOSE k \in J : \A m \in J : m <= k
Oldest(J) == CHOOSE k \in J : \A m \in J : k <= m
LastDest(e, a) == IF ArchDest(e.op)[2] = a THEN e.pdest[2] ELSE e.pdest[1]
FirstFree(e, a) == IF ArchDest(e.op)[1] = a THEN e.pfree[1] ELSE e.pfree[2]

\* The register that program order gives the instruction at j for a: that of
\* the youngest older writer in flight, else the one that held a before the
\* first writer from j on, else the current one.
SourceOf(j, a) ==
    LET older == Writers(a, 1 .. j - 1)
        later == Writers(a, j .. Len(rob))
    IN  IF older # {} THEN LastDest(rob[Youngest(older)], a)
        ELSE IF later # {} THEN FirstFree(rob[Oldest(later)], a)
        ELSE maptable[a]

\* Renaming keeps the program's data dependences: an instruction in flight
\* reads what the last older writer of each source produces.
SourcesFollowProgramOrder ==
    \A j \in DOMAIN rob :
        rob[j].psrc = {SourceOf(j, a) : a \in ArchSrc(rob[j].op)}

Remaining(e) == IF ~ e.issued THEN -1
                ELSE IF IsDone(e) THEN 0 ELSE e.doneCycle - currentCycle

\* The scoreboard, kept by three methods and read by isReady(), agrees with
\* the done cycles kept in the instructions, which commit() reads.
ScoreboardExact ==
    /\ \A j \in DOMAIN rob : \A d \in 1 .. 2 :
          rob[j].pdest[d] # NoReg => scoreboard[rob[j].pdest[d]] = Remaining(rob[j])
    /\ \A p \in PhyReg :
          (\A j \in DOMAIN rob : \A d \in 1 .. 2 : rob[j].pdest[d] # p)
             => scoreboard[p] = 0

DependsOn(e, w) == \E d \in 1 .. 2 : w.pdest[d] \in e.psrc

\* No instruction issues before an older one in flight that produces one of
\* its sources is done.
RawOrder ==
    \A i, j \in DOMAIN rob :
        i < j /\ rob[j].issued /\ DependsOn(rob[j], rob[i])
            => rob[i].issued /\ rob[i].doneCycle <= rob[j].issueCycle

\* The stores a load must wait for: all older ones in Exp2Processor, those to
\* its address in Exp3Processor and Exp4Processor, none in Exp1Processor.
Conflicts(s, l) == /\ IsStore(s.op) /\ IsLoad(l.op) /\ exp # 1
                   /\ exp = 2 \/ s.op.addr = l.op.addr

\* No load issues before an older conflicting store is done.
MemoryOrder ==
    \A i, j \in DOMAIN rob :
        i < j /\ rob[j].issued /\ Conflicts(rob[i], rob[j])
            => rob[i].issued /\ rob[i].doneCycle <= rob[j].issueCycle

\* Instructions retire in program order, each at least one cycle after it was
\* issued and that one cycle after it was fetched: none flows through the
\* pipeline in a single cycle (simulator.cxx, the comment in the loop).
Retires(e) ==
    /\ e.age = totalMicro - Len(rob) + 1
    /\ e.fetchCycle < e.issueCycle /\ e.issueCycle < e.doneCycle
    /\ e.doneCycle <= currentCycle
RetireInOrder == [][Len(rob') < Len(rob) => Retires(Head(rob)) /\ rob' = Tail(rob)]_vars

\* The assertion of Exp4Processor::issue(): fetch is still suspended when the
\* mispredicted branch that suspended it issues.
AssertSuspended ==
    stage = "issue" /\ pos <= Len(rob) /\ CanIssue(rob[pos]) /\ rob[pos].mispredicted
        => nFetchReady < 0

\* Exp4Processor suspends fetch exactly while the youngest instruction is a
\* mispredicted branch that waits for its operands, and while it does no other
\* mispredicted branch waits.
SuspendedByMisprediction ==
    /\ \A j \in DOMAIN rob :
          rob[j].mispredicted /\ ~ rob[j].issued => j = Len(rob) /\ nFetchReady < 0
    /\ nFetchReady < 0 => /\ rob # <<>>
                          /\ rob[Len(rob)].mispredicted /\ ~ rob[Len(rob)].issued

\* The loop of simulate() ends, with every instruction that was fetched
\* committed: neither a suspended fetch nor a waiting instruction is stuck.
Terminates == <>(stage = "exit" /\ rob = <<>>)
=============================================================================

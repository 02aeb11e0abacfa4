------------------------------ MODULE Dataflow ------------------------------
(***************************************************************************)
(* Processor with the values its registers would hold.  The simulator      *)
(* keeps times and register names only; the history variables below follow *)
(* the data along them: issuing an instruction reads what its physical     *)
(* source registers hold, and writes its physical destinations.            *)
(***************************************************************************)
EXTENDS Processor

VARIABLES
    content,   \* the value each physical register gets, and from which cycle
    reads,     \* for each instruction in flight, the values it read
    retired,   \* the committed instructions with the values they read
    resumeAt   \* the cycle at which fetch may resume after a misprediction

dataVars == <<content, reads, retired, resumeAt>>
allVars == <<vars, dataVars>>

\* The value that the n-th instruction of the trace writes to destination d.
ResultOf(n, d) == 2 * n + d

\* What a physical register holds before its value is computed.
Stale == 0
ReadReg(p) == IF content[p].from <= currentCycle THEN content[p].value ELSE Stale

DataInit ==
    /\ Init
    /\ content = [p \in PhyReg |-> [value |-> IF p \in ArchReg THEN -1 - p ELSE Stale,
                                    from |-> 0]]
    /\ reads = <<>> /\ retired = <<>> /\ resumeAt = 0

DataCommit ==
    /\ Commit
    /\ retired' = Append(retired, [op |-> Head(rob).op, reads |-> Head(reads)])
    /\ reads' = Tail(reads)
    /\ UNCHANGED <<content, resumeAt>>

DataIssue ==
    /\ Issue
    /\ LET e == rob[pos]
       IN  /\ reads' = [reads EXCEPT ![pos] = {ReadReg(p) : p \in e.psrc}]
           /\ content' = [p \in PhyReg |->
                 IF \E d \in 1 .. 2 : p = e.pdest[d]
                 THEN [value |-> ResultOf(e.age, IF p = e.pdest[2] THEN 2 ELSE 1),
                       from |-> Execute(e).doneCycle]
                 ELSE content[p]]
           /\ resumeAt' = IF e.mispredicted THEN currentCycle + Latency(e.op) + 4
                                            ELSE resumeAt
    /\ UNCHANGED retired

DataFetch(op, miss) ==
    /\ Fetch(op, miss)
    /\ reads' = Append(reads, {})
    /\ UNCHANGED <<content, retired, resumeAt>>

DataNext ==
    \/ DataCommit \/ DataIssue
    \/ \E op \in Records, miss \in BOOLEAN : DataFetch(op, miss)
    \/ /\ \/ CommitNothing \/ IssueSkip \/ IssueEnd
          \/ \E op \in Records : FetchUndefined(op)
          \/ FetchEndOfTrace \/ FetchSuspended \/ FetchNothing
          \/ Advance \/ Stopped
       /\ UNCHANGED dataVars

DataSpec == DataInit /\ [][DataNext]_allVars

\* The program is one thread: while it can take a step, it takes one.
FairDataSpec == DataSpec /\ WF_allVars(DataNext)

-----------------------------------------------------------------------------
(***************************************************************************)
(* The architectural state: each register as the instructions that have    *)
(* retired left it, which is what the first instruction in flight that     *)
(* writes it will free.                                                    *)
(***************************************************************************)
CommittedMap(a) ==
    LET writers == Writers(a, DOMAIN rob)
    IN  IF writers # {} THEN FirstFree(rob[Oldest(writers)], a) ELSE maptable[a]

committed == [a \in ArchReg |-> content[CommittedMap(a)].value]

\* The out-of-order pipeline implements the sequential machine: committing an
\* instruction is executing it, with the operands and the architectural state
\* that program order gives.  A register read too early, overwritten too soon,
\* renamed wrongly or freed while a reader waits would show here.
InOrder == INSTANCE Sequential WITH
    regs <- committed, Regs <- ArchReg, Program <- Records,
    Src <- ArchSrc, Dest <- ArchDest
ImplementsSequential == InOrder!Spec

\* Exp4Processor charges a misprediction its delay exactly: when fetch() starts,
\* it is suspended if and only if the branch has not issued or fewer than four
\* cycles have passed since the branch was done.
DelayIsExact ==
    stage = "fetch" /\ loop = 0 /\ ins =>
        (nFetchReady # 0 <=>
            \/ \E j \in DOMAIN rob : rob[j].mispredicted /\ ~ rob[j].issued
            \/ currentCycle < resumeAt)
=============================================================================

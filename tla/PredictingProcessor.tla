------------------------- MODULE PredictingProcessor -------------------------
(***************************************************************************)
(* Processor with the branch predictor that Exp4Processor asks in fetch(): *)
(* a gshare of its own in hw6, any branch_predictor in cbp2.  Here it is   *)
(* one of the table predictors, which look at conditional branches only.   *)
(* The outcome of a prediction is no longer an input, but computed from    *)
(* the trace.                                                              *)
(*                                                                         *)
(* When simulate() has returned, the machine may be reset for another      *)
(* trace, which is what Processor::reset() is for; the program has no call *)
(* of it.                                                                  *)
(*                                                                         *)
(* Two history variables follow what predict.cc would make of the trace:   *)
(* the branches of the instructions in flight, and the predictor that has  *)
(* been driven with the instructions that have retired.                    *)
(***************************************************************************)
EXTENDS Processor, Predictors

CONSTANTS
    PCs,       \* addresses of the instructions, as bit vectors
    Started    \* the predictors that may be plugged in, as their constructors leave them

VARIABLES
    predictor,   \* m_pPred, m_predictor in hw6
    started,     \* the predictor as it was constructed
    branches,    \* for each instruction in flight, its branch
    driven       \* the predictor that has seen the retired instructions

predictorVars == <<predictor, started, branches, driven>>
allVars == <<vars, predictorVars>>

\* The first three experiments have no predictor.
NoPredictor == [kind |-> "none"]

PInit ==
    /\ Init
    /\ predictor \in (IF exp = 4 THEN Started ELSE {NoPredictor})
    /\ started = predictor /\ driven = predictor /\ branches = <<>>

\* extract_trace(): of what is not a conditional branch, a table predictor looks
\* neither at the address nor at the outcome.
Other == [pc |-> {}, conditional |-> FALSE, taken |-> TRUE]
ExtractTrace(op) == IF exp = 4 /\ IsCondBranch(op)
                    THEN [pc : PCs, conditional : {TRUE}, taken : BOOLEAN]
                    ELSE {Other}

\* Mutant: the predictor learns only from what it got wrong.
TrainOnMiss(p, b) == IF Direction(p, b) # b.taken THEN After(p, b) ELSE p
\* The calls of predict() and update(), for every instruction.
Train(p, b) == After(p, b)

Mispredicts(p, b) == b.conditional /\ Direction(p, b) # b.taken

PFetch(op, b) ==
    /\ Fetch(op, Mispredicts(predictor, b))
    /\ predictor' = Train(predictor, b)
    /\ branches' = Append(branches, b)
    /\ UNCHANGED <<started, driven>>

PCommit ==
    /\ Commit
    /\ branches' = Tail(branches)
    /\ driven' = After(driven, Head(branches))
    /\ UNCHANGED <<predictor, started>>

\* reset() writes the elements that the free list has: it does not resize it.
ResetRegisters ==
    /\ maptable' = [a \in ArchReg |-> a]
    /\ freelist' = [i \in DOMAIN freelist |-> NumArchReg + i - 1]

\* Processor::reset(), which leaves m_nFetchReady as it is, and the next call
\* of simulate() with another stream.  Only hw6 resets its predictor.
Reset ==
    /\ stage = "exit"
    /\ ResetRegisters
    /\ currentCycle' = 0 /\ totalMicro' = 0 /\ totalMacro' = 0
    /\ rob' = <<>>
    /\ scoreboard' = [p \in PhyReg |-> 0]
    /\ ins' = TRUE
    /\ Leave("commit")
    /\ predictor' = IF predictor.kind = "hw6" THEN started ELSE predictor
    /\ driven' = predictor' /\ branches' = <<>>
    /\ UNCHANGED <<exp, nFetchReady, started>>

PNext ==
    \/ PCommit
    \/ \E op \in Records : \E b \in ExtractTrace(op) : PFetch(op, b)
    \/ /\ \/ CommitNothing \/ Issue \/ IssueSkip \/ IssueEnd
          \/ \E op \in Records : FetchUndefined(op)
          \/ FetchEndOfTrace \/ FetchSuspended \/ FetchNothing
          \/ Advance \/ Stopped
       /\ UNCHANGED predictorVars
    \/ Reset

PSpec == PInit /\ [][PNext]_allVars

-----------------------------------------------------------------------------
(***************************************************************************)
(* reset() makes the machine as new, although it restores neither the      *)
(* length of the free list nor m_nFetchReady (hw6/processor.cxx 16-26):    *)
(* when simulate() returns, every register but one for each architectural  *)
(* register has come back, and fetch is not suspended.                     *)
(***************************************************************************)
ResetRestores == [][Reset => Init']_allVars

(***************************************************************************)
(* The pipeline, which predicts at fetch with instructions in flight,      *)
(* marks those branches as mispredicted that predict.cc counts when it     *)
(* drives the same predictor with the same trace, instruction by           *)
(* instruction.                                                            *)
(***************************************************************************)
InFlight ==
    LET D[k \in 0 .. Len(branches)] ==
          IF k = 0 THEN driven ELSE After(D[k - 1], branches[k])
    IN  D
PredictsAsDriver ==
    /\ predictor = InFlight[Len(rob)]
    /\ \A k \in DOMAIN rob :
          rob[k].mispredicted = Mispredicts(InFlight[k - 1], branches[k])

=============================================================================

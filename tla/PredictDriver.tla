---------------------------- MODULE PredictDriver ----------------------------
(***************************************************************************)
(* The main loop of cbp2/src/predict.cc on the predictors it makes: the    *)
(* GEHL predictor, or any number of table predictors side by side, which   *)
(* see the same trace.  For each instruction, predict() and then update()  *)
(* of every predictor is called.  hw6's gshare, which the program cannot   *)
(* make, may stand beside the others for comparison; O-GEHL and Seznec's   *)
(* predictor have modules of their own.                                    *)
(***************************************************************************)
EXTENDS Gehl, Predictors

CONSTANTS
    Programs,   \* the values of argv[2], without "gehl" all table predictors
    LineUps     \* the vectors of table predictors that the arguments ask for

ASSUME ProgramsAssumption == Programs \subseteq {"gehl", "tables"}

\* The table predictors are of four kinds; a run starts with new ones.
ASSUME LineUpsAssumption ==
    \A line \in LineUps : \A i \in DOMAIN line :
        LET p == line[i] IN
        /\ "kind" \in DOMAIN p /\ p.kind \in {"hw6", "gshare", "bc2", "tournament"}
        /\ p.kind = "hw6" => p.bits \in Nat /\ p = Hw6Gshare(p.bits)
        /\ p.kind = "gshare" => /\ p.bits \in Nat /\ p.hlen \in Nat
                                /\ p = Gshare(p.hlen, p.bits)
        /\ p.kind = "bc2" => p.bits \in Nat /\ p = Bc2(p.bits)
        /\ p.kind = "tournament" => /\ p.size \in Nat \ {0, 1}
                                    /\ p \in Tournament(p.size, p.garbage)

VARIABLES
    program,      \* argv[2]
    predictors,   \* the vector of the table predictors
    instr         \* the branch of the iteration, or NoBranch

driverVars == <<program, predictors, instr>>
allVars == <<vars, driverVars>>

NoBranch == [conditional |-> FALSE]

DriverInit ==
    /\ Init
    /\ program \in Programs
    /\ predictors \in (IF program = "tables" THEN LineUps ELSE {<<>>})
    /\ instr = NoBranch

PredictAll(b) ==
    /\ pending = Idle /\ instr = NoBranch
    /\ instr' = b
    /\ IF program = "gehl"
       THEN IF b.conditional THEN Predict(b.pc) ELSE PredictUnconditional(b.pc)
       ELSE UNCHANGED vars
    /\ UNCHANGED <<program, predictors>>

\* An unconditional branch is taken: the trace has no 'N' for it.
ReadInstruction(b) == (b.conditional \/ b.taken) /\ PredictAll(b)

UpdateAll ==
    /\ instr # NoBranch
    /\ instr' = NoBranch
    /\ IF program = "gehl" THEN Update(instr.taken) \/ UpdateUnconditional
                           ELSE UNCHANGED vars
    /\ predictors' = [i \in DOMAIN predictors |-> After(predictors[i], instr)]
    /\ UNCHANGED program

DriverNext == (\E b \in Branch(PCs) : ReadInstruction(b)) \/ UpdateAll

\* The loop goes on to the next instruction.
DriverSpec == DriverInit /\ [][DriverNext]_allVars /\ WF_allVars(DriverNext)

-----------------------------------------------------------------------------
(***************************************************************************)
(* hw6's gshare and cbp2's, two implementations of one predictor, agree    *)
(* after every trace when the latter gets one size for the table and the   *)
(* history, as predict.cc and simulator.cxx give it.                       *)
(***************************************************************************)
SameGshare ==
    \A i, j \in DOMAIN predictors :
        LET p == predictors[i]   q == predictors[j]
        IN  p.kind = "hw6" /\ q.kind = "gshare" /\ q.bits = p.bits /\ q.hlen = p.bits
            => p.tab = q.tab /\ p.history = q.history

(***************************************************************************)
(* A tournament predictor that finds its memory zeroed consists of the     *)
(* gshare and the bimodal predictor of cbp2/src, although it trains them   *)
(* in predict(), with other code and other tests of the bounds.            *)
(***************************************************************************)
TournamentParts ==
    \A i, j \in DOMAIN predictors :
        LET p == predictors[i]   q == predictors[j]
        IN  p.kind = "tournament" /\ p.garbage = {0} =>
            /\ q.kind = "gshare" /\ q.bits = p.size - 1 /\ q.hlen = q.bits
                 => q.tab = p.gshare /\ q.history = p.history
            /\ q.kind = "bc2" /\ q.bits = p.size - 2 => q.tab = p.bimodal

(***************************************************************************)
(* A branch that always goes the same way, with nothing in between, is     *)
(* eventually predicted right for good by every predictor, whatever it has *)
(* learned before and whatever its memory held when it was made: a GEHL    *)
(* predictor trains on every wrong prediction (gehl.h 276), a counter gets *)
(* into its range from any garbage, and the chooser ends with a component  *)
(* that has learned the branch.                                            *)
(***************************************************************************)
Constantly(b) == (ReadInstruction(b) /\ instr' = b) \/ (instr = b /\ UpdateAll)
Verdicts == IF program = "gehl" THEN {pending.direction}
            ELSE {Direction(predictors[i], instr) : i \in DOMAIN predictors}
Learns ==
    \A b \in [pc : PCs, conditional : {TRUE}, taken : BOOLEAN] :
        <>[][Constantly(b)]_allVars
            => <>[](instr # NoBranch => Verdicts = {b.taken})

=============================================================================

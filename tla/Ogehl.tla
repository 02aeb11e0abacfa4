-------------------------------- MODULE Ogehl --------------------------------
(***************************************************************************)
(* The O-GEHL branch predictor of cbp2/src/ogehl.hpp: a GEHL predictor     *)
(* that adapts the threshold under which it learns from right predictions  *)
(* (dyn.theta), and the lengths of the histories that index its tables     *)
(* (dyn.hist).                                                             *)
(*                                                                         *)
(* predict() and update() are called in turn for each instruction; pending *)
(* is what the former leaves for the latter, u and _S.  Its field index,   *)
(* where predict() has read the tables, is not kept by the code: update()  *)
(* computes it anew.  Instructions that are not branches change nothing    *)
(* but the count of operations, and are left out.                          *)
(***************************************************************************)
EXTENDS Folding, Lengths, SaturatingCounter, Functions

CONSTANTS
    NumTables, IdxBits,   \* the number of tables, index bits of each
    Addtl,                \* addtl_hist_length_vals
    L1, Alpha,            \* the arguments of Lengths(), alpha as a fraction
    CtrBits,              \* width of the counters in the tables
    Theta,                \* the initial threshold
    TCBits, ACBits,       \* width of the threshold and the alias counter
    Adaptations,          \* the adaptations that are looked at
    MaxPath,              \* the longest path history, 16 in the program
    PCs,                  \* the branches of the program, as bit vectors
    MaxOps                \* bound of the exploration: branches

Table == 0 .. NumTables - 1
Back == NumTables - 1
Index == SUBSET Bits(IdxBits)
AllLengths == Geometric(L1, Alpha, NumTables + Addtl)
ShortHist == [i \in Table |-> AllLengths[i]]
LongHist == [i \in Table |-> AllLengths[LongIndex(i, NumTables, Addtl)]]

ASSUME SizeAssumption ==
    /\ NumTables \in Nat \ {0, 1} /\ IdxBits \in Nat \ {0}
    /\ Addtl \in Nat /\ Addtl <= NumTables - 2 /\ Divides(NumTables, Addtl)
    /\ L1 \in Nat \ {0, 1} /\ Alpha \in Nat \X (Nat \ {0}) /\ Alpha[1] > Alpha[2]
    /\ MaxPath \in Nat /\ MaxOps \in Nat
    /\ Adaptations \subseteq [theta : BOOLEAN, hist : BOOLEAN]
    /\ \A pc \in PCs : pc \subseteq Nat
ASSUME WidthAssumption ==
    /\ Theta \in Nat
    /\ CtrBits \in Nat \ {0} /\ 2 ^ (CtrBits - 1) \in Nat \ {0}
    /\ TCBits \in Nat \ {0} /\ 2 ^ (TCBits - 1) \in Nat \ {0}
    /\ ACBits \in Nat \ {0} /\ 2 ^ (ACBits - 1) \in Nat \ {0}

VARIABLES
    dyn,              \* _dynamic_theta, _dynamic_hist_length
    tables,           \* _tables: the counters
    useLong,          \* _use_long_hist, the same in every table
    comp,             \* _cbranch_hist of the tables
    hist, path,       \* _branch_hist_bs, _path_hist_bs
    theta,            \* _theta
    tc, ac,           \* _threshold_counter, _alias_counter
    tags,             \* _tag_bits
    miss, correct,    \* _nu_miss, _nu_correct
    pending,          \* the prediction that waits for its update, or Idle
    ops               \* branches so far

history == <<comp, hist, path>>
vars == <<dyn, tables, useLong, comp, hist, path, theta, tc, ac, tags,
          miss, correct, pending, ops>>

Least(a, b) == IF a < b THEN a ELSE b
Idle == [kind |-> "idle"]
HistBits(long) == IF long THEN LongHist ELSE ShortHist
PathBits == Least(MaxPath, ShortHist[Back])   \* _path_mask_bs

Init ==
    /\ dyn \in Adaptations
    /\ tables = [i \in Table |-> [x \in Index |-> 0]]
    /\ useLong = FALSE
    /\ comp = [i \in Table \ {0} |-> {}]
    /\ hist = {} /\ path = {}
    /\ theta = Theta /\ tc = 0 /\ ac = 0
    /\ tags = [x \in Index |-> FALSE]
    /\ miss = 0 /\ correct = 0
    /\ pending = Idle /\ ops = 0

\* getComplicatedIndex()
TableIndex(i, pc) ==
    LET mask == Bits(HistBits(useLong)[i])
    IN  Xor3(pc, path \cap mask, IF i = 0 THEN {} ELSE comp[i] \cap mask)
          \cap Bits(IdxBits)

\* _sumCounters()
Sum(index) ==
    (NumTables \div 2) + SumFunction([i \in Table |-> tables[i][index[i]]])

Predict(pc) ==
    /\ pending = Idle /\ ops < MaxOps
    /\ LET index == [i \in Table |-> TableIndex(i, pc)]
       IN  pending' = [kind |-> "C", pc |-> pc, index |-> index,
                       sum |-> Sum(index), direction |-> Sum(index) >= 0]
    /\ UNCHANGED <<tables, useLong, history, theta, tc, ac, tags, miss, correct, ops>>

PredictUnconditional(pc) ==
    /\ pending = Idle /\ ops < MaxOps
    /\ pending' = [kind |-> "U", pc |-> pc, direction |-> TRUE]
    /\ UNCHANGED <<tables, useLong, history, theta, tc, ac, tags, miss, correct, ops>>

(***************************************************************************)
(* The parts of update(), for a conditional branch that has gone taken.    *)
(***************************************************************************)
Incorrect(taken) == pending.direction # taken
\* Mutant: a sum at the threshold counts as sure.
LowThresholdStrict == pending.sum \in -theta + 1 .. theta - 1
\* abs(_S) <= _theta
LowThreshold == pending.sum \in -theta .. theta
UpdateCorrect(taken) == ~Incorrect(taken) /\ LowThreshold
Updates(taken) == Incorrect(taken) \/ UpdateCorrect(taken)

Train(counter, taken) ==
    IF taken THEN Inc(counter, CtrBits) ELSE Dec(counter, CtrBits)
\* Mutant: the counters that the new history selects are trained.
TrainTablesLate(taken) ==
    tables' = [i \in Table |->
        LET x == Xor3(pending.pc, Push(path, 0 \in pending.pc)
                        \cap Bits(HistBits(useLong)[i]),
                      IF i = 0 THEN {} ELSE comp[i]) \cap Bits(IdxBits)
        IN  [tables[i] EXCEPT ![x] = Train(@, taken)]]
TrainTables(taken) ==
    tables' = [i \in Table |->
        [tables[i] EXCEPT ![TableIndex(i, pending.pc)] = Train(@, taken)]]

\* Mutant: the counter is not reset when the threshold has been moved.
DynamicThresholdFitOnce(taken) ==
    LET counter == IF Incorrect(taken) THEN Inc(tc, TCBits) ELSE Dec(tc, TCBits)
        step == IF Incorrect(taken) THEN 1 ELSE -1
    IN  IF dyn.theta /\ Updates(taken) /\ IsSaturated(counter, TCBits)
        THEN theta' = theta + step /\ tc' = counter
        ELSE /\ theta' = theta
             /\ tc' = IF dyn.theta /\ Updates(taken) THEN counter ELSE tc
\* Mutant: every right prediction counts, not only an unsure one.
DynamicThresholdFitAlways(taken) ==
    LET counter == IF Incorrect(taken) THEN Inc(tc, TCBits) ELSE Dec(tc, TCBits)
        step == IF Incorrect(taken) THEN 1 ELSE -1
    IN  IF dyn.theta /\ IsSaturated(counter, TCBits)
        THEN theta' = theta + step /\ tc' = 0
        ELSE /\ theta' = theta
             /\ tc' = IF dyn.theta THEN counter ELSE tc
\* _dynamicThresholdFit()
DynamicThresholdFit(taken) ==
    LET counter == IF Incorrect(taken) THEN Inc(tc, TCBits) ELSE Dec(tc, TCBits)
        step == IF Incorrect(taken) THEN 1 ELSE -1
    IN  IF dyn.theta /\ Updates(taken) /\ IsSaturated(counter, TCBits)
        THEN theta' = theta + step /\ tc' = 0
        ELSE /\ theta' = theta
             /\ tc' = IF dyn.theta /\ Updates(taken) THEN counter ELSE tc

Dec4(c) == Dec(Dec(Dec(Dec(c, ACBits), ACBits), ACBits), ACBits)

\* _dynamicHistoryFit(): use_long is not initialised, and is passed on to the
\* tables whether it has been assigned or not.
DynamicHistoryFit ==
    LET index == TableIndex(Back, pending.pc)
        bit == 0 \in pending.pc
        same == bit = tags[index]
    IN  /\ ac' = IF same THEN Inc(ac, ACBits) ELSE Dec4(ac)
        /\ useLong' \in IF IsSaturated(ac', ACBits) THEN {same} ELSE BOOLEAN
        /\ tags' = [tags EXCEPT ![index] = bit]

Learn(taken) ==
    /\ miss' = miss + (IF Incorrect(taken) THEN 1 ELSE 0)
    /\ correct' = correct + (IF Incorrect(taken) THEN 0 ELSE 1)
    /\ TrainTables(taken)
    /\ IF dyn.hist THEN DynamicHistoryFit ELSE UNCHANGED <<useLong, ac, tags>>

\* compressHistory() of every table but the first, after the length that it
\* uses has been chosen.
EnterHistory(taken) ==
    /\ hist' = Push(hist, taken)
    /\ path' = Push(path, 0 \in pending.pc) \cap Bits(PathBits)
    /\ \E beyond \in [{i \in Table \ {0} : HistBits(useLong')[i] >= HistSize} -> BOOLEAN] :
         comp' = [i \in Table \ {0} |->
            Compress(comp[i], hist', HistBits(useLong')[i], ShiftOf(i, IdxBits),
                     LastDest(i, IdxBits, ShortHist[i]), IdxBits,
                     i \in DOMAIN beyond /\ beyond[i])]

Update(taken) ==
    /\ pending.kind = "C"
    /\ IF Updates(taken) THEN Learn(taken)
       ELSE UNCHANGED <<tables, useLong, ac, tags, miss, correct>>
    /\ EnterHistory(taken)
    /\ DynamicThresholdFit(taken)
    /\ pending' = Idle /\ ops' = ops + 1

UpdateUnconditional ==
    /\ pending.kind = "U"
    /\ UNCHANGED <<tables, useLong, theta, tc, ac, tags, miss, correct>>
    /\ EnterHistory(TRUE)
    /\ pending' = Idle /\ ops' = ops + 1

Next ==
    /\ \/ \E pc \in PCs : Predict(pc) \/ PredictUnconditional(pc)
       \/ \E taken \in BOOLEAN : Update(taken)
       \/ UpdateUnconditional
    /\ UNCHANGED dyn

Spec == Init /\ [][Next]_vars

TypeOK ==
    /\ dyn \in Adaptations
    /\ tables \in [Table -> [Index -> Counter(CtrBits)]]
    /\ useLong \in BOOLEAN
    /\ comp \in [Table \ {0} -> Index]
    /\ hist \subseteq Bits(HistSize) /\ path \subseteq Bits(PathBits)
    /\ theta \in Int
    /\ tc \in Counter(TCBits) /\ ac \in Counter(ACBits)
    /\ tags \in [Index -> BOOLEAN]
    /\ miss \in Nat /\ correct \in Nat /\ ops \in Nat
    /\ pending = Idle \/ (/\ pending.kind \in {"C", "U"}
                          /\ pending.pc \in PCs
                          /\ pending.direction \in BOOLEAN)

(***************************************************************************)
(* The threshold, from which _dynamicThresholdFit() only ever subtracts    *)
(* without a look at its value (ogehl.hpp 633-638), stays above -2: at -1  *)
(* no right prediction is unsure enough to count against it.               *)
(***************************************************************************)
ThetaBounded == theta >= -1

(***************************************************************************)
(* The threshold moves on account of nothing but the balance that it is    *)
(* meant to keep (cbp2/doc/writeup/ogehl.tex 8), between updates on a      *)
(* wrong prediction and on an unsure right one: every step up stands for   *)
(* Highest(TCBits) of the former more than of the latter, every step down  *)
(* for -Lowest(TCBits) of the latter, and tc is the rest.  A counter of    *)
(* one bit is saturated as it starts, and keeps no account.                *)
(***************************************************************************)
ThetaAccountsForUpdates ==
    dyn.theta /\ Highest(TCBits) > 0 =>
        \E up \in 0 .. miss, down \in 0 .. correct :
            /\ theta = Theta + up - down
            /\ miss - correct = tc + up * Highest(TCBits) + down * Lowest(TCBits)

(***************************************************************************)
(* update() computes the indices of the tables anew, and changes the       *)
(* histories and the lengths that they depend on (ogehl.hpp 506-539): no   *)
(* counter changes but those that the prediction was made of.              *)
(***************************************************************************)
TrainsWhatItRead ==
    [][\A i \in Table, x \in Index :
          tables'[i][x] # tables[i][x]
              => pending.kind = "C" /\ x = pending.index[i]]_vars

(***************************************************************************)
(* The tables change between short and long history only when the alias    *)
(* counter is saturated (cbp2/doc/writeup/ogehl.tex 55-59).                *)
(***************************************************************************)
HistoryFollowsAlias ==
    [][useLong' # useLong => IsSaturated(ac', ACBits)]_vars

(***************************************************************************)
(* With both adaptations switched off this is the predictor of gehl.h, to  *)
(* which its authors compared it (cbp2/doc/writeup/gehl.tex 3 and          *)
(* cbp2/testing/ogehl.sh 34-35).                                           *)
(***************************************************************************)
G == INSTANCE Gehl WITH ghist <- hist, phist <- path, ziphist <- comp
Static == ~ dyn.theta /\ ~ dyn.hist
ImplementsGehl == (Static => G!Init) /\ [][Static => G!Next]_(G!vars)

=============================================================================

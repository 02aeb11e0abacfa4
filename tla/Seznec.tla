------------------------------- MODULE Seznec -------------------------------
(***************************************************************************)
(* Seznec's predictor (cbp2/src/seznec_ogehl.h): the sum of a GEHL, the    *)
(* tagged tables of a TAGE that starts from it, a meta predictor that      *)
(* chooses between the two, and a loop predictor.                          *)
(*                                                                         *)
(* The driver (predict.cc 190-231) calls predict() and then update() for   *)
(* each instruction; pending is what predict() leaves for update(): bi and *)
(* the members it assigns.  For instructions that are not conditional only *)
(* the history moves on and their prediction is not looked at.             *)
(*                                                                         *)
(* Counters that only the length of a run bounds are kept modulo what is   *)
(* read of them: Seed and TICK.                                            *)
(***************************************************************************)
EXTENDS SeznecHistory, SaturatingCounter, Functions, TLC

CONSTANTS
    LogL,                  \* LOGL: bits of a loop predictor index
    CBits,                 \* CBITS: bits of a TAGE counter
    Swizzle,               \* the bit that the lowest bit of an index moves to, 7
    MetaBank,              \* the banks that index the meta predictor, <<3, 5>>
    MetaBits, MetaShift,   \* how the first of the two is mangled, 6 and 4
    CtrBits,               \* bits of a GEHL counter, 8, and
    Fast,                  \* the range where it makes double steps, -7 .. 6
    LogTick,               \* LOGTICK, 23
    CountLimit,            \* the bound of COUNTTHRESHOLD, 127
    MaxConfid,             \* confidence from which a loop is predicted, 7
    StaticTaken,           \* the branches that predstat() predicts taken
    Garbage                \* what the memory of a new predictor may hold

Index == SUBSET Bits(LogG)
GehlIdx == SUBSET Bits(LogGehl)
Loop == SUBSET Bits(LogL)

\* int8_t, the type of a counter whatever its width.
Int8 == -128 .. 127

\* NGehl is even in the program, so that a sum is odd.  F and FGEHL shift by
\* the number of a bank within an index.
ASSUME SeznecAssumption ==
    /\ LogL \in Nat /\ CBits \in Nat \ {0} /\ CtrBits \in Nat \ {0} /\ LogTick \in Nat \ {0}
    /\ \A bits \in {4, 6, 7, CBits, CtrBits} : 2 ^ (bits - 1) \in Nat \ {0}
    /\ 2 ^ LogTick \in Nat \ {0} /\ 2 ^ (LogTick - 1) \in 0 .. 2 ^ LogTick - 1
    /\ Swizzle \in Nat
    /\ NHist <= LogG /\ PathLength <= 2 * LogG /\ PathLength <= 2 * LogGehl
    /\ Swizzle + 1 < LogG /\ MetaBits + MetaShift <= LogG
    /\ MetaBank \in Bank \X Bank /\ NGehl % 2 = 0
    /\ {-4, 3} \subseteq Counter(CtrBits) /\ Fast \subseteq Lowest(CtrBits) + 2 .. Highest(CtrBits) - 2
    /\ CountLimit \in Nat /\ MaxConfid \in Nat \ {0} /\ StaticTaken \subseteq PCs
    /\ Counter(7) \subseteq Int8
    /\ Garbage \subseteq [mode : BOOLEAN, worth : Int8, tag : SUBSET Bits(Word)]

VARIABLES
    gehl,                    \* GEHL
    theta, countThreshold,   \* Theta, COUNTTHRESHOLD
    gtable,                  \* gtable
    useAltOnNa, tick, seed,  \* USE_ALT_ON_NA, TICK, Seed
    mtable, worthHybrid,     \* mtable, WORTHHYBRID
    ltable, withLoop,        \* ltable, WITHLOOP
    pending,                 \* the prediction that waits for its update, or Idle
    trace                    \* history variable: the instructions so far

tables == <<gehl, theta, countThreshold, gtable, useAltOnNa, tick, seed,
            mtable, worthHybrid, ltable, withLoop>>
vars == <<historyVars, tables, pending, trace>>

Idle == [kind |-> "idle"]

\* lentry() and gentry()
NewLoop(garbage) ==
    [NbIter |-> -1, confid |-> 0, CurrentIter |-> 0, tag |-> garbage, Dir |-> FALSE]
NewEntry == [ctr |-> 0, tag |-> {}, u |-> 0]

Init ==
    /\ gehl = [i \in 0 .. NGehl |-> [x \in GehlIdx |-> IF i % 2 = 1 THEN -4 ELSE 3]]
    /\ theta = 2 * NGehl + 1 /\ countThreshold = 0
    /\ gtable = [i \in Bank |-> [x \in Index |-> NewEntry]]
    /\ useAltOnNa = 0 /\ tick = 2 ^ (LogTick - 1) /\ seed = 0
    /\ mtable = [t \in 0 .. 2 |-> [x \in Index |-> -1]]
    /\ withLoop = 0 /\ pending = Idle /\ trace = <<>>
    /\ \E g \in Garbage :
         /\ HistoryInit(g.mode) /\ worthHybrid = g.worth
         /\ ltable = [l \in Loop |-> NewLoop(g.tag)]

(***************************************************************************)
(* Where a branch is looked up.                                            *)
(***************************************************************************)
Rotate(v, k, width) == {(b + k) % width : b \in v}

\* F and FGEHL; M bounds the length of the path.
MixPath(length, bank, width) ==
    LET path == phist \cap Bits(Least(length, 16))
        upper == Rotate(ShiftRight(path, width), bank, width)
    IN  Rotate(SymDiff(path \cap Bits(width), upper), bank, width)

Distance(a, b) == IF a < b THEN b - a ELSE a - b

\* gindex()
TageIndex(pc, i) ==
    SymDiff(Xor3(pc, ShiftRight(pc, Distance(LogG, i) + 1), comp[<<"i", i>>]),
            MixPath(M[i], i, LogG)) \cap Bits(LogG)

\* gehlindex(), and the index of table 0.
GehlIndex(pc, i) ==
    IF i = 0 THEN pc \cap Bits(LogGehl)
    ELSE SymDiff(Xor3(pc, ShiftRight(pc, (MGehl[i] % LogGehl) + 1), comp[<<"gehl", i>>]),
                 MixPath(MGehl[i], i, LogGehl)) \cap Bits(LogGehl)

\* GI: the lowest bit of an index moves up and that of the address takes its place.
Swizzled(pc, index) ==
    ShiftLeft(SymDiff(ShiftRight(index, 1), BitIf(0 \in index, Swizzle)), 1)
      \cup (pc \cap {0})

\* gtag(); folds are the folded histories it reads.
Tag(pc, i, folds) ==
    Xor3(pc, folds[<<"t0", i>>], ShiftLeft(folds[<<"t1", i>>], 1)) \cap Bits(TBits)

\* What TAGE takes for the address.
TagePc(pc, predgehl) == (ShiftLeft(pc, 1) \cup BitIf(predgehl, 0)) \cap Bits(Word)

\* The entries of the three meta tables.
MetaIndex(pc, gi) ==
    LET first == gi[MetaBank[1]]
    IN  0 :> (pc \cap Bits(LogG))
     @@ 1 :> SymDiff(first, ShiftLeft(first \cap Bits(MetaBits), MetaShift))
     @@ 2 :> gi[MetaBank[2]]

(***************************************************************************)
(* predict()                                                               *)
(***************************************************************************)
Weak(ctr) == ctr \in {-1, 0}

\* Mutant: the counters are added up as if they were centred.
SumUncentred(index) == SumFunction([i \in 0 .. NGehl |-> 2 * gehl[i][index[i]]])
\* SUMGEHL
Sum(index) == SumFunction([i \in 0 .. NGehl |-> 2 * gehl[i][index[i]] + 1])

\* predict_tage(): the bank with the longest history that matches provides
\* the prediction unless its counter is new, the next one the alternative.
PredictTage(pc, predgehl) ==
    LET tpc == TagePc(pc, predgehl)
        gi == [i \in Bank |-> Swizzled(tpc, TageIndex(tpc, i))]
        entry == [i \in Bank |-> gtable[i][gi[i]]]
        tags == [i \in Bank |-> Tag(tpc, i, comp)]
        matching == {i \in Bank : entry[i].tag = tags[i]}
        trusted == {i \in Bank : useAltOnNa < 0 \/ ~ Weak(entry[i].ctr)}
        hit == Max(matching \cup {0})
        alt == Max(((matching \cap trusted) \cap 1 .. hit - 1) \cup {0})
        alttaken == IF alt > 0 THEN entry[alt].ctr >= 0 ELSE predgehl
    IN  [gi |-> gi, tags |-> tags, hit |-> hit, alt |-> alt, alttaken |-> alttaken,
         tage |-> IF hit \in trusted THEN entry[hit].ctr >= 0 ELSE alttaken]

\* predict_loop(), which also marks the entry as seen.
LoopOf(pc) == pc \cap Bits(LogL)
PredictLoop(pc) ==
    LET e == ltable[LoopOf(pc)]
    IN  [first |-> e.tag = {}, valid |-> e.confid = MaxConfid,
         direction |-> (e.CurrentIter + 1 # e.NbIter) = e.Dir]

PredictMeta(pc, gi) ==
    Cardinality({t \in 0 .. 2 : mtable[t][MetaIndex(pc, gi)[t]] >= 0}) >= 2

Predict(pc) ==
    LET index == [i \in 0 .. NGehl |-> GehlIndex(pc, i)]
        predgehl == Sum(index) >= 0
        t == PredictTage(pc, predgehl)
        loop == PredictLoop(pc)
        meta == PredictMeta(pc, t.gi)
        without == IF meta /\ worthHybrid >= 0 THEN t.tage ELSE predgehl
    IN  /\ pending = Idle /\ defined
        /\ pending' = [kind |-> "C", pc |-> pc, index |-> index, sum |-> Sum(index),
                       gehl |-> predgehl, t |-> t, loop |-> loop, meta |-> meta,
                       without |-> without,
                       direction |-> CASE loop.first -> pc \in StaticTaken
                                       [] ~ loop.first /\ withLoop >= 0 /\ loop.valid
                                            -> loop.direction
                                       [] OTHER -> without]
        /\ ltable' = [ltable EXCEPT ![LoopOf(pc)].tag = pc]
        /\ UNCHANGED <<historyVars, gehl, theta, countThreshold, gtable, useAltOnNa,
                       tick, seed, mtable, worthHybrid, withLoop, trace>>

\* Any instruction that is not a conditional branch.
PredictOther(pc) ==
    /\ pending = Idle /\ defined
    /\ pending' = [kind |-> "other", pc |-> pc]
    /\ UNCHANGED <<historyVars, tables, trace>>

(***************************************************************************)
(* update() of the tables.  p is the prediction.                           *)
(***************************************************************************)
\* Mutant: only a counter that equals its bound is saturated.
CtrUpdateByEquality(c, up, bits) ==
    IF up THEN (IF c # Highest(bits) THEN c + 1 ELSE c)
    ELSE (IF c # Lowest(bits) THEN c - 1 ELSE c)
\* ctrupdate(): a counter at or beyond its bound is left alone.
CtrUpdate(c, up, bits) ==
    IF up THEN (IF c < Highest(bits) THEN c + 1 ELSE c)
    ELSE (IF c > Lowest(bits) THEN c - 1 ELSE c)

\* ctrupdatebis()
CtrUpdateBis(c, taken) ==
    IF c \in Fast THEN (IF taken THEN c + 2 ELSE c - 2) ELSE CtrUpdate(c, taken, CtrBits)

\* The counters that judge the loop and the meta predictor, and the latter.
UpdateWithLoop(p, taken) ==
    withLoop' = IF p.loop.valid /\ p.without # p.loop.direction
                THEN CtrUpdate(withLoop, p.loop.direction = taken, 6) ELSE withLoop

UpdateMeta(p, taken) ==
    LET differ == p.gehl # p.t.tage
        correct == p.t.tage = taken
    IN  /\ worthHybrid' = IF differ /\ p.meta
                          THEN CtrUpdate(worthHybrid, correct, 7) ELSE worthHybrid
        /\ mtable' = IF differ
                     THEN [t \in 0 .. 2 |-> [mtable[t] EXCEPT
                            ![MetaIndex(p.pc, p.t.gi)[t]] = CtrUpdate(@, correct, 6)]]
                     ELSE mtable

\* Mutant: a run of another length does not take the confidence away.
LoopStepTrusting(e, taken) ==
    IF e.NbIter = -1 THEN [e EXCEPT !.Dir = taken, !.NbIter = 0, !.CurrentIter = 1]
    ELSE LET n == e.CurrentIter + 1
             doubt == IF n > e.NbIter THEN 0 ELSE e.confid
         IN  CASE taken = e.Dir -> [e EXCEPT !.CurrentIter = n, !.confid = doubt]
               [] taken # e.Dir /\ n = e.NbIter ->
                    [e EXCEPT !.CurrentIter = 0,
                              !.confid = IF n < 3 THEN 0 ELSE Least(doubt + 1, MaxConfid)]
               [] OTHER -> [e EXCEPT !.CurrentIter = 0, !.NbIter = n]
\* loopupdate(): a loop of n iterations is a run of n - 1 outcomes and the opposite.
LoopStep(e, taken) ==
    IF e.NbIter = -1 THEN [e EXCEPT !.Dir = taken, !.NbIter = 0, !.CurrentIter = 1]
    ELSE LET n == e.CurrentIter + 1
             doubt == IF n > e.NbIter THEN 0 ELSE e.confid
         IN  CASE taken = e.Dir -> [e EXCEPT !.CurrentIter = n, !.confid = doubt]
               [] taken # e.Dir /\ n = e.NbIter ->
                    [e EXCEPT !.CurrentIter = 0,
                              !.confid = IF n < 3 THEN 0 ELSE Least(doubt + 1, MaxConfid)]
               [] OTHER -> [e EXCEPT !.CurrentIter = 0, !.NbIter = n, !.confid = 0]

LoopUpdate(p, taken) == ltable' = [ltable EXCEPT ![LoopOf(p.pc)] = LoopStep(@, taken)]

Unsure(sum) == sum \in 1 - theta .. theta - 1

\* gehlupdate(): a wrong or unsure sum is learned from, and the threshold is
\* fitted so that both are as frequent.
GehlUpdate(p, taken) ==
    LET right == p.gehl = taken
        updates == ~ right \/ Unsure(p.sum)
        count == IF right THEN countThreshold + 1 ELSE countThreshold - 1
        turns == count \notin -CountLimit - 1 .. CountLimit
    IN  IF ~ updates THEN UNCHANGED <<gehl, theta, countThreshold>>
        ELSE /\ countThreshold' = IF turns THEN 0 ELSE count
             /\ theta' = IF turns THEN (IF right THEN theta - 2 ELSE theta + 2) ELSE theta
             /\ gehl' = [i \in 0 .. NGehl |->
                          [gehl[i] EXCEPT ![p.index[i]] = CtrUpdateBis(@, taken)]]

(***************************************************************************)
(* tageupdate()                                                            *)
(***************************************************************************)
\* The provider's counter is weak, as that of a new entry.
PseudoNew(p) == p.t.hit > 0 /\ Weak(gtable[p.t.hit][p.t.gi[p.t.hit]].ctr)
LongestMatch(p) == gtable[p.t.hit][p.t.gi[p.t.hit]].ctr >= 0

Allocates(p, taken) ==
    /\ p.t.tage # taken /\ p.t.hit < NHist
    /\ ~ (PseudoNew(p) /\ LongestMatch(p) = taken)

UseAlt(p, taken) ==
    IF PseudoNew(p) /\ LongestMatch(p) # p.t.alttaken
    THEN CtrUpdate(useAltOnNa, p.t.alttaken = taken, 4) ELSE useAltOnNa

\* X: the first bank to allocate, up to three above the provider.
FirstBank(p, random) ==
    LET y == random % 2 ^ (NHist - p.t.hit - 1)
    IN  p.t.hit + (IF y % 2 = 0 THEN 1 ELSE IF y % 4 = 1 THEN 2 ELSE 3)

\* The banks where an entry is replaced.  When all are useful, one is made
\* available, but those that are replaced are others, of usefulness one.
Replaced(p, taken, random) ==
    LET u == [i \in Bank |-> gtable[i][p.t.gi[i]].u]
        none == \A i \in p.t.hit + 1 .. NHist : u[i] > 0
        x == FirstBank(p, random)
    IN  IF ~ Allocates(p, taken) THEN {}
        ELSE {i \in x .. NHist : IF none THEN u[i] = 1 /\ i # x ELSE u[i] = 0}

Freed(p, taken, random) ==
    IF /\ Allocates(p, taken)
       /\ \A i \in p.t.hit + 1 .. NHist : gtable[i][p.t.gi[i]].u > 0
    THEN {FirstBank(p, random)} ELSE {}

\* The entry of bank i that the branch is looked up in, allocated or freed.
AfterAllocation(p, taken, random, folds, i) ==
    LET e == gtable[i][p.t.gi[i]]
    IN  IF i \in Replaced(p, taken, random)
        THEN [ctr |-> IF taken THEN 0 ELSE -1, u |-> 0,
              tag |-> Tag(TagePc(p.pc, p.gehl), i, folds)]
        ELSE IF i \in Freed(p, taken, random) THEN [e EXCEPT !.u = 0] ELSE e

\* The entry e of bank i, once the counters have been trained.
Trained(p, taken, e, i) ==
    LET useAlt == UseAlt(p, taken)
        tage == IF PseudoNew(p) /\ useAlt >= 0 THEN LongestMatch(p) ELSE p.t.tage
        counted == [e EXCEPT !.ctr = CtrUpdate(@, taken, CBits)]
        u == CASE tage = p.t.alttaken -> e.u
               [] tage # p.t.alttaken /\ tage = taken -> Least(e.u + 1, 3)
               [] OTHER -> IF useAlt < 0 /\ e.u > 0 THEN e.u - 1 ELSE e.u
    IN  IF i = p.t.hit THEN [counted EXCEPT !.u = u] ELSE counted

\* All u are halved when the ticks wrap around.
Aged(e) == IF tick' = 0 THEN [e EXCEPT !.u = @ \div 2] ELSE e

\* The alternative is trained along with a provider that is not useful.
TageUpdate(p, taken, random, folds) ==
    LET hit == p.t.hit
        trains == {hit} \cup
            (IF hit > 0 /\ Aged(gtable[hit][p.t.gi[hit]]).u = 0 THEN {p.t.alt} ELSE {})
        After(i) == LET e == Aged(AfterAllocation(p, taken, random, folds, i))
                    IN  IF i \in trains THEN Trained(p, taken, e, i) ELSE e
    IN  /\ tick' = (tick + 1) % 2 ^ LogTick
        /\ useAltOnNa' = UseAlt(p, taken)
        /\ gtable' = [i \in Bank |-> [x \in Index |->
                        IF x = p.t.gi[i] THEN After(i) ELSE Aged(gtable[i][x])]]

LearnTables(taken, folds) ==
    /\ UpdateWithLoop(pending, taken) /\ UpdateMeta(pending, taken)
    /\ LoopUpdate(pending, taken) /\ GehlUpdate(pending, taken)
    /\ TageUpdate(pending, taken, seed', folds)

Finish(conditional, taken) ==
    /\ trace' = Append(trace, [pc |-> pending.pc, conditional |-> conditional, taken |-> taken])
    /\ pending' = Idle

\* Mutant: the history moves on before the tables are updated.
UpdateHistoryFirst(taken) ==
    /\ pending.kind = "C"
    /\ seed' = (seed + 1) % 4
    /\ EnterHistory(pending.pc, taken)
    /\ LearnTables(taken, comp')
    /\ Finish(TRUE, taken)
Update(taken) ==
    /\ pending.kind = "C"
    /\ seed' = (seed + 1) % 4
    /\ LearnTables(taken, comp)
    /\ EnterHistory(pending.pc, taken)
    /\ Finish(TRUE, taken)

\* Whatever the direction, such an instruction enters the history as taken.
UpdateOther ==
    /\ pending.kind = "other"
    /\ seed' = (seed + 1) % 4
    /\ EnterHistory(pending.pc, TRUE)
    /\ Finish(FALSE, TRUE)
    /\ UNCHANGED <<gehl, theta, countThreshold, gtable, useAltOnNa, tick, mtable,
                   worthHybrid, ltable, withLoop>>

Next ==
    \/ \E pc \in PCs : Predict(pc) \/ PredictOther(pc)
    \/ \E taken \in BOOLEAN : Update(taken)
    \/ UpdateOther

Spec == Init /\ [][Next]_vars

-----------------------------------------------------------------------------
(***************************************************************************)
(* Counters stay within the range of their widths, indices and tags within *)
(* their bits, and the position in the buffer within what it may be while  *)
(* MAXLENGTH entries are to follow it.  WORTHHYBRID is never initialised   *)
(* (211): it may start outside of its seven bits, and all that holds of it *)
(* is that no step makes its int8_t overflow.                              *)
(***************************************************************************)
TypeOK ==
    /\ gehl \in [0 .. NGehl -> [GehlIdx -> Counter(CtrBits)]]
    /\ theta \in Int /\ countThreshold \in -CountLimit - 1 .. CountLimit
    /\ gtable \in [Bank -> [Index -> [ctr : Counter(CBits), tag : SUBSET Bits(TBits),
                                      u : 0 .. 3]]]
    /\ useAltOnNa \in Counter(4) /\ tick \in 0 .. 2 ^ LogTick - 1 /\ seed \in 0 .. 3
    /\ mtable \in [0 .. 2 -> [Index -> Counter(6)]]
    /\ worthHybrid \in Int8 /\ withLoop \in Counter(6)
    /\ \A l \in Loop : ltable[l].confid \in 0 .. MaxConfid /\ ltable[l].CurrentIter \in Nat
    /\ ptghist \in 0 .. Room - 1
    /\ \A f \in Folds : comp[f] \subseteq Bits(Shape[f].width)

(***************************************************************************)
(* The threshold stays positive although it is lowered without a bound     *)
(* (gehlupdate 599-608): at 1, no sum of an odd number of odd terms is     *)
(* unsure.                                                                 *)
(***************************************************************************)
ThetaPositive == theta > 0

\* The branches that entry l has seen, and how many it has seen since.
Own(l) == {k \in DOMAIN trace : trace[k].conditional /\ LoopOf(trace[k].pc) = l}
Age(l, k) == Cardinality({m \in Own(l) : m > k})

(***************************************************************************)
(* The loop predictor is confident only of what has happened (563-594): an *)
(* entry with confidence c > 0 has seen its branches go through c + 1      *)
(* loops of NbIter iterations just before the current one.                 *)
(***************************************************************************)
LoopConfident ==
    \A l \in Loop :
        LET e == ltable[l]
            remembered == (e.confid + 1) * e.NbIter + e.CurrentIter
        IN  e.confid > 0 =>
              /\ Cardinality(Own(l)) >= remembered
              /\ \A k \in Own(l) :
                    Age(l, k) < remembered =>
                       (trace[k].taken # e.Dir <=>
                          /\ Age(l, k) >= e.CurrentIter
                          /\ (Age(l, k) - e.CurrentIter) % e.NbIter = 0)

(***************************************************************************)
(* An entry that an update replaces is filed under the tag that the        *)
(* prediction has just looked for, in a bank with a longer history than    *)
(* the provider's, and is a useful one only if no entry there was          *)
(* available (656-691).                                                    *)
(***************************************************************************)
AllocatesWhatMissed ==
    [][ \A i \in Bank : LET e == gtable[i][pending.t.gi[i]]
                            f == gtable'[i][pending.t.gi[i]]
                        IN  pending.kind = "C" /\ pending' = Idle /\ e.tag # f.tag =>
            /\ i > pending.t.hit
            /\ f.tag = pending.t.tags[i]
            /\ e.u > 0 => \A j \in pending.t.hit + 1 .. NHist :
                             gtable[j][pending.t.gi[j]].u > 0
      ]_vars

=============================================================================

------------------------- MODULE PredictDriverProofs -------------------------
(***************************************************************************)
(* The two gshare predictors of the repository are one, and a tournament   *)
(* predictor consists of a gshare and a bimodal one: whatever the program, *)
(* they have the same counters and the same history.  The folds that the   *)
(* GEHL predictor keeps for its tables are those of its global history.    *)
(***************************************************************************)
EXTENDS PredictDriver, FoldingProofs

IsGshare(p) == p.kind \in {"hw6", "gshare"}

\* A predictor has a kind; a gshare has these fields and a history of bits.
Formed(p) ==
    /\ "kind" \in DOMAIN p /\ p.kind \in {"hw6", "gshare", "bc2", "tournament"}
    /\ IsGshare(p) => /\ {"bits", "tab", "history"} \subseteq DOMAIN p
                      /\ p.history \subseteq Int /\ p.bits \in Nat
    /\ p.kind = "gshare" => "hlen" \in DOMAIN p /\ p.hlen \in Nat

Same(p, q) ==
    p.kind = "hw6" /\ q.kind = "gshare" /\ q.bits = p.bits /\ q.hlen = p.bits
        => p.tab = q.tab /\ p.history = q.history

GshareInv == /\ \A i \in DOMAIN predictors : Formed(predictors[i])
             /\ SameGshare

-----------------------------------------------------------------------------
LEMMA SameGshareIs ==
    SameGshare <=> \A i, j \in DOMAIN predictors : Same(predictors[i], predictors[j])
BY DEF SameGshare, Same

LEMMA Hw6After ==
    ASSUME NEW p, NEW b, {"kind", "bits", "tab", "history"} \subseteq DOMAIN p
    PROVE  LET r == UpdateHw6(p, b)
           IN  /\ DOMAIN r = DOMAIN p /\ r.kind = p.kind /\ r.bits = p.bits
               /\ r.tab = [p.tab EXCEPT ![Hw6Index(p, b.pc)] = Count(@, b.taken)]
               /\ r.history = (ShiftLeft(p.history, 1) \cup BitIf(b.taken, 0)) \cap Bits(p.bits)
BY DEF UpdateHw6

LEMMA GshareAfter ==
    ASSUME NEW p, NEW b, {"kind", "bits", "hlen", "tab", "history"} \subseteq DOMAIN p
    PROVE  LET r == UpdateGshare(p, b)
           IN  /\ DOMAIN r = DOMAIN p /\ r.kind = p.kind
               /\ r.bits = p.bits /\ r.hlen = p.hlen
               /\ r.tab = [p.tab EXCEPT ![GshareIndex(p, b.pc)] = Count(@, b.taken)]
               /\ r.history = (ShiftLeft(p.history, 1) \cup BitIf(b.taken, 0)) \cap Bits(p.hlen)
BY DEF UpdateGshare

LEMMA OthersAfter ==
    ASSUME NEW p, NEW b, "kind" \in DOMAIN p
    PROVE  /\ "kind" \in DOMAIN UpdateBc2(p, b) /\ UpdateBc2(p, b).kind = p.kind
           /\ "kind" \in DOMAIN UpdateTournament(p, b) /\ UpdateTournament(p, b).kind = p.kind
BY DEF UpdateBc2, UpdateTournament

LEMMA SomeBits == \A n \in Nat : \A v : v \cap Bits(n) \subseteq Int
BY DEF Bits

LEMMA FormedAfter ==
    ASSUME NEW p, NEW b, Formed(p)
    PROVE  Formed(After(p, b)) /\ After(p, b).kind = p.kind
<1>1. CASE ~ b.conditional
  BY <1>1 DEF After
<1>2. CASE b.conditional
  <2>1. CASE p.kind = "hw6"
    <3> DEFINE r == UpdateHw6(p, b)
               pushed == ShiftLeft(p.history, 1) \cup BitIf(b.taken, 0)
    <3>1. After(p, b) = r
      BY <1>2, <2>1 DEF After
    <3>2. DOMAIN r = DOMAIN p /\ r.kind = p.kind /\ r.bits = p.bits
          /\ r.history = pushed \cap Bits(p.bits)
      <4>1. {"kind", "bits", "tab", "history"} \subseteq DOMAIN p
        BY <2>1 DEF Formed, IsGshare
      <4> QED
        BY <4>1, Hw6After
    <3> HIDE DEF r, pushed
    <3>3. r.history \subseteq Int /\ r.bits \in Nat /\ {"kind", "bits", "tab", "history"} \subseteq DOMAIN r
      BY <2>1, <3>2, SomeBits DEF Formed, IsGshare
    <3>4. r.kind = "hw6"
      BY <2>1, <3>2
    <3>5. Formed(r)
      BY <3>3, <3>4 DEF Formed, IsGshare
    <3> QED
      BY <3>1, <3>2, <3>5
  <2>2. CASE p.kind = "gshare"
    <3> DEFINE r == UpdateGshare(p, b)
               pushed == ShiftLeft(p.history, 1) \cup BitIf(b.taken, 0)
    <3>1. After(p, b) = r
      BY <1>2, <2>2 DEF After
    <3>2. DOMAIN r = DOMAIN p /\ r.kind = p.kind /\ r.bits = p.bits /\ r.hlen = p.hlen
          /\ r.history = pushed \cap Bits(p.hlen)
      <4>1. {"kind", "bits", "hlen", "tab", "history"} \subseteq DOMAIN p
        BY <2>2 DEF Formed, IsGshare
      <4> QED
        BY <4>1, GshareAfter
    <3> HIDE DEF r, pushed
    <3>3. /\ r.history \subseteq Int /\ r.bits \in Nat /\ r.hlen \in Nat
          /\ {"kind", "bits", "hlen", "tab", "history"} \subseteq DOMAIN r
      BY <2>2, <3>2, SomeBits DEF Formed, IsGshare
    <3>4. r.kind = "gshare"
      BY <2>2, <3>2
    <3>5. Formed(r)
      BY <3>3, <3>4 DEF Formed, IsGshare
    <3> QED
      BY <3>1, <3>2, <3>5
  <2>3. CASE p.kind \in {"bc2", "tournament"}
    <3>1. After(p, b) \in {UpdateBc2(p, b), UpdateTournament(p, b)}
      BY <1>2, <2>3 DEF After
    <3> QED
      BY <2>3, <3>1, OthersAfter DEF Formed, IsGshare
  <2> QED
    BY <2>1, <2>2, <2>3 DEF Formed
<1> QED
  BY <1>1, <1>2

LEMMA SameAfter ==
    ASSUME NEW p, NEW q, NEW b, Formed(p), Formed(q), Same(p, q)
    PROVE  Same(After(p, b), After(q, b))
<1>1. CASE ~ b.conditional
  BY <1>1 DEF After
<1>2. CASE b.conditional /\ p.kind = "hw6" /\ q.kind = "gshare"
  <2>1. After(p, b) = UpdateHw6(p, b) /\ After(q, b) = UpdateGshare(q, b)
    BY <1>2 DEF After
  <2> DEFINE r == UpdateHw6(p, b)
             t == UpdateGshare(q, b)
  <2>2. /\ r.bits = p.bits
        /\ r.tab = [p.tab EXCEPT ![Hw6Index(p, b.pc)] = Count(@, b.taken)]
        /\ r.history = (ShiftLeft(p.history, 1) \cup BitIf(b.taken, 0)) \cap Bits(p.bits)
    BY <1>2, Hw6After DEF Formed, IsGshare
  <2>3. /\ t.bits = q.bits /\ t.hlen = q.hlen
        /\ t.tab = [q.tab EXCEPT ![GshareIndex(q, b.pc)] = Count(@, b.taken)]
        /\ t.history = (ShiftLeft(q.history, 1) \cup BitIf(b.taken, 0)) \cap Bits(q.hlen)
    BY <1>2, GshareAfter DEF Formed, IsGshare
  <2> HIDE DEF r, t
  <2>4. ASSUME t.bits = r.bits, t.hlen = r.bits
        PROVE  r.tab = t.tab /\ r.history = t.history
    <3>1. p.tab = q.tab /\ p.history = q.history /\ q.bits = p.bits /\ q.hlen = p.bits
      BY <1>2, <2>2, <2>3, <2>4 DEF Same
    <3>2. q.bits - q.hlen = 0
      BY <1>2, <3>1 DEF Formed
    <3>3. ShiftLeft(q.history, 0) = q.history
      BY <1>2 DEF ShiftLeft, Formed, IsGshare
    <3>4. GshareIndex(q, b.pc) = Hw6Index(p, b.pc)
      BY <3>1, <3>2, <3>3 DEF GshareIndex, Hw6Index
    <3> QED
      BY <2>2, <2>3, <3>1, <3>4
  <2> QED
    BY <2>1, <2>4 DEF Same, r, t
<1>3. CASE ~ (p.kind = "hw6" /\ q.kind = "gshare")
  BY <1>3, FormedAfter DEF Same
<1> QED
  BY <1>1, <1>2, <1>3

-----------------------------------------------------------------------------
LEMMA InitiallySame == DriverInit => GshareInv
<1> SUFFICES ASSUME DriverInit PROVE GshareInv
  OBVIOUS
<1>1. CASE program # "tables"
  <2>1. DOMAIN predictors = {}
    BY <1>1 DEF DriverInit
  <2> QED
    BY <2>1 DEF GshareInv, SameGshare
<1>2. CASE program = "tables"
  <2>1. predictors \in LineUps
    BY <1>2 DEF DriverInit
  <2>2. ASSUME NEW i \in DOMAIN predictors PROVE Formed(predictors[i])
    BY <2>1, <2>2, LineUpsAssumption DEF Formed, IsGshare, Hw6Gshare, Gshare
  <2>3. ASSUME NEW i \in DOMAIN predictors, NEW j \in DOMAIN predictors
        PROVE  Same(predictors[i], predictors[j])
    BY <2>1, LineUpsAssumption DEF Same, Hw6Gshare, Gshare
  <2> QED
    BY <2>2, <2>3, SameGshareIs DEF GshareInv
<1> QED
  BY <1>1, <1>2

LEMMA StepSame == GshareInv /\ [DriverNext]_allVars => GshareInv'
<1> SUFFICES ASSUME GshareInv, [DriverNext]_allVars PROVE GshareInv'
  OBVIOUS
<1>1. CASE UpdateAll
  <2>1. predictors' = [i \in DOMAIN predictors |-> After(predictors[i], instr)]
    BY <1>1 DEF UpdateAll
  <2>2. \A i \in DOMAIN predictors : Formed(predictors[i])
    BY DEF GshareInv
  <2>3. \A i \in DOMAIN predictors' : Formed(predictors'[i])
    BY <2>1, <2>2, FormedAfter
  <2>4. \A i, j \in DOMAIN predictors' : Same(predictors'[i], predictors'[j])
    BY <2>1, <2>2, SameAfter, SameGshareIs DEF GshareInv
  <2>5. SameGshare'
    BY <2>4 DEF SameGshare, Same
  <2> QED
    BY <2>3, <2>5 DEF GshareInv
<1>2. CASE UNCHANGED predictors
  BY <1>2 DEF GshareInv, SameGshare
<1>3. DriverNext => UpdateAll \/ UNCHANGED predictors
  BY DEF DriverNext, ReadInstruction, PredictAll
<1>4. UNCHANGED allVars => UNCHANGED predictors
  BY DEF allVars, driverVars
<1> QED
  BY <1>1, <1>2, <1>3, <1>4

(***************************************************************************)
(* hw6's gshare and cbp2's agree after every trace, for every size, when   *)
(* the latter gets one size for the table and the history.                 *)
(***************************************************************************)
THEOREM SameGshareTheorem == DriverSpec => []SameGshare
<1>1. GshareInv => SameGshare
  BY DEF GshareInv
<1> QED
  BY <1>1, InitiallySame, StepSame, PTL DEF DriverSpec

-----------------------------------------------------------------------------
(***************************************************************************)
(* The tournament predictor and the predictors it is made of.  As long as  *)
(* its counters are between 0 and 3, the clamped step in 8-bit arithmetic  *)
(* is the step of the other predictors.                                    *)
(***************************************************************************)
LEMMA StepIsCount ==
    ASSUME NEW c \in 0 .. 3, NEW up \in BOOLEAN
    PROVE  Step(c, up) = Count(c, up) /\ Count(c, up) \in 0 .. 3
BY DEF Step, Clamp, Int8, Count

IsZeroed(p) == p.kind = "tournament" /\ p.garbage = {0}

PartsFormed(p) ==
    /\ "kind" \in DOMAIN p
    /\ p.kind = "bc2" => {"bits", "tab"} \subseteq DOMAIN p
    /\ p.kind = "tournament" =>
          {"size", "garbage", "history", "gshare", "bimodal", "chooser"} \subseteq DOMAIN p
    /\ IsZeroed(p) =>
          /\ p.size \in Nat \ {0, 1}
          /\ p.gshare \in [IndexOf(p.size - 1) -> 0 .. 3]
          /\ p.bimodal \in [IndexOf(p.size - 2) -> 0 .. 3]
          /\ p.history \subseteq Bits(p.size - 1)

Parts(p, q) ==
    IsZeroed(p) =>
        /\ q.kind = "gshare" /\ q.bits = p.size - 1 /\ q.hlen = q.bits
             => q.tab = p.gshare /\ q.history = p.history
        /\ q.kind = "bc2" /\ q.bits = p.size - 2 => q.tab = p.bimodal

PartsInv ==
    /\ \A i \in DOMAIN predictors : Formed(predictors[i]) /\ PartsFormed(predictors[i])
    /\ \A i, j \in DOMAIN predictors : Parts(predictors[i], predictors[j])
    /\ instr # NoBranch => instr.taken \in BOOLEAN

LEMMA Bc2After ==
    ASSUME NEW p, NEW b, {"kind", "bits", "tab"} \subseteq DOMAIN p
    PROVE  LET r == UpdateBc2(p, b)
           IN  /\ DOMAIN r = DOMAIN p /\ r.kind = p.kind /\ r.bits = p.bits
               /\ r.tab = [p.tab EXCEPT ![b.pc \cap Bits(p.bits)] = Count(@, b.taken)]
BY DEF UpdateBc2

LEMMA TournamentAfter ==
    ASSUME NEW p, NEW b,
           {"kind", "size", "garbage", "history", "gshare", "bimodal", "chooser"} \subseteq DOMAIN p
    PROVE  LET r == UpdateTournament(p, b)
               i == PartsIndex(p, b.pc)
           IN  /\ DOMAIN r = DOMAIN p /\ r.kind = p.kind
               /\ r.size = p.size /\ r.garbage = p.garbage
               /\ r.gshare = [p.gshare EXCEPT ![i.gshare] = Step(@, b.taken)]
               /\ r.bimodal = [p.bimodal EXCEPT ![i.bimodal] = Step(@, b.taken)]
               /\ r.history = (ShiftLeft(p.history, 1) \cup BitIf(b.taken, 0)) \cap Bits(p.size - 1)
BY DEF UpdateTournament

\* A table of such counters after a branch.
LEMMA TableAfter ==
    ASSUME NEW S, NEW f \in [S -> 0 .. 3], NEW x \in S, NEW taken \in BOOLEAN
    PROVE  /\ [f EXCEPT ![x] = Step(@, taken)] = [f EXCEPT ![x] = Count(@, taken)]
           /\ [f EXCEPT ![x] = Step(@, taken)] \in [S -> 0 .. 3]
<1>1. Step(f[x], taken) = Count(f[x], taken) /\ Count(f[x], taken) \in 0 .. 3
  BY StepIsCount
<1> QED
  BY <1>1

LEMMA PartsIndexIs ==
    ASSUME NEW p, NEW pc
    PROVE  /\ PartsIndex(p, pc).gshare = SymDiff(pc, p.history) \cap Bits(p.size - 1)
           /\ PartsIndex(p, pc).bimodal = pc \cap Bits(p.size - 2)
           /\ PartsIndex(p, pc).gshare \in IndexOf(p.size - 1)
           /\ PartsIndex(p, pc).bimodal \in IndexOf(p.size - 2)
BY DEF PartsIndex, IndexOf

LEMMA PartsFormedAfter ==
    ASSUME NEW p, NEW b, b.taken \in BOOLEAN, Formed(p), PartsFormed(p)
    PROVE  PartsFormed(After(p, b))
<1>1. CASE ~ b.conditional
  BY <1>1 DEF After
<1>2. CASE b.conditional /\ p.kind = "bc2"
  <2> DEFINE r == UpdateBc2(p, b)
  <2>1. After(p, b) = r
    BY <1>2 DEF After
  <2>2. {"kind", "bits", "tab"} \subseteq DOMAIN p
    BY <1>2 DEF PartsFormed
  <2>3. DOMAIN r = DOMAIN p /\ r.kind = p.kind
    BY <2>2, Bc2After
  <2> HIDE DEF r
  <2> QED
    BY <1>2, <2>1, <2>2, <2>3 DEF PartsFormed, IsZeroed
<1>3. CASE b.conditional /\ p.kind = "tournament"
  <2> DEFINE r == UpdateTournament(p, b)
  <2>1. /\ DOMAIN r = DOMAIN p /\ r.kind = p.kind
        /\ r.size = p.size /\ r.garbage = p.garbage
        /\ r.gshare = [p.gshare EXCEPT ![PartsIndex(p, b.pc).gshare] = Step(@, b.taken)]
        /\ r.bimodal = [p.bimodal EXCEPT ![PartsIndex(p, b.pc).bimodal] = Step(@, b.taken)]
        /\ r.history = (ShiftLeft(p.history, 1) \cup BitIf(b.taken, 0)) \cap Bits(p.size - 1)
    BY <1>3, TournamentAfter DEF PartsFormed
  <2>2. After(p, b) = r
    BY <1>3 DEF After
  <2> HIDE DEF r
  <2>3. IsZeroed(p) => /\ r.gshare \in [IndexOf(p.size - 1) -> 0 .. 3]
                       /\ r.bimodal \in [IndexOf(p.size - 2) -> 0 .. 3]
    <3> SUFFICES ASSUME IsZeroed(p)
                 PROVE  /\ r.gshare \in [IndexOf(p.size - 1) -> 0 .. 3]
                        /\ r.bimodal \in [IndexOf(p.size - 2) -> 0 .. 3]
      OBVIOUS
    <3>1. /\ p.gshare \in [IndexOf(p.size - 1) -> 0 .. 3]
          /\ p.bimodal \in [IndexOf(p.size - 2) -> 0 .. 3]
      BY DEF PartsFormed
    <3>2. [p.gshare EXCEPT ![PartsIndex(p, b.pc).gshare] = Step(@, b.taken)]
            \in [IndexOf(p.size - 1) -> 0 .. 3]
      BY <3>1, PartsIndexIs, TableAfter
    <3>3. [p.bimodal EXCEPT ![PartsIndex(p, b.pc).bimodal] = Step(@, b.taken)]
            \in [IndexOf(p.size - 2) -> 0 .. 3]
      BY <3>1, PartsIndexIs, TableAfter
    <3> QED
      BY <2>1, <3>2, <3>3
  <2>4. r.history \subseteq Bits(p.size - 1)
    BY <2>1
  <2> QED
    BY <1>3, <2>1, <2>2, <2>3, <2>4 DEF PartsFormed, IsZeroed
<1>4. CASE IsGshare(p)
  <2>1. After(p, b).kind \in {"hw6", "gshare"} /\ "kind" \in DOMAIN After(p, b)
    BY <1>4, FormedAfter DEF Formed, IsGshare
  <2> QED
    BY <2>1 DEF PartsFormed, IsZeroed
<1> QED
  BY <1>1, <1>2, <1>3, <1>4 DEF Formed, IsGshare

LEMMA PartsAfter ==
    ASSUME NEW p, NEW q, NEW b, b.taken \in BOOLEAN, Formed(p), Formed(q),
           PartsFormed(p), PartsFormed(q), Parts(p, q)
    PROVE  Parts(After(p, b), After(q, b))
<1>1. CASE ~ b.conditional
  BY <1>1 DEF After
<1>2. CASE b.conditional
  <2> DEFINE r == After(p, b)
             t == After(q, b)
  <2>1. r.kind = p.kind /\ t.kind = q.kind
    BY FormedAfter
  <2> HIDE DEF r, t
  <2>2. SUFFICES ASSUME IsZeroed(r)
                 PROVE  /\ t.kind = "gshare" /\ t.bits = r.size - 1 /\ t.hlen = t.bits
                             => t.tab = r.gshare /\ t.history = r.history
                        /\ t.kind = "bc2" /\ t.bits = r.size - 2 => t.tab = r.bimodal
    BY DEF Parts, r, t
  <2>3. p.kind = "tournament"
    BY <2>1, <2>2 DEF IsZeroed
  <2>4. r = UpdateTournament(p, b)
    BY <1>2, <2>3 DEF After, r
  <2>5. /\ r.size = p.size /\ r.garbage = p.garbage
        /\ r.gshare = [p.gshare EXCEPT ![PartsIndex(p, b.pc).gshare] = Step(@, b.taken)]
        /\ r.bimodal = [p.bimodal EXCEPT ![PartsIndex(p, b.pc).bimodal] = Step(@, b.taken)]
        /\ r.history = (ShiftLeft(p.history, 1) \cup BitIf(b.taken, 0)) \cap Bits(p.size - 1)
    BY <2>3, <2>4, TournamentAfter DEF PartsFormed
  <2>6. IsZeroed(p)
    BY <2>2, <2>3, <2>5 DEF IsZeroed
  <2>7. /\ r.gshare = [p.gshare EXCEPT ![PartsIndex(p, b.pc).gshare] = Count(@, b.taken)]
        /\ r.bimodal = [p.bimodal EXCEPT ![PartsIndex(p, b.pc).bimodal] = Count(@, b.taken)]
    <3>1. /\ p.gshare \in [IndexOf(p.size - 1) -> 0 .. 3]
          /\ p.bimodal \in [IndexOf(p.size - 2) -> 0 .. 3]
      BY <2>6 DEF PartsFormed
    <3> DEFINE g == PartsIndex(p, b.pc).gshare
               m == PartsIndex(p, b.pc).bimodal
    <3>2. g \in IndexOf(p.size - 1) /\ m \in IndexOf(p.size - 2)
      BY PartsIndexIs
    <3> HIDE DEF g, m
    <3>3. [p.gshare EXCEPT ![g] = Step(@, b.taken)] = [p.gshare EXCEPT ![g] = Count(@, b.taken)]
      BY <3>1, <3>2, TableAfter
    <3>4. [p.bimodal EXCEPT ![m] = Step(@, b.taken)] = [p.bimodal EXCEPT ![m] = Count(@, b.taken)]
      BY <3>1, <3>2, TableAfter
    <3> QED
      BY <2>5, <3>3, <3>4 DEF g, m
  <2>8. ASSUME t.kind = "gshare", t.bits = r.size - 1, t.hlen = t.bits
        PROVE  t.tab = r.gshare /\ t.history = r.history
    <3>1. t = UpdateGshare(q, b) /\ q.kind = "gshare"
      BY <1>2, <2>1, <2>8 DEF After, t
    <3>2. /\ t.bits = q.bits /\ t.hlen = q.hlen
          /\ t.tab = [q.tab EXCEPT ![GshareIndex(q, b.pc)] = Count(@, b.taken)]
          /\ t.history = (ShiftLeft(q.history, 1) \cup BitIf(b.taken, 0)) \cap Bits(q.hlen)
      BY <3>1, GshareAfter DEF Formed, IsGshare
    <3>3. /\ q.bits = p.size - 1 /\ q.hlen = q.bits
          /\ q.tab = p.gshare /\ q.history = p.history
      BY <2>5, <2>6, <2>8, <3>1, <3>2 DEF Parts
    <3>4. ShiftLeft(q.history, q.bits - q.hlen) = q.history
      <4>1. q.bits - q.hlen = 0 /\ q.history \subseteq Int
        BY <3>1, <3>3 DEF Formed, IsGshare
      <4> QED
        BY <4>1 DEF ShiftLeft
    <3>5. GshareIndex(q, b.pc) = PartsIndex(p, b.pc).gshare
      <4>1. p.history \subseteq Bits(p.size - 1)
        BY <2>6 DEF PartsFormed
      <4>2. GshareIndex(q, b.pc) = SymDiff(p.history, b.pc \cap Bits(p.size - 1))
        BY <3>3, <3>4 DEF GshareIndex
      <4>3. SymDiff(p.history, b.pc \cap Bits(p.size - 1))
              = SymDiff(b.pc, p.history) \cap Bits(p.size - 1)
        BY <4>1 DEF SymDiff
      <4> QED
        BY <4>2, <4>3, PartsIndexIs
    <3> QED
      BY <2>5, <2>7, <3>2, <3>3, <3>5
  <2>9. ASSUME t.kind = "bc2", t.bits = r.size - 2 PROVE t.tab = r.bimodal
    <3>1. t = UpdateBc2(q, b) /\ q.kind = "bc2"
      BY <1>2, <2>1, <2>9 DEF After, t
    <3>2. /\ t.bits = q.bits
          /\ t.tab = [q.tab EXCEPT ![b.pc \cap Bits(q.bits)] = Count(@, b.taken)]
      <4>1. {"kind", "bits", "tab"} \subseteq DOMAIN q
        BY <3>1 DEF PartsFormed
      <4> QED
        BY <3>1, <4>1, Bc2After
    <3>3. q.bits = p.size - 2 /\ q.tab = p.bimodal
      BY <2>5, <2>6, <2>9, <3>1, <3>2 DEF Parts
    <3>4. b.pc \cap Bits(q.bits) = PartsIndex(p, b.pc).bimodal
      BY <3>3, PartsIndexIs
    <3> QED
      BY <2>7, <3>2, <3>3, <3>4
  <2> QED
    BY <2>8, <2>9
<1> QED
  BY <1>1, <1>2

LEMMA InitiallyParts == DriverInit => PartsInv
<1> SUFFICES ASSUME DriverInit PROVE PartsInv
  OBVIOUS
<1>1. instr = NoBranch /\ \A i \in DOMAIN predictors : Formed(predictors[i])
  BY InitiallySame DEF GshareInv, DriverInit
<1>2. CASE program # "tables"
  <2>1. DOMAIN predictors = {}
    BY <1>2 DEF DriverInit
  <2> QED
    BY <1>1, <2>1 DEF PartsInv
<1>3. CASE program = "tables"
  <2>1. predictors \in LineUps
    BY <1>3 DEF DriverInit
  <2>2. ASSUME NEW i \in DOMAIN predictors, predictors[i].kind = "tournament"
        PROVE  LET p == predictors[i]
               IN  /\ p.size \in Nat \ {0, 1} /\ p \in Tournament(p.size, p.garbage)
                   /\ {"size", "garbage", "history", "gshare", "bimodal", "chooser"} \subseteq DOMAIN p
                   /\ p.history = {}
                   /\ p.gshare \in [IndexOf(p.size - 1) -> p.garbage]
                   /\ p.bimodal \in [IndexOf(p.size - 2) -> p.garbage]
    <3> DEFINE p == predictors[i]
    <3>1. p.size \in Nat \ {0, 1} /\ p \in Tournament(p.size, p.garbage)
      BY <2>1, <2>2, LineUpsAssumption
    <3> HIDE DEF p
    <3>2. /\ {"size", "garbage", "history", "gshare", "bimodal", "chooser"} \subseteq DOMAIN p
          /\ p.history = {}
          /\ p.gshare \in [IndexOf(p.size - 1) -> p.garbage]
          /\ p.bimodal \in [IndexOf(p.size - 2) -> p.garbage]
      BY <3>1 DEF Tournament
    <3> QED
      BY <3>1, <3>2 DEF p
  <2>3. \A S, f : f \in [S -> {0}] => f \in [S -> 0 .. 3] /\ f = [x \in S |-> 0]
    OBVIOUS
  <2>4. ASSUME NEW i \in DOMAIN predictors, predictors[i].kind = "bc2"
        PROVE  /\ predictors[i] = Bc2(predictors[i].bits)
               /\ {"bits", "tab"} \subseteq DOMAIN predictors[i]
               /\ predictors[i].tab = Zeroed(predictors[i].bits)
    <3>1. predictors[i] = Bc2(predictors[i].bits)
      BY <2>1, <2>4, LineUpsAssumption
    <3> QED
      BY <3>1 DEF Bc2
  <2>5. ASSUME NEW i \in DOMAIN predictors, predictors[i].kind = "gshare"
        PROVE  /\ predictors[i].tab = Zeroed(predictors[i].bits)
               /\ predictors[i].history = {}
    <3>1. predictors[i] = Gshare(predictors[i].hlen, predictors[i].bits)
      BY <2>1, <2>5, LineUpsAssumption
    <3> QED
      BY <3>1 DEF Gshare
  <2>6. ASSUME NEW i \in DOMAIN predictors PROVE PartsFormed(predictors[i])
    BY <1>1, <2>2, <2>3, <2>4 DEF PartsFormed, IsZeroed, Formed
  <2>7. ASSUME NEW i \in DOMAIN predictors, NEW j \in DOMAIN predictors
        PROVE  Parts(predictors[i], predictors[j])
    <3> SUFFICES ASSUME IsZeroed(predictors[i]) PROVE Parts(predictors[i], predictors[j])
      BY DEF Parts
    <3>1. /\ predictors[i].gshare = Zeroed(predictors[i].size - 1)
          /\ predictors[i].bimodal = Zeroed(predictors[i].size - 2)
          /\ predictors[i].history = {}
      BY <2>2, <2>3 DEF IsZeroed, Zeroed
    <3> QED
      BY <2>4, <2>5, <3>1 DEF Parts
  <2> QED
    BY <1>1, <2>6, <2>7 DEF PartsInv
<1> QED
  BY <1>2, <1>3

LEMMA StepParts == PartsInv /\ [DriverNext]_allVars => PartsInv'
<1> SUFFICES ASSUME PartsInv, [DriverNext]_allVars PROVE PartsInv'
  OBVIOUS
<1>1. CASE UpdateAll
  <2>1. /\ predictors' = [i \in DOMAIN predictors |-> After(predictors[i], instr)]
        /\ instr' = NoBranch /\ instr.taken \in BOOLEAN
    BY <1>1 DEF UpdateAll, PartsInv
  <2>2. \A i \in DOMAIN predictors' : Formed(predictors'[i]) /\ PartsFormed(predictors'[i])
    BY <2>1, FormedAfter, PartsFormedAfter DEF PartsInv
  <2>3. \A i, j \in DOMAIN predictors' : Parts(predictors'[i], predictors'[j])
    BY <2>1, PartsAfter DEF PartsInv
  <2> QED
    BY <2>1, <2>2, <2>3 DEF PartsInv
<1>2. ASSUME NEW b \in Branch(PCs), ReadInstruction(b) PROVE PartsInv'
  <2>1. predictors' = predictors /\ instr' = b /\ b.taken \in BOOLEAN
    BY <1>2 DEF ReadInstruction, PredictAll, Branch
  <2> QED
    BY <2>1 DEF PartsInv
<1>3. CASE UNCHANGED allVars
  BY <1>3 DEF PartsInv, allVars, driverVars
<1> QED
  BY <1>1, <1>2, <1>3 DEF DriverNext

(***************************************************************************)
(* A tournament predictor that finds its memory zeroed consists of a       *)
(* gshare and a bimodal predictor after every trace, for every size.       *)
(***************************************************************************)
THEOREM TournamentPartsTheorem == DriverSpec => []TournamentParts
<1>1. PartsInv => TournamentParts
  BY DEF PartsInv, Parts, IsZeroed, TournamentParts
<1> QED
  BY <1>1, InitiallyParts, StepParts, PTL DEF DriverSpec

-----------------------------------------------------------------------------
(***************************************************************************)
(* The histories of the GEHL predictor: the folds of all its tables follow *)
(* from the global history, as that of the one table of FoldedHistory.     *)
(***************************************************************************)

\* Every table but the first looks at fewer branches than the bitset holds.
LengthsFit == \A i \in Table \ {0} : HistLen[i] \in 0 .. HistSize - 1

HistoriesInv ==
    /\ instr = NoBranch \/ instr \in Branch(PCs)
    /\ ghist \in SUBSET Bits(HistSize)
    /\ HistoriesAgree

LEMMA InitiallyAgree == DriverInit => HistoriesInv
BY EmptyFold DEF DriverInit, Init, HistoriesInv, HistoriesAgree

LEMMA EnterHistoryAgrees ==
    ASSUME LengthsFit, ghist \in SUBSET Bits(HistSize), HistoriesAgree,
           NEW taken \in BOOLEAN, EnterHistory(taken)
    PROVE  ghist' \in SUBSET Bits(HistSize) /\ HistoriesAgree'
<1>1. ghist' = Push(ghist, taken)
  BY DEF EnterHistory
<1>2. PICK beyond \in [{i \in Table \ {0} : HistLen[i] >= HistSize} -> BOOLEAN] :
        ziphist' = [i \in Table \ {0} |->
           Compress(ziphist[i], ghist', HistLen[i], ShiftOf(i, IdxBits),
                    LastDest(i, IdxBits, HistLen[i]), IdxBits,
                    i \in DOMAIN beyond /\ beyond[i])]
  BY Zenon DEF EnterHistory
<1>3. IdxBits \in Nat \ {0} /\ HistSize \in Nat /\ Table \subseteq Nat
  BY GehlAssumption, HistSizeAssumption DEF Table
<1>4. ASSUME NEW i \in Table \ {0}
      PROVE  ziphist'[i] = FoldOf(ghist', HistLen[i], ShiftOf(i, IdxBits), IdxBits)
  <2> DEFINE len == HistLen[i]
             shift == ShiftOf(i, IdxBits)
             dest == LastDest(i, IdxBits, len)
             old == i \in DOMAIN beyond /\ beyond[i]
  <2>1. len \in Nat /\ len < HistSize
    BY <1>3 DEF LengthsFit
  <2>2. shift \in 0 .. IdxBits - 1 /\ dest \in 0 .. IdxBits - 1
        /\ dest = Position(len, shift, IdxBits)
    BY <1>3, <2>1, ShiftIsPrime, DestInRange
  <2>3. old \in BOOLEAN
    OBVIOUS
  <2>4. ziphist'[i] = Compress(ziphist[i], Push(ghist, taken), len, shift, dest, IdxBits, old)
    BY <1>1, <1>2
  <2>5. ziphist[i] = FoldOf(ghist, len, shift, IdxBits)
    BY DEF HistoriesAgree
  <2> HIDE DEF len, shift, dest, old
  <2>6. Compress(FoldOf(ghist, len, shift, IdxBits), Push(ghist, taken), len, shift, dest,
                 IdxBits, old)
          = FoldOf(Push(ghist, taken), len, shift, IdxBits)
    BY <1>3, <2>1, <2>2, <2>3, CompressFolds
  <2>7. ziphist'[i] = FoldOf(ghist', len, shift, IdxBits)
    BY <1>1, <2>4, <2>5, <2>6
  <2> QED BY <2>7 DEF len, shift
<1>5. Push(ghist, taken) \in SUBSET Bits(HistSize)
  BY PushIs
<1> QED BY <1>1, <1>4, <1>5 DEF HistoriesAgree

LEMMA StepAgrees == LengthsFit /\ HistoriesInv /\ [DriverNext]_allVars => HistoriesInv'
<1> SUFFICES ASSUME LengthsFit, HistoriesInv, [DriverNext]_allVars PROVE HistoriesInv'
  OBVIOUS
<1>1. ghist' = ghist /\ ziphist' = ziphist => HistoriesAgree'
  BY DEF HistoriesInv, HistoriesAgree
<1>2. ASSUME NEW b \in Branch(PCs), ReadInstruction(b) PROVE HistoriesInv'
  <2>1. instr' = b /\ ghist' = ghist /\ ziphist' = ziphist
    BY <1>2 DEF ReadInstruction, PredictAll, Predict, PredictUnconditional, vars
  <2> QED BY <1>1, <2>1 DEF HistoriesInv
<1>3. CASE UpdateAll
  <2>1. instr' = NoBranch /\ instr.taken \in BOOLEAN
    BY <1>3 DEF UpdateAll, HistoriesInv, Branch
  <2>2. CASE program = "gehl"
    <3>1. \E taken \in BOOLEAN : EnterHistory(taken)
      BY <1>3, <2>1, <2>2 DEF UpdateAll, Update, UpdateUnconditional
    <3> QED BY <2>1, <3>1, EnterHistoryAgrees DEF HistoriesInv
  <2>3. CASE program # "gehl"
    <3>1. ghist' = ghist /\ ziphist' = ziphist
      BY <1>3, <2>3 DEF UpdateAll, vars
    <3> QED BY <1>1, <2>1, <3>1 DEF HistoriesInv
  <2> QED BY <2>2, <2>3
<1>4. CASE UNCHANGED allVars
  <2>1. instr' = instr /\ ghist' = ghist /\ ziphist' = ziphist
    BY <1>4 DEF allVars, driverVars, vars
  <2> QED BY <1>1, <2>1 DEF HistoriesInv
<1> QED BY <1>2, <1>3, <1>4 DEF DriverNext

(***************************************************************************)
(* The folded history of every table of a GEHL predictor is, after every   *)
(* trace, that of the last branches of the global history, as many as its  *)
(* length: the two histories that gehl.h keeps apart, m_ghist and          *)
(* m_ziphist, never disagree (gehl.h 50-56, 292-307).                      *)
(***************************************************************************)
THEOREM HistoriesAgreeTheorem == LengthsFit /\ DriverSpec => []HistoriesAgree
<1> SUFFICES ASSUME LengthsFit PROVE DriverSpec => []HistoriesAgree
  OBVIOUS
<1>1. HistoriesInv /\ [DriverNext]_allVars => HistoriesInv'
  BY StepAgrees
<1>2. HistoriesInv => HistoriesAgree
  BY DEF HistoriesInv
<1> QED BY InitiallyAgree, <1>1, <1>2, PTL DEF DriverSpec

=============================================================================

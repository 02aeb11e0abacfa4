----------------------------- MODULE Predictors -----------------------------
(***************************************************************************)
(* The predictors that consist of tables of two-bit counters: gshare.h,    *)
(* bc2.h and tournament.cxx of cbp2/src, and gshare.h of hw6.  A predictor *)
(* is a record, told apart by its kind; Direction is what its predict()    *)
(* answers for a branch and After what predict() and update() make of it.  *)
(*                                                                         *)
(* A branch is what extract_trace() passes on: its address, whether it is  *)
(* conditional, and whether it was taken.                                  *)
(***************************************************************************)
EXTENDS BitVectors, Sequences

Branch(pcs) == [pc : pcs, conditional : BOOLEAN, taken : BOOLEAN]

IndexOf(bits) == SUBSET Bits(bits)
Zeroed(bits) == [x \in IndexOf(bits) |-> 0]

\* A two-bit counter after a branch, and the direction it stands for.
Count(c, taken) == IF taken THEN (IF c < 3 THEN c + 1 ELSE c)
                            ELSE (IF c > 0 THEN c - 1 ELSE c)
Yes(c) == c >= 2

(***************************************************************************)
(* cbp2/src/gshare.h: 2^bits counters, a history of hlen <= bits branches. *)
(***************************************************************************)
Gshare(hlen, bits) == [kind |-> "gshare", hlen |-> hlen, bits |-> bits,
                       tab |-> Zeroed(bits), history |-> {}]

GshareIndex(p, pc) == SymDiff(ShiftLeft(p.history, p.bits - p.hlen), pc \cap Bits(p.bits))

\* Mutant: the history moves before the counter is looked up.
UpdateGshareLate(p, b) ==
    LET moved == [p EXCEPT !.history =
                    (ShiftLeft(@, 1) \cup BitIf(b.taken, 0)) \cap Bits(p.hlen)]
    IN  [moved EXCEPT !.tab[GshareIndex(moved, b.pc)] = Count(@, b.taken)]
UpdateGshare(p, b) ==
    [p EXCEPT !.tab[GshareIndex(p, b.pc)] = Count(@, b.taken),
              !.history = (ShiftLeft(@, 1) \cup BitIf(b.taken, 0)) \cap Bits(p.hlen)]

(***************************************************************************)
(* hw6/gshare.h, the same with one constant for both sizes.                *)
(***************************************************************************)
Hw6Gshare(bits) == [kind |-> "hw6", bits |-> bits, tab |-> Zeroed(bits), history |-> {}]

Hw6Index(p, pc) == SymDiff(p.history, pc \cap Bits(p.bits))

UpdateHw6(p, b) ==
    [p EXCEPT !.tab[Hw6Index(p, b.pc)] = Count(@, b.taken),
              !.history = (ShiftLeft(@, 1) \cup BitIf(b.taken, 0)) \cap Bits(p.bits)]

(***************************************************************************)
(* cbp2/src/bc2.h: counters without a history.                             *)
(***************************************************************************)
Bc2(bits) == [kind |-> "bc2", bits |-> bits, tab |-> Zeroed(bits)]

UpdateBc2(p, b) == [p EXCEPT !.tab[b.pc \cap Bits(p.bits)] = Count(@, b.taken)]

(***************************************************************************)
(* cbp2/src/tournament.cxx: a gshare and a bimodal table, and a table that *)
(* chooses between them.  table_init() leaves the counters as they are in  *)
(* the allocated memory: any value of garbage, a set of 8-bit integers.    *)
(***************************************************************************)
Tournament(size, garbage) ==
    [kind : {"tournament"}, size : {size}, garbage : {garbage}, history : {{}},
     gshare : [IndexOf(size - 1) -> garbage],
     bimodal : [IndexOf(size - 2) -> garbage],
     chooser : [IndexOf(size - 2) -> garbage]]

Int8(v) == ((v + 128) % 256) - 128
Clamp(v) == IF v < 0 THEN 0 ELSE IF v > 3 THEN 3 ELSE v

\* Mutant: the counter is not clamped from above.
StepUnclamped(c, up) ==
    LET v == Int8(c + (IF up THEN 1 ELSE -1)) IN IF v < 0 THEN 0 ELSE v
Step(c, up) == Clamp(Int8(c + (IF up THEN 1 ELSE -1)))

PartsIndex(p, pc) ==
    [gshare |-> SymDiff(pc, p.history) \cap Bits(p.size - 1),
     bimodal |-> pc \cap Bits(p.size - 2), chooser |-> pc \cap Bits(p.size - 2)]

\* The directions of the two components.
SaysGshare(p, pc) == Yes(p.gshare[PartsIndex(p, pc).gshare])
SaysBimodal(p, pc) == Yes(p.bimodal[PartsIndex(p, pc).bimodal])
Chosen(p, pc) == IF Yes(p.chooser[PartsIndex(p, pc).chooser])
                 THEN SaysGshare(p, pc) ELSE SaysBimodal(p, pc)

\* predict() trains the tables at once; update() does nothing.
UpdateTournament(p, b) ==
    LET i == PartsIndex(p, b.pc)
    IN  [p EXCEPT !.gshare[i.gshare] = Step(@, b.taken),
                  !.history = (ShiftLeft(@, 1) \cup BitIf(b.taken, 0)) \cap Bits(p.size - 1),
                  !.bimodal[i.bimodal] = Step(@, b.taken),
                  !.chooser[i.chooser] = IF SaysGshare(p, b.pc) # SaysBimodal(p, b.pc)
                                         THEN Step(@, b.taken = SaysGshare(p, b.pc)) ELSE @]

(***************************************************************************)
(* The interface branch_predictor.  A branch that is not conditional is    *)
(* not looked up and changes nothing (hw6 does not pass it on), and nobody *)
(* reads the answer.                                                       *)
(***************************************************************************)
Direction(p, b) ==
    IF ~ b.conditional THEN TRUE
    ELSE CASE p.kind = "gshare" -> Yes(p.tab[GshareIndex(p, b.pc)])
           [] p.kind = "hw6" -> Yes(p.tab[Hw6Index(p, b.pc)])
           [] p.kind = "bc2" -> Yes(p.tab[b.pc \cap Bits(p.bits)])
           [] p.kind = "tournament" -> Chosen(p, b.pc)

After(p, b) ==
    IF ~ b.conditional THEN p
    ELSE CASE p.kind = "gshare" -> UpdateGshare(p, b)
           [] p.kind = "hw6" -> UpdateHw6(p, b)
           [] p.kind = "bc2" -> UpdateBc2(p, b)
           [] p.kind = "tournament" -> UpdateTournament(p, b)

=============================================================================

---------------------------- MODULE FoldedHistory ----------------------------
(***************************************************************************)
(* The folded branch history of one table: class my_folded_history of      *)
(* cbp2/src/gehl.h, and the part of class Table of cbp2/src/ogehl.hpp that *)
(* takes its place there.  A table of ogehl.hpp has two history lengths    *)
(* and may be told to use the other one (useLong); one of gehl.h has equal *)
(* lengths.                                                                *)
(***************************************************************************)
EXTENDS Folding

CONSTANT Geometries   \* the tables looked at: number, index bits and lengths

Geometry == [table : Nat, n : Nat \ {0}, short : Nat, long : Nat]
ASSUME GeometriesAssumption == Geometries \subseteq Geometry

VARIABLES
    geometry,   \* the table's constructor arguments
    useLong,    \* _use_long_hist
    history,    \* the global branch history, bit 0 the youngest
    comp,       \* comp, _cbranch_hist
    settled     \* branches since the length changed last, up to HistSize

foldVars == <<geometry, useLong, history, comp, settled>>

HistBits == IF useLong THEN geometry.long ELSE geometry.short
Shift == ShiftOf(geometry.table, geometry.n)
Dest == LastDest(geometry.table, geometry.n, geometry.short)

FoldInit ==
    /\ geometry \in Geometries
    /\ useLong = FALSE
    /\ history = {} /\ comp = {}
    /\ settled = 0

\* A branch enters the global history and the history of the table follows.
EnterBranch(taken) ==
    /\ history' = Push(history, taken)
    /\ \E beyond \in (IF HistBits < HistSize THEN {FALSE} ELSE BOOLEAN) :
           comp' = Compress(comp, history', HistBits, Shift, Dest, geometry.n, beyond)
    /\ settled' = IF settled < HistSize THEN settled + 1 ELSE settled
    /\ UNCHANGED <<geometry, useLong>>

\* _dynamicHistoryFit() selects the other length, in every table, whether it
\* has an additional length or not.
Switch ==
    /\ useLong' = ~useLong
    /\ settled' = 0
    /\ UNCHANGED <<geometry, history, comp>>

FoldNext == (\E taken \in BOOLEAN : EnterBranch(taken)) \/ Switch
FoldSpec == FoldInit /\ [][FoldNext]_foldVars

(***************************************************************************)
(* The fold, which is updated from the youngest and the oldest direction   *)
(* only, is the fold of exactly the last HistBits directions: nothing      *)
(* older stays in the index (compress(), ogehl.hpp 181-195, and            *)
(* my_folded_history::update(), gehl.h 50-56).                             *)
(***************************************************************************)
FoldExact == comp = FoldOf(history, HistBits, Shift, geometry.n)

(***************************************************************************)
(* Two directions that are less than n branches apart never meet in the    *)
(* fold: the shift chosen by the constructors is prime with n (ogehl.hpp   *)
(* 67-73, gehl.h 37-46), so that each of the last n branches has a         *)
(* position of its own.                                                    *)
(***************************************************************************)
RecentKeptApart ==
    \A j, k \in Bits(geometry.n) :
        (j # k /\ j < HistBits /\ k < HistBits)
            => FoldOf(SymDiff(history, {j}), HistBits, Shift, geometry.n)
                 # FoldOf(SymDiff(history, {k}), HistBits, Shift, geometry.n)

(***************************************************************************)
(* Once as many branches have passed since the last change of the length   *)
(* as the history holds, the fold is that of the length in use.            *)
(***************************************************************************)
ExactOnceSettled == settled = HistSize => FoldExact

=============================================================================

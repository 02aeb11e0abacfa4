----------------------------- MODULE TraceTable -----------------------------
(***************************************************************************)
(* The predictor that the trace compression of CBP-2 is built from: a set  *)
(* associative table of branch records and a return address stack, as they *)
(* are kept by the reader in cbp2/src/trace.cc and, once more, by both     *)
(* directions of the engine in cbp2/src/compress/trace.cc.                 *)
(***************************************************************************)
EXTENDS Integers, Sequences

CONSTANTS
    NRemember,   \* N_REMEMBER, 65536 in the program: the sets of the table
    Assoc,       \* ASSOC, 8 in the program: the ways of a set
    RasSize,     \* RAS_SIZE, 100 in the program
    Word         \* the range of an unsigned int, 2^32 in the program

Address == 0 .. Word - 1
Way == 0 .. Assoc - 1

\* The code of a record: its high four bits are the class, 1 to 7.
Code == 16 .. 127
Call == 5
IndirectCall == 6
Return == 112
ClassOf(c) == c \div 16

ASSUME TableAssumption ==
    /\ NRemember \in Nat \ {0} /\ RasSize \in Nat
    /\ Word \in Nat /\ Word > 3
    /\ Assoc \in 1 .. 8

\* A branch of the trace.  That it is taken follows from its code.
Branch == [code : Code, address : Address, target : Address]

\* An entry of the table; one that was never used has code 0.
Entry == [code : Code \cup {0}, address : Address, target : Address,
          lruTime : Address]
Blank == [code |-> 0, address |-> 0, target |-> 0, lruTime |-> 0]

(***************************************************************************)
(* The static variables of one process: rtab, now, ras (top first) and of  *)
(* last_one the only field that is read, its target.                       *)
(***************************************************************************)
State == [rtab : [0 .. NRemember - 1 -> [Way -> Entry]], now : Address,
          ras : Seq(Address), lastTarget : Address]

EmptyTable == [n \in 0 .. NRemember - 1 |-> [w \in Way |-> Blank]]
Start == [rtab |-> EmptyTable, now |-> 0, ras |-> <<>>, lastTarget |-> 0]

\* init_trace(): what the next file of the command line starts from.
InitTrace(s) == [s EXCEPT !.rtab = EmptyTable, !.now = 0, !.ras = <<>>]

(***************************************************************************)
(* The return address stack: a push on a full one is dropped, a pop from   *)
(* an empty one yields 0.                                                  *)
(***************************************************************************)
\* Mutant: a push on a full stack is not dropped.
PushRasUnbounded(ras, a) == <<a>> \o ras

PushRas(ras, a) == IF Len(ras) < RasSize THEN <<a>> \o ras ELSE ras
PopRas(ras) == IF ras = <<>> THEN ras ELSE Tail(ras)
TopRas(ras) == IF ras = <<>> THEN 0 ELSE Head(ras)

\* The switch at the end of read_trace(): a call pushes its return address.
AfterClass(s, r) ==
    [s EXCEPT !.ras = CASE ClassOf(r.code) = Call -> PushRas(s.ras, (r.address + 5) % Word)
                        [] ClassOf(r.code) = IndirectCall -> PushRas(s.ras, (r.address + 2) % Word)
                        [] OTHER -> s.ras]

(***************************************************************************)
(* The table.  The target of the last branch selects the set.              *)
(***************************************************************************)
PredictRemember(s) == s.lastTarget % NRemember
PredictedSet(s) == s.rtab[PredictRemember(s)]

Equal(e, r, ignoreTarget) ==
    e.code = r.code /\ e.address = r.address /\ (ignoreTarget \/ e.target = r.target)

\* The first of the ways with the least time.
LeastRecentlyUsed(ways) ==
    CHOOSE w \in Way : \A v \in Way : /\ ways[w].lruTime <= ways[v].lruTime
                                      /\ v < w => ways[w].lruTime < ways[v].lruTime

\* update_remember() stores the entry e, with the present time, at way w.
Store(s, w, e, target) ==
    [s EXCEPT !.rtab[PredictRemember(s)][w] = [e EXCEPT !.lruTime = s.now],
              !.now = (s.now + 1) % Word,
              !.lastTarget = target]

\* Mutant: a record found in the table does not get the present time.
UpdateFoundKeepingTime(s, w, r) == [s EXCEPT !.now = (s.now + 1) % Word, !.lastTarget = r.target]

UpdateFound(s, w, r) == Store(s, w, PredictedSet(s)[w], r.target)

UpdateMissed(s, r) ==
    Store(s, LeastRecentlyUsed(PredictedSet(s)),
          [code |-> r.code, address |-> r.address, target |-> r.target, lruTime |-> 0],
          r.target)
=============================================================================

------------------------------ MODULE MCSeznec ------------------------------
(***************************************************************************)
(* Every run of a few instructions in user and kernel mode, every longer   *)
(* run of instructions that are not conditional branches, for the history, *)
(* and every still longer run of one conditional branch, for the tables.   *)
(* One long run of two branches is given, in which useful entries are      *)
(* replaced and the loop predictor decides against the others.  The buffer *)
(* is moved after every second entry.                                      *)
(***************************************************************************)
EXTENDS Seznec

CONSTANTS MaxMixed, MaxOther, MaxAlone

MCM == <<1, 2, 4>>
MCGehlRaw == <<1, 1>>
MCMeta == <<2, 3>>
MCFast == -2 .. 1
Branch == {0}
Kernel == {1}
MCPCs == {{}, Branch, Kernel}
MCStatic == {Branch}
\* WORTHHYBRID may start within its seven bits or at either end of its int8_t.
MCGarbage == {[mode |-> FALSE, worth |-> w, tag |-> {}] : w \in {-128, 0, 127}}
               \cup {[mode |-> TRUE, worth |-> -5, tag |-> {1}]}

A(taken) == [pc |-> Branch, conditional |-> TRUE, taken |-> taken]
B(taken) == [pc |-> {}, conditional |-> TRUE, taken |-> taken]
Script ==
    LET T == TRUE
        F == FALSE
    IN  <<A(F), B(T), A(F), A(T), B(F), A(F), B(T), A(F), A(T), A(F), B(T), A(F), A(T), B(F),
          A(F), B(T), A(F), A(T), B(F), A(F), A(F), A(T), A(F), A(F), B(T), B(F), A(T), A(F)>>
FollowsScript ==
    LET n == Len(trace) IN
    /\ n < Len(Script) /\ trace = SubSeq(Script, 1, n)
    /\ pending.kind = "C" => pending.pc = Script[n + 1].pc
    /\ pending.kind # "other"

Bounded ==
    \/ Len(trace) < MaxMixed
    \/ /\ \A k \in DOMAIN trace : ~ trace[k].conditional
       /\ Len(trace) < MaxOther
       /\ pending.kind # "C"
    \/ /\ \A k \in DOMAIN trace : trace[k].conditional /\ trace[k].pc = Branch
       /\ Len(trace) < MaxAlone
       /\ pending.kind = "C" => pending.pc = Branch
    \/ FollowsScript

=============================================================================

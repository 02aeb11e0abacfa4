---------------------------- MODULE MCTraceCodec ----------------------------
(***************************************************************************)
(* TraceCodec for TLC.  A direct and an indirect call that return to the   *)
(* same address, returns to it, two behind it, three before it and         *)
(* elsewhere, and conditional branches that reach both sets of the table.  *)
(* A trace is made of the former, with counts or without, or of the        *)
(* latter, which the bound OneKind says.                                   *)
(***************************************************************************)
EXTENDS TraceCodec

B(c, a, t) == [code |-> c, address |-> a, target |-> t]

CallHere == B(80, 10, 20)
CallThere == B(96, 13, 21)
Returns == {B(112, 30, t) : t \in {15, 17, 12, 40}}
Taken == B(20, 20, 10)
NotTaken == B(36, 21, 9)

CallBranches == {CallHere, CallThere} \cup Returns
LoopBranches == {CallHere, Taken, NotTaken, B(48, 9, 20), B(64, 8, 21)}
AllBranches == CallBranches \cup LoopBranches

Drawn(branches) == \A k \in DOMAIN sent : sent[k] \in branches
WithCount == pipe # <<>> /\ pipe[1] = InstCount
OneKind == \/ Drawn(CallBranches) /\ Len(sent) < 7
           \/ Drawn(LoopBranches) /\ ~ WithCount
=============================================================================

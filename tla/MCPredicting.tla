---------------------------- MODULE MCPredicting ----------------------------
(***************************************************************************)
(* PredictingProcessor for TLC.  Three architectural registers, the last   *)
(* one the flags; an addition with two destinations, a load, stores to its *)
(* address and to another one, and a branch at either of two addresses.    *)
(***************************************************************************)
EXTENDS PredictingProcessor

Plain == [src1 |-> NoReg, src2 |-> NoReg, dest |-> NoReg, cond |-> "-",
          ls |-> "-", addr |-> 0, target |-> FALSE, micro |-> 1]

Alu == [Plain EXCEPT !.src1 = 0, !.src2 = 1, !.dest = 0, !.cond = "W"]
Load == [Plain EXCEPT !.src1 = 1, !.dest = 0, !.ls = "L", !.addr = 1]
Store == [Plain EXCEPT !.src1 = 0, !.src2 = 1, !.ls = "S", !.addr = 1, !.micro = 2]
StoreElsewhere == [Store EXCEPT !.addr = 2]
CondBranch == [Plain EXCEPT !.cond = "R", !.target = TRUE]

MCRecords == {Alu, Load, Store, StoreElsewhere, CondBranch}
MCPCs == {{}, {0}}
MCStarted == {Hw6Gshare(1), Bc2(1)}
=============================================================================

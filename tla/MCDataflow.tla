---------------------------- MODULE MCDataflow -----------------------------
(***************************************************************************)
(* Dataflow for TLC.  Micro-ops whose operands and results overlap, a slow *)
(* load to hold the others back, and a branch to mispredict.               *)
(***************************************************************************)
EXTENDS Dataflow

Plain == [src1 |-> NoReg, src2 |-> NoReg, dest |-> NoReg, cond |-> "-",
          ls |-> "-", addr |-> 0, target |-> FALSE, micro |-> 1]

Alu == [Plain EXCEPT !.src1 = 0, !.src2 = 1, !.dest = 0, !.cond = "W"]
Compare == [Plain EXCEPT !.src1 = 0, !.dest = FlagsReg, !.cond = "W"]
Load == [Plain EXCEPT !.src1 = 0, !.dest = 1, !.ls = "L", !.addr = 1]
Store == [Plain EXCEPT !.src1 = 1, !.src2 = 0, !.ls = "S", !.addr = 1, !.micro = 2]
Branch == [Plain EXCEPT !.cond = "R", !.target = TRUE]

DataRecords == {Alu, Compare, Load, Store, Branch}
=============================================================================

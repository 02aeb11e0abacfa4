---------------------------- MODULE Sequential -----------------------------
(***************************************************************************)
(* What the simulated machine promises to the program it runs: the effect  *)
(* of executing the trace one instruction at a time, each reading its      *)
(* architectural source registers and writing its destinations.  A value   *)
(* is named for the destination that produced it, so that two runs agree   *)
(* on the values exactly when they agree on the data flow.                 *)
(***************************************************************************)
EXTENDS Integers, Sequences

CONSTANTS Regs,        \* the architectural registers
          Program,     \* the instructions a program may contain
          Src(_),      \* the set of source registers of an instruction
          Dest(_),     \* the pair of its destination registers, -1 for none
          ResultOf(_, _)  \* the value the n-th instruction writes to a destination

VARIABLES regs,     \* the value of each register
          retired   \* the executed instructions, with the values they read

\* Before the program runs, register a holds a value of its own.
InitialValue(a) == -1 - a

Init == /\ regs = [a \in Regs |-> InitialValue(a)]
        /\ retired = <<>>

\* When both destinations are one register, the second write stays.
Execute(op) ==
    LET n == Len(retired) + 1
    IN  /\ retired' = Append(retired, [op |-> op, reads |-> {regs[a] : a \in Src(op)}])
        /\ regs' = [a \in Regs |-> IF a = Dest(op)[2] THEN ResultOf(n, 2)
                                   ELSE IF a = Dest(op)[1] THEN ResultOf(n, 1)
                                   ELSE regs[a]]

Next == \E op \in Program : Execute(op)

Spec == Init /\ [][Next]_<<regs, retired>>
=============================================================================

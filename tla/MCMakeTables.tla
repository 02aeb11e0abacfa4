---------------------------- MODULE MCMakeTables ----------------------------
(* Every accepted configuration of up to sixteen tables. *)
EXTENDS MakeTables

MCAll == {c \in [tables : 2 .. 16, addtl : 0 .. 14] : c.addtl <= c.tables - 2}
MCEven == {c \in MCAll : Divides(c.tables, c.addtl)}

=============================================================================

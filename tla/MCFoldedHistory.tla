--------------------------- MODULE MCFoldedHistory ---------------------------
(***************************************************************************)
(* Small tables: every number and index width of a small predictor, with   *)
(* histories shorter than, equal to and longer than the index.             *)
(***************************************************************************)
EXTENDS FoldedHistory

MCFixed == {[table |-> t, n |-> n, short |-> l, long |-> l] :
               t \in 1 .. 5, n \in 1 .. 5, l \in 0 .. 6}

\* A table of ogehl.hpp with a short and a long length.
MCTwoLengths == {[table |-> 2, n |-> 3, short |-> 2, long |-> 4]}

=============================================================================

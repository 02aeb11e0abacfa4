------------------------------- MODULE MCOgehl -------------------------------
(* Two branches whose addresses differ in the bit that index, path and tag use. *)
EXTENDS Ogehl

MCDouble == <<2, 1>>
MCPCs == {{}, {0}}

\* Both adaptations or none, as in cbp2/src/simulator.cxx 82-93.
MCBoth == {[theta |-> TRUE, hist |-> TRUE], [theta |-> FALSE, hist |-> FALSE]}
MCHistory == {[theta |-> FALSE, hist |-> TRUE]}

=============================================================================

----------------------------- MODULE MakeTables -----------------------------
(***************************************************************************)
(* makeTables() of cbp2/src/ogehl.hpp: the tables of an O-GEHL predictor   *)
(* are built one after the other, each with a short history length and a   *)
(* long one, of which addtl are lengths beyond those of the tables.        *)
(***************************************************************************)
EXTENDS Lengths, Sequences

CONSTANT Configurations   \* numbers of tables and of additional lengths

\* What the assertions of Lengths() and makeTables() demand.
ASSUME ConfigurationsAssumption == \A c \in Configurations :
    c.tables \in Nat /\ c.addtl \in Nat /\ c.tables > 1 /\ c.addtl <= c.tables - 2

VARIABLES
    config,       \* num_tables, addtl_hist_length_vals
    longCounter,  \* long_counter: additional lengths used so far
    built         \* for each table built so far, the indices of its lengths

makeVars == <<config, longCounter, built>>

MakeInit ==
    /\ config \in Configurations
    /\ longCounter = 0
    /\ built = <<[short |-> 0, long |-> 0]>>

\* Mutant: the counter is advanced after it has been used.
BuildBefore ==
    LET i == Len(built)
        takes == TakesAdditional(i, config.tables, config.addtl)
    IN  /\ i < config.tables
        /\ longCounter' = IF takes THEN longCounter + 1 ELSE longCounter
        /\ built' = Append(built,
               [short |-> i,
                long |-> IF takes THEN longCounter + config.tables - 1 ELSE i])
        /\ UNCHANGED config

Build ==
    LET i == Len(built)
        takes == TakesAdditional(i, config.tables, config.addtl)
    IN  /\ i < config.tables
        /\ longCounter' = IF takes THEN longCounter + 1 ELSE longCounter
        /\ built' = Append(built,
               [short |-> i,
                long |-> IF takes THEN longCounter' + config.tables - 1 ELSE i])
        /\ UNCHANGED config

MakeNext == Build
MakeSpec == MakeInit /\ [][MakeNext]_makeVars

Finished == Len(built) = config.tables

(***************************************************************************)
(* The loop assigns the lengths that LongIndex, which the predictor's      *)
(* module uses, gives in closed form.                                      *)
(***************************************************************************)
ClosedForm ==
    \A k \in 1 .. Len(built) :
        built[k] = [short |-> k - 1,
                    long |-> LongIndex(k - 1, config.tables, config.addtl)]

(***************************************************************************)
(* Every index that is looked up is the index of a length: the assertion   *)
(* of Lengths::at() (ogehl.hpp 337) never fails.                           *)
(***************************************************************************)
IndexInRange ==
    \A k \in 1 .. Len(built) : built[k].long < config.tables + config.addtl

(***************************************************************************)
(* The additional lengths are spread over the tables as                    *)
(* cbp2/doc/writeup/ogehl.tex 40 has it: each is the long length of one    *)
(* table, never of the first or the last one, in increasing order.         *)
(***************************************************************************)
EachAdditionalUsedOnce ==
    Finished =>
      /\ \A a \in config.tables .. config.tables + config.addtl - 1 :
            Cardinality({k \in 1 .. Len(built) : built[k].long = a}) = 1
      /\ built[Len(built)].long = config.tables - 1
      /\ \A j, k \in 1 .. Len(built) :
            (j < k /\ built[j].long >= config.tables
                   /\ built[k].long >= config.tables)
                => built[j].long < built[k].long

=============================================================================

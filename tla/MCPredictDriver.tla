--------------------------- MODULE MCPredictDriver ---------------------------
(***************************************************************************)
(* Two branches whose addresses differ in the bits that indices and path   *)
(* use.  The tournament predictor is the smallest there can be (predict.cc *)
(* 127 takes any size); its memory is zeroed, beside the predictors it     *)
(* should be made of, or holds any of the values around the counter's      *)
(* bounds and those of its type.                                           *)
(***************************************************************************)
EXTENDS PredictDriver

MCAlpha == <<9, 5>>
MCPCs == {{}, {0}}

Anything == {-128, -1, 0, 3, 127}
MCLineUps ==
    {<<Hw6Gshare(1), Gshare(1, 1), t, Bc2(0)>> : t \in Tournament(2, {0})}
      \cup {<<t>> : t \in Tournament(2, Anything)}
      \cup {<<Hw6Gshare(2), Gshare(2, 2)>>, <<Gshare(1, 2), Bc2(1)>>}

=============================================================================

--------------------------- MODULE MCSeznecHistory ---------------------------
(***************************************************************************)
(* The first eleven folds of GEHL as in the program: words, indices,       *)
(* entries and lengths have the sizes they have there, the buffer has not. *)
(***************************************************************************)
EXTENDS SeznecHistory

MCM == <<2>>
MCGehlRaw == <<1, 1, 1, 1, 1, 1, 1, 2, 2, 2, 2>>
MCPCs == {{}}

=============================================================================

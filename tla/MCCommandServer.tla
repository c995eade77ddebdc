--------------------------- MODULE MCCommandServer ---------------------------
(***************************************************************************)
(* CommandServer with clients that TLC may exchange for one another.       *)
(***************************************************************************)
EXTENDS CommandServer, TLC

Symmetry == Permutations(Clients)
=============================================================================

----------------------------- MODULE MCChannel -----------------------------
(***************************************************************************)
(* A small instance of Channel for the loops that clone their items.       *)
(***************************************************************************)
EXTENDS Channel, TLC

\* Items are interchangeable.
ItemSymmetry == Permutations(Items)
=============================================================================

------------------------------ MODULE MCReactions ------------------------------
(***************************************************************************)
(* Instances of Comments and Reactions for TLC.                            *)
(***************************************************************************)
EXTENDS Comments, TLC

Symmetry == Permutations(Movies) \cup Permutations(Workers)
=============================================================================

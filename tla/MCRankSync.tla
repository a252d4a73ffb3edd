----------------------------- MODULE MCRankSync -----------------------------
(* RankSync with two ranks. *)
EXTENDS RankSync, TLC

Symmetry == Permutations(Ranks)
=============================================================================

--------------------------- MODULE MCWorldStorage ---------------------------
(***************************************************************************)
(* A small instance of WorldStorage for TLC.                               *)
(***************************************************************************)
EXTENDS WorldStorage, TLC

Symmetry == Permutations(Chunks)
=============================================================================

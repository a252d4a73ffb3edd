--------------------------- MODULE MCAuthManager ---------------------------
(***************************************************************************)
(* A small instance of AuthManager for TLC.                                *)
(***************************************************************************)
EXTENDS AuthManager, TLC

CONSTANTS t1, i1

OwnerOfOne == t1 :> i1

Symmetry == Permutations(Holders) \cup Permutations(SessionIds) \cup Permutations(UserIds)
=============================================================================

--------------------------- MODULE MCBansManager ---------------------------
(***************************************************************************)
(* BansManager with two addresses and a word of 2^17, in which the expiry  *)
(* of a ban of 7 seconds is negative and that of one of 13 wraps around.   *)
(***************************************************************************)
EXTENDS BansManager, TLC

(* A ban of one second ends after ten: in its time, and in the code's. *)
Seconds == {1000, 2000, 3000, 11000, 12000, 13000}

Symmetry == Permutations(Ips)
=============================================================================

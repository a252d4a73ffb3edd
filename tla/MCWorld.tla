------------------------------ MODULE MCWorld ------------------------------
(***************************************************************************)
(* Small instances of World for TLC.                                       *)
(***************************************************************************)
EXTENDS World, TLC

CONSTANTS red, white

Symmetry == Permutations(Requests) \cup Permutations(Chunks) \cup Permutations(Players)

(* A chunk that is red all over, and the same chunk protected. *)
Red == [pixel |-> [p \in Pixels |-> red], prot |-> "absent"]

Protected == [Red EXCEPT !.prot = "one"]

Unprotected == [Blank EXCEPT !.prot = "zero"]

SomeFiles == {NoFile, Red, Protected, Unprotected}

(* Files of a world of one color. *)
GuardedFiles == {NoFile, [Blank EXCEPT !.prot = "one"]}

PlainFiles == {NoFile, Red}

=============================================================================

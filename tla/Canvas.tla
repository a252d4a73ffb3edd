------------------------------- MODULE Canvas -------------------------------
(***************************************************************************)
(* What World promises of painting: a plane of pixels, one color each, and *)
(* squares of Side by Side pixels that may be protected. A paint changes   *)
(* its pixel and no other, unless its square is protected.                 *)
(***************************************************************************)
EXTENDS Integers

CONSTANTS
    Points,       \* the pixels, pairs of coordinates
    Areas,        \* the squares that may be protected, pairs of positions
    Colors,
    FirstCanvas,  \* what the plane shows when its world is loaded
    FirstGuarded  \* the squares that are protected then

Side == 16

AreaAt(p) == <<p[1] \div Side, p[2] \div Side>>

VARIABLES
    canvas,   \* canvas[p]: the color of pixel p
    guarded,  \* the protected squares
    painted   \* whether the last paint was allowed

canvasVars == <<canvas, guarded, painted>>

CanvasInit ==
    /\ canvas = FirstCanvas
    /\ guarded = FirstGuarded
    /\ painted = FALSE

Draw(p, c) ==
    /\ AreaAt(p) \notin guarded
    /\ canvas' = [canvas EXCEPT ![p] = c]
    /\ painted' = TRUE
    /\ UNCHANGED guarded

Refuse(p) ==
    /\ AreaAt(p) \in guarded
    /\ painted' = FALSE
    /\ UNCHANGED <<canvas, guarded>>

Guard(a) == guarded' = guarded \cup {a} /\ UNCHANGED <<canvas, painted>>

Open(a) == guarded' = guarded \ {a} /\ UNCHANGED <<canvas, painted>>

CanvasNext ==
    \/ \E p \in Points : Refuse(p) \/ \E c \in Colors : Draw(p, c)
    \/ \E a \in Areas : Guard(a) \/ Open(a)

CanvasSpec == CanvasInit /\ [][CanvasNext]_canvasVars
=============================================================================

----------------------------- MODULE ChunkStore -----------------------------
(***************************************************************************)
(* What a world promises of the chunks its players paint: each shows what  *)
(* was made of it, and a copy is kept that is brought up to date from time *)
(* to time.  A failure costs one chunk, and a restart brings back the      *)
(* copies, perhaps without one of them.  Chunks that are still as an older *)
(* server left them have a weaker promise: a failure may strike them all.  *)
(***************************************************************************)

CONSTANTS
    Chunks,
    Images,  \* what players may make of the pixels of a chunk
    Lost     \* a content nobody can rely on any more

Contents == [image : Images, protected : BOOLEAN]

VARIABLES
    shown,  \* shown[c]: what players see of chunk c
    kept,   \* kept[c]: what they see of it after a restart
    old     \* the chunks no player has changed since an older server did

storeVars == <<shown, kept, old>>

StoreInit ==
    /\ shown \in [Chunks -> Contents]
    /\ kept = shown
    /\ old \in SUBSET Chunks

Bare(d) == IF d = Lost THEN Lost ELSE [d EXCEPT !.protected = FALSE]

(* The copies of the chunks in S are brought up to date. *)
Update(S) == kept' = [c \in Chunks |-> IF c \in S THEN shown[c] ELSE kept[c]]

Save(S) == Update(S) /\ UNCHANGED shown

(* A player paints chunk c, which is not protected, or protects it or not; *)
(* to bring it in, others may be put away.                                 *)
Paint(c, i, S) ==
    /\ shown[c] # Lost /\ ~shown[c].protected
    /\ shown' = [shown EXCEPT ![c].image = i]
    /\ Update(S)

Protect(c, on, S) ==
    /\ shown[c] # Lost
    /\ shown' = [shown EXCEPT ![c].protected = on]
    /\ Update(S)

(* An operation on the files of the chunks in S fails: those of one chunk, *)
(* or of all that are old.                                                 *)
Fail(S) ==
    /\ shown' = [c \in Chunks |-> IF c \in S THEN Lost ELSE shown[c]]
    /\ kept' = [c \in Chunks |-> IF c \in S THEN Lost ELSE kept[c]]

(* A start without the protections of the old chunks, which are still      *)
(* there for the next one.                                                 *)
StartBare ==
    /\ shown' = [c \in Chunks |-> IF c \in old THEN Bare(shown[c]) ELSE shown[c]]
    /\ UNCHANGED kept

(* A restart within the write of the copy of c; it may come without.       *)
RestartWithout(c) ==
    /\ kept' = [kept EXCEPT ![c] = Lost]
    /\ shown' = kept'

(* A restart, within the write of the protections of U if there are any.   *)
RestartBare(U) ==
    /\ kept' = [c \in Chunks |-> IF c \in U THEN Bare(kept[c]) ELSE kept[c]]
    /\ shown' = kept'

(* A store while everything goes well: what is changed is old no more. *)
Use ==
    \E S \in SUBSET Chunks :
        \/ Save(S)
        \/ \E c \in Chunks \ old', i \in Images : Paint(c, i, S)
        \/ \E c \in Chunks \ old', on \in BOOLEAN : Protect(c, on, S)

Harm ==
    \/ \E c \in Chunks : Fail({c}) \/ RestartWithout(c)
    \/ Fail(old)
    \/ StartBare
    \/ \E U \in SUBSET old : RestartBare(U)

(* No chunk becomes old again. *)
Renewed == old' \subseteq old

UseSpec == StoreInit /\ [][Use /\ Renewed]_storeVars

StoreSpec == StoreInit /\ [][(Use \/ Harm) /\ Renewed]_storeVars
=============================================================================

-------------------------- MODULE ConnectionSlots --------------------------
(***************************************************************************)
(* What the connection pipeline promises about addresses: a connection     *)
(* attempt is turned away or takes one of the MaxConnsPerIp slots of its   *)
(* address, keeps it until its socket is forgotten, and never comes back.  *)
(* ConnectionManager implements this specification.                        *)
(***************************************************************************)
EXTENDS Integers, FiniteSets

CONSTANTS Sockets,       \* connection attempts, each used once
          Ips,           \* remote addresses
          MaxConnsPerIp  \* slots of an address

VARIABLES held,  \* held[a]: the attempts that hold a slot of address a
          used   \* the attempts made so far

slotVars == <<held, used>>

SlotsTypeOK ==
    /\ held \in [Ips -> SUBSET Sockets]
    /\ used \in SUBSET Sockets

SlotsInit ==
    /\ held = [a \in Ips |-> {}]
    /\ used = {}

(* An attempt from address a gets a slot. *)
Take(c, a) ==
    /\ c \notin used
    /\ Cardinality(held[a]) < MaxConnsPerIp
    /\ held' = [held EXCEPT ![a] = @ \cup {c}]
    /\ used' = used \cup {c}

(* An attempt is turned away at once. *)
TurnAway(c) ==
    /\ c \notin used
    /\ used' = used \cup {c}
    /\ UNCHANGED held

(* Connections end and give their slots back. *)
Release(S) ==
    /\ S # {}
    /\ held' = [a \in Ips |-> held[a] \ S]
    /\ UNCHANGED used

SlotsNext ==
    \/ \E c \in Sockets, a \in Ips : Take(c, a)
    \/ \E c \in Sockets : TurnAway(c)
    \/ \E S \in SUBSET Sockets : Release(S)

SlotsSpec == SlotsInit /\ [][SlotsNext]_slotVars
=============================================================================

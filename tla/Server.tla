------------------------------- MODULE Server -------------------------------
(***************************************************************************)
(* The server around its ConnectionManager: an admitted connection becomes *)
(* a Client, with a Player in a World, on the list of its Session; a world *)
(* is in memory for as long as it has a player or a chunk that is being    *)
(* encoded; and a timer tells the players how many they are, a moment      *)
(* after the last connection that came or went.                            *)
(*                                                                         *)
(* Every step of ConnectionManager is taken here with what it does to the  *)
(* worlds (Follow) and to the timer (UpdatesFunc).  What happens to the    *)
(* chunks of a world is World's subject: here a world only knows whether   *)
(* the worker has one of them.                                             *)
(***************************************************************************)
EXTENDS ConnectionManager

CONSTANTS
    Worlds,  \* names of worlds
    Pids,    \* player ids
    NoWorld  \* where a socket that is not a client is

ASSUME NoWorldAssumption == NoWorld \notin Worlds

ASSUME PidsAssumption == IsFiniteSet(Pids) /\ Cardinality(Pids) >= Cardinality(Sockets)

VARIABLES
    worlds,        \* WorldManager::worlds
    players,       \* players[w]: World::players, a set ordered by player id
    ids,           \* ids[w]: the player ids World::ids has given out
    encoding,      \* the worlds with an entry in ongoingChunkRequests
    place,         \* place[c]: the world and the id of the Player of client c
    activeClients, \* activeClients[t]: those of the session of token t
    statsTimer,    \* the timer of the player counts: 0, set, or cleared
    told           \* history: nothing has changed since the players were told

placesVars == <<worlds, players, ids, encoding, place, activeClients>>
serverVars == <<vars, placesVars, statsTimer, told>>

Nowhere == [world |-> NoWorld, pid |-> 0]

ServerTypeOK ==
    /\ TypeOK
    /\ worlds \in SUBSET Worlds
    /\ players \in [Worlds -> SUBSET Sockets]
    /\ ids \in [Worlds -> SUBSET Pids]
    /\ encoding \in SUBSET Worlds
    /\ place \in [Sockets -> [world : Worlds, pid : Pids] \cup {Nowhere}]
    /\ activeClients \in [Tokens -> SUBSET Sockets]
    /\ statsTimer \in {"0", "set", "cleared"}
    /\ told \in BOOLEAN

-----------------------------------------------------------------------------
(* Clients and worlds *)

(* Players are told apart by their ids (Player::operator<). *)
SameId(c, d) == place[c].pid = place[d].pid

(* The players p of a world after std::set::emplace of client c, and after *)
(* erase of the players of the clients in C.                               *)
Inserted(p, c, i) == IF \E d \in p : place[d].pid = i THEN p ELSE p \cup {c}

Erased(p, C) == {d \in p : ~\E c \in C : SameId(c, d)}

GetOrLoadWorld(w) == worlds' = worlds \cup {w}

(* IdSys::getId *)
GetId(w, i) == i \notin ids[w] /\ ids' = [ids EXCEPT ![w] = @ \cup {i}]

AddClient(c, t) == activeClients' = [activeClients EXCEPT ![t] = @ \cup {c}]

(* The constructor of the Player, which joins the world. *)
NewPlayer(c, w, i) ==
    /\ place' = [place EXCEPT ![c] = [world |-> w, pid |-> i]]
    /\ players' = [players EXCEPT ![w] = Inserted(@, c, i)]

(* onSocketChecked: the world is loaded if it is not and gives an id to    *)
(* the player; the session the connection was checked with gets the client. *)
Join(c, w, i) ==
    /\ GetOrLoadWorld(w)
    /\ GetId(w, i)
    /\ NewPlayer(c, w, i)
    /\ AddClient(c, conn'[c].session)
    /\ UNCHANGED encoding

(* A variant of the ids that are given back: none is. *)
FreedNone(C, w) == {}

(* The ids the players of the clients in C give back to world w. *)
FreedIds(C, w) == {place[c].pid : c \in {d \in C : place[d].world = w}}

(* A variant that does not wait for the worker. *)
UnloadableAnyway(w, P) == P = {}

(* tryUnloadWorld: nobody is there and no chunk is locked. *)
Unloadable(w, P) == P = {} /\ w \notin encoding

DelClients(C) == activeClients' = [t \in Tokens |-> activeClients[t] \ C]

(* The destructors of the clients in C and of their players: they leave    *)
(* their session and their world, which is unloaded with the last of them. *)
Leave(C) ==
    LET from(w) == {c \in C : place[c].world = w}
    IN  /\ DelClients(C)
        /\ players' = [w \in Worlds |-> Erased(players[w], from(w))]
        /\ ids' = [w \in Worlds |-> ids[w] \ FreedIds(C, w)]
        /\ worlds' = {w \in worlds :
                          from(w) # {} => ~Unloadable(w, Erased(players[w], from(w)))}
        /\ place' = [c \in Sockets |-> IF c \in C THEN Nowhere ELSE place[c]]
        /\ UNCHANGED encoding

(* What becomes of the clients that a step of ConnectionManager makes and  *)
(* of those it deletes.                                                    *)
Follow ==
    LET in == Clients' \ Clients
        out == Clients \ Clients'
    IN  /\ \A c \in in : \E w \in Worlds, i \in Pids : Join(c, w, i)
        /\ in = {} => Leave(out)

-----------------------------------------------------------------------------
(* The player counts *)

(* connected and disconnected of the ConnectionCounter call the function;  *)
(* preCheck, which counts a connection that is now pending, does not. The  *)
(* variant calls it for the connections that were checked only.            *)
CalledWhenChecked == counter'.totalChecked # counter.totalChecked

Called == counter' # counter /\ Pending' \subseteq Pending

(* A timer that is cleared by the stop is reset, but never fires. *)
UpdatesFunc ==
    /\ statsTimer' = IF Called /\ statsTimer = "0" THEN "set" ELSE statsTimer
    /\ told' = (told /\ players' = players
                     /\ counter'.currentActive = counter.currentActive)

(* clearTimers, after the sockets are closed. *)
ClearTimers ==
    /\ statsTimer' = IF Called \/ statsTimer = "set" THEN "cleared" ELSE statsTimer
    /\ told' = (told /\ OpenSockets = {})

(* The timer fires: every player of every world is sent the counts. *)
SendStats ==
    /\ statsTimer = "set"
    /\ statsTimer' = "0"
    /\ told' = TRUE
    /\ UNCHANGED <<vars, placesVars>>

-----------------------------------------------------------------------------
(* A request for a chunk of a world in memory has the worker encode it. *)
QueueEncoding(w) ==
    /\ w \in worlds \ encoding
    /\ encoding' = encoding \cup {w}
    /\ UNCHANGED <<vars, worlds, players, ids, place, activeClients, statsTimer, told>>

(* The callback of the last encoding tries to unload the world. *)
EncodingEnds(w) ==
    /\ w \in encoding
    /\ encoding' = encoding \ {w}
    /\ worlds' = IF players[w] = {} THEN worlds \ {w} ELSE worlds
    /\ UNCHANGED <<vars, players, ids, place, activeClients, statsTimer, told>>

ServerInit ==
    /\ Init
    /\ worlds = {}
    /\ players = [w \in Worlds |-> {}]
    /\ ids = [w \in Worlds |-> {}]
    /\ encoding = {}
    /\ place = [c \in Sockets |-> Nowhere]
    /\ activeClients = [t \in Tokens |-> {}]
    /\ statsTimer = "0"
    /\ told = TRUE

Connecting ==
    \/ \E c \in Sockets : RefuseUpgrade(c) \/ Disconnect(c)
    \/ \E c \in Sockets, a \in Ips, t \in Cookies, refusing \in SUBSET Stateless :
           HandleIncoming(c, a, t, refusing)
    \/ \E c \in Sockets, ok \in BOOLEAN : AsyncDone(c, ok)
    \/ \E S \in SUBSET Sockets : KickInactive(S)

ServerNext ==
    \/ Connecting /\ Follow /\ UpdatesFunc
    \/ UnsafeStop /\ Follow /\ ClearTimers
    \/ SendStats
    \/ \E w \in Worlds : QueueEncoding(w) \/ EncodingEnds(w)

ServerSpec == ServerInit /\ [][ServerNext]_serverVars

-----------------------------------------------------------------------------
(* The three lists a client is on agree with the connections: the players  *)
(* of its world, which hold every one of them although they are told apart *)
(* by ids that are given out again, the ids of that world, and the clients *)
(* of its session.                                                         *)
RosterExact ==
    /\ \A w \in Worlds :
          LET here == {c \in Clients : place[c].world = w}
          IN  /\ players[w] = here
              /\ ids[w] = {place[c].pid : c \in here}
              /\ Cardinality(ids[w]) = Cardinality(here)
    /\ \A t \in Tokens : activeClients[t] = {c \in Clients : conn[c].session = t}

(* A world is in memory just when it has a player or an encoding, whatever *)
(* way its clients went: nobody plays in a world that is gone, and none is *)
(* left behind.                                                            *)
WorldsInUse == worlds = encoding \cup {w \in Worlds : players[w] # {}}

(* Once the timer has fired and nobody is being checked, every player has  *)
(* been told how many players there are, in its world and in all.          *)
StatsSettle ==
    statsTimer = "0" /\ Pending = {} => told
=============================================================================

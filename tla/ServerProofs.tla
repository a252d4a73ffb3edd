---------------------------- MODULE ServerProofs ----------------------------
(***************************************************************************)
(* Every step of the server is one of its ConnectionManager or leaves it   *)
(* alone; the lists of clients, players and ids agree with the             *)
(* connections; and the player counts are told in the end.                 *)
(***************************************************************************)
EXTENDS Server, ConnectionManagerProofs

-----------------------------------------------------------------------------
(* The composition *)

(* A step of the server is a callback of the connection pipeline, or       *)
(* changes nothing there.                                                  *)
LEMMA ServerStep ==
    ASSUME [ServerNext]_serverVars
    PROVE  [Next]_vars
<1>1. CASE Connecting
  BY <1>1 DEF Connecting, Next
<1>2. CASE UnsafeStop
  BY <1>2 DEF Next
<1>3. CASE SendStats \/ \E w \in Worlds : QueueEncoding(w) \/ EncodingEnds(w)
  BY <1>3 DEF SendStats, QueueEncoding, EncodingEnds
<1>4. CASE UNCHANGED serverVars
  BY <1>4 DEF serverVars
<1> QED
  BY <1>1, <1>2, <1>3, <1>4 DEF ServerNext

(* What holds of the connection pipeline holds of the server around it:    *)
(* the worlds, the players and the timer never stand in its way.           *)
THEOREM PipelineInServer == ServerSpec => Spec
<1>1. ServerInit => Init
  BY DEF ServerInit
<1>2. [ServerNext]_serverVars => [Next]_vars
  BY ServerStep
<1> QED
  BY <1>1, <1>2, PTL DEF ServerSpec, Spec

-----------------------------------------------------------------------------
(* The invariant *)

Here(w) == {c \in Clients : place[c].world = w}

PidsOf(C) == {place[c].pid : c \in C}

(* Two players of a world have different ids. *)
Apart == \A w \in Worlds : \A c, d \in Here(w) : place[c].pid = place[d].pid => c = d

Lists ==
    /\ \A w \in Worlds : players[w] = Here(w) /\ ids[w] = PidsOf(Here(w))
    /\ \A t \in Tokens : activeClients[t] = {c \in Clients : conn[c].session = t}

ServerInv ==
    /\ CheckInv
    /\ ServerTypeOK
    /\ Apart
    /\ Lists
    /\ WorldsInUse
    /\ StatsSettle

(* A callback makes one client of a socket that was none, or none; and the *)
(* clients that stay keep their sessions.                                  *)
LEMMA ClientsStep ==
    ASSUME CheckInv, [Next]_vars
    PROVE  /\ \/ \E c \in Sockets \ Clients : Clients' = Clients \cup {c}
              \/ Clients' \subseteq Clients
           /\ \A d \in Clients \cap Clients' : conn'[d].session = conn[d].session
<1>1. Inv /\ TypeOK /\ ConnectionsGood
  BY DEF CheckInv, Inv
<1>2. ASSUME NEW c \in Sockets, NEW q \in Connections, Moves(c, q)
      PROVE  /\ Clients' = Clients \cup {c} \/ Clients' = Clients
             /\ c \notin Clients
             /\ \A d \in Clients : conn'[d] = conn[d]
  <2>1. c \notin Clients
    BY <1>1, <1>2 DEF Moves, Clients, ConnectionsGood, Good, ClientGood
  <2>2. conn' = [conn EXCEPT ![c] = q] /\ conn \in [Sockets -> Connections]
    BY <1>1, <1>2 DEF Moves, TypeOK
  <2>3. \A d \in Sockets : d # c => conn'[d] = conn[d]
    BY <2>2
  <2> QED
    BY <2>1, <2>3 DEF Clients
<1>3. ASSUME NEW S \in SUBSET Sockets, CloseAll(S)
      PROVE  /\ Clients' \subseteq Clients
             /\ \A d \in Clients' : conn'[d] = conn[d]
  <2>1. ASSUME NEW d \in Sockets, conn'[d].state = "client"
        PROVE  conn'[d] = conn[d]
    <3>1. conn[d] \in Connections
      BY <1>1 DEF TypeOK
    <3>2. Closed(conn[d]).state # "client"
      BY <3>1 DEF Closed, Connections
    <3> QED
      BY <1>3, <2>1, <3>2 DEF CloseAll
  <2> QED
    BY <2>1 DEF Clients
<1>4. CASE UNCHANGED vars
  BY <1>4 DEF vars, Clients
<1>5. \/ \E c \in Sockets, q \in Connections : Moves(c, q)
      \/ \E S \in SUBSET Sockets : CloseAll(S)
      \/ UNCHANGED vars
  BY <1>1, NextMoves
<1> QED
  BY <1>2, <1>3, <1>4, <1>5

-----------------------------------------------------------------------------
(* The lists *)

(* A new client gets an id nobody in its world has, and is on every list.  *)
LEMMA JoinStep ==
    ASSUME ServerInv, NEW c \in Sockets \ Clients, Clients' = Clients \cup {c},
           \A d \in Clients : conn'[d].session = conn[d].session,
           NEW w \in Worlds, NEW i \in Pids, Join(c, w, i)
    PROVE  /\ worlds' \in SUBSET Worlds
           /\ players' \in [Worlds -> SUBSET Sockets]
           /\ ids' \in [Worlds -> SUBSET Pids]
           /\ encoding' \in SUBSET Worlds
           /\ place' \in [Sockets -> [world : Worlds, pid : Pids] \cup {Nowhere}]
           /\ activeClients' \in [Tokens -> SUBSET Sockets]
           /\ Apart' /\ Lists' /\ WorldsInUse'
<1> DEFINE p == [world |-> w, pid |-> i]
<1>1. /\ worlds' = worlds \cup {w} /\ encoding' = encoding
      /\ i \notin ids[w] /\ ids' = [ids EXCEPT ![w] = @ \cup {i}]
      /\ place' = [place EXCEPT ![c] = p]
      /\ players' = [players EXCEPT ![w] = Inserted(@, c, i)]
      /\ activeClients' = [activeClients EXCEPT ![conn'[c].session] = @ \cup {c}]
  BY DEF Join, GetOrLoadWorld, GetId, NewPlayer, AddClient
<1>2. /\ worlds \in SUBSET Worlds /\ encoding \in SUBSET Worlds
      /\ players \in [Worlds -> SUBSET Sockets]
      /\ ids \in [Worlds -> SUBSET Pids]
      /\ place \in [Sockets -> [world : Worlds, pid : Pids] \cup {Nowhere}]
      /\ activeClients \in [Tokens -> SUBSET Sockets]
  BY DEF ServerInv, ServerTypeOK
<1>3. /\ \A v \in Worlds : players[v] = Here(v) /\ ids[v] = PidsOf(Here(v))
      /\ \A t \in Tokens : activeClients[t] = {d \in Clients : conn[d].session = t}
  BY DEF ServerInv, Lists
<1>4. Clients \subseteq Sockets /\ c \notin Clients
  BY DEF Clients
<1>5. /\ place'[c] = p /\ p.world = w /\ p.pid = i
      /\ p \in [world : Worlds, pid : Pids]
      /\ \A d \in Clients : place'[d] = place[d]
  BY <1>1, <1>2, <1>4
<1> HIDE DEF p
<1>6. players' = [players EXCEPT ![w] = @ \cup {c}]
  <2>1. ~\E d \in players[w] : place[d].pid = i
    BY <1>1, <1>3 DEF PidsOf
  <2>2. Inserted(players[w], c, i) = players[w] \cup {c}
    BY <2>1 DEF Inserted
  <2> QED
    BY <1>1, <1>2, <2>2
<1>7. \A v \in Worlds : Here(v)' = IF v = w THEN Here(v) \cup {c} ELSE Here(v)
  BY <1>4, <1>5 DEF Here
<1>8. \A v \in Worlds : \A d \in Here(v) : place'[d] = place[d] /\ place[d].pid \in ids[v]
  BY <1>3, <1>5 DEF Here, PidsOf
<1>9. ASSUME NEW v \in Worlds
      PROVE  PidsOf(Here(v))' = IF v = w THEN PidsOf(Here(v)) \cup {i} ELSE PidsOf(Here(v))
  <2>1. Here(v)' = IF v = w THEN Here(v) \cup {c} ELSE Here(v)
    BY <1>7
  <2>2. PidsOf(Here(v))' = {place'[d].pid : d \in Here(v)'}
    BY DEF PidsOf
  <2>3. \A d \in Here(v) : place'[d] = place[d]
    BY <1>8
  <2> QED
    BY <1>5, <2>1, <2>2, <2>3 DEF PidsOf
<1>10. ASSUME NEW t \in Tokens
       PROVE  activeClients'[t] = {d \in Clients' : conn'[d].session = t}
  <2>1. activeClients'[t] = IF t = conn'[c].session THEN activeClients[t] \cup {c}
                                                    ELSE activeClients[t]
    BY <1>1, <1>2
  <2> QED
    BY <1>3, <1>4, <2>1
<1>11. Lists'
  <2>1. ASSUME NEW v \in Worlds
        PROVE  players'[v] = Here(v)' /\ ids'[v] = PidsOf(Here(v))'
    BY <1>1, <1>2, <1>3, <1>6, <1>7, <1>9
  <2> QED
    BY <1>10, <2>1 DEF Lists
<1>12. Apart'
  <2>1. SUFFICES ASSUME NEW v \in Worlds, NEW d \in Here(v)', NEW e \in Here(v)',
                        place'[d].pid = place'[e].pid
                 PROVE  d = e
    BY DEF Apart
  <2>2. CASE d # c /\ e # c
    <3>1. d \in Here(v) /\ e \in Here(v)
      BY <1>7, <2>2
    <3> QED
      BY <1>8, <2>1, <3>1 DEF ServerInv, Apart
  <2>3. ASSUME NEW x \in Here(v)', NEW y \in Here(v)', x = c, y # c,
               place'[x].pid = place'[y].pid
        PROVE  FALSE
    <3>1. v = w /\ y \in Here(w)
      BY <1>4, <1>7, <2>3 DEF Here
    <3>2. place'[y].pid \in ids[w]
      BY <1>8, <3>1
    <3> QED
      BY <1>1, <1>5, <2>3, <3>2
  <2> QED
    BY <2>1, <2>2, <2>3
<1>13. WorldsInUse'
  <2>1. worlds = encoding \cup {v \in Worlds : players[v] # {}}
    BY DEF ServerInv, WorldsInUse
  <2>2. \A v \in Worlds : players'[v] # {} <=> (v = w \/ players[v] # {})
    BY <1>2, <1>6
  <2> QED
    BY <1>1, <2>1, <2>2 DEF WorldsInUse
<1>14. /\ worlds' \in SUBSET Worlds /\ encoding' \in SUBSET Worlds
       /\ players' \in [Worlds -> SUBSET Sockets]
       /\ ids' \in [Worlds -> SUBSET Pids]
       /\ place' \in [Sockets -> [world : Worlds, pid : Pids] \cup {Nowhere}]
       /\ activeClients' \in [Tokens -> SUBSET Sockets]
  <2>1. worlds' \in SUBSET Worlds /\ encoding' \in SUBSET Worlds
    BY <1>1, <1>2
  <2>2. players' \in [Worlds -> SUBSET Sockets]
    BY <1>2, <1>6
  <2>3. ids' \in [Worlds -> SUBSET Pids]
    BY <1>1, <1>2
  <2>4. place' \in [Sockets -> [world : Worlds, pid : Pids] \cup {Nowhere}]
    <3>1. p \in [world : Worlds, pid : Pids] \cup {Nowhere}
      BY <1>5
    <3> QED
      BY <1>1, <1>2, <3>1
  <2>5. activeClients' \in [Tokens -> SUBSET Sockets]
    BY <1>1, <1>2
  <2> QED
    BY <2>1, <2>2, <2>3, <2>4, <2>5
<1> QED
  BY <1>11, <1>12, <1>13, <1>14

(* Clients that leave take themselves and nobody else off the lists, and   *)
(* the world with them that they were the last to play in.                 *)
LEMMA LeaveStep ==
    ASSUME ServerInv, Clients' \subseteq Clients,
           \A d \in Clients' : conn'[d].session = conn[d].session,
           Leave(Clients \ Clients')
    PROVE  /\ worlds' \in SUBSET Worlds
           /\ players' \in [Worlds -> SUBSET Sockets]
           /\ ids' \in [Worlds -> SUBSET Pids]
           /\ encoding' \in SUBSET Worlds
           /\ place' \in [Sockets -> [world : Worlds, pid : Pids] \cup {Nowhere}]
           /\ activeClients' \in [Tokens -> SUBSET Sockets]
           /\ Apart' /\ Lists' /\ WorldsInUse'
           /\ Clients' = Clients => players' = players
<1> DEFINE C == Clients \ Clients'
           from(w) == {c \in C : place[c].world = w}
<1>1. /\ activeClients' = [t \in Tokens |-> activeClients[t] \ C]
      /\ players' = [w \in Worlds |-> Erased(players[w], from(w))]
      /\ ids' = [w \in Worlds |-> ids[w] \ FreedIds(C, w)]
      /\ worlds' = {w \in worlds :
                       from(w) # {} => ~Unloadable(w, Erased(players[w], from(w)))}
      /\ place' = [c \in Sockets |-> IF c \in C THEN Nowhere ELSE place[c]]
      /\ encoding' = encoding
  BY DEF Leave, DelClients
<1>2. /\ worlds \in SUBSET Worlds /\ encoding \in SUBSET Worlds
      /\ players \in [Worlds -> SUBSET Sockets]
      /\ ids \in [Worlds -> SUBSET Pids]
      /\ place \in [Sockets -> [world : Worlds, pid : Pids] \cup {Nowhere}]
      /\ activeClients \in [Tokens -> SUBSET Sockets]
  BY DEF ServerInv, ServerTypeOK
<1>3. /\ \A v \in Worlds : players[v] = Here(v) /\ ids[v] = PidsOf(Here(v))
      /\ \A t \in Tokens : activeClients[t] = {d \in Clients : conn[d].session = t}
  BY DEF ServerInv, Lists
<1>4. Clients \subseteq Sockets /\ Clients' = Clients \ C
  BY DEF Clients
<1> HIDE DEF C
<1>5. \A d \in Clients' : place'[d] = place[d]
  BY <1>1, <1>4
<1>6. ASSUME NEW w \in Worlds
      PROVE  /\ from(w) \subseteq Here(w)
             /\ Here(w)' = Here(w) \ from(w)
             /\ \A c, d \in Here(w) : place[c].pid = place[d].pid => c = d
  <2>1. Here(w)' = {c \in Clients' : place[c].world = w}
    BY <1>5 DEF Here
  <2>2. C \subseteq Clients
    BY DEF C
  <2>3. \A c, d \in Here(w) : place[c].pid = place[d].pid => c = d
    BY DEF ServerInv, Apart
  <2> QED
    BY <1>4, <2>1, <2>2, <2>3 DEF Here
<1>7. ASSUME NEW w \in Worlds PROVE players'[w] = Here(w)'
  <2>1. players'[w] = {d \in Here(w) : ~\E c \in from(w) : place[c].pid = place[d].pid}
    BY <1>1, <1>3 DEF Erased, SameId
  <2> QED
    BY <1>6, <2>1
<1>8. ASSUME NEW w \in Worlds PROVE ids'[w] = PidsOf(Here(w))'
  <2>1. ids'[w] = PidsOf(Here(w)) \ PidsOf(from(w))
    BY <1>1, <1>3 DEF FreedIds, PidsOf
  <2>2. PidsOf(Here(w))' = PidsOf(Here(w) \ from(w))
    <3>1. PidsOf(Here(w))' = {place'[d].pid : d \in Here(w)'}
      BY DEF PidsOf
    <3>2. \A d \in Here(w)' : place'[d] = place[d]
      BY <1>5 DEF Here
    <3>3. Here(w)' = Here(w) \ from(w)
      BY <1>6
    <3> QED
      BY <3>1, <3>2, <3>3 DEF PidsOf
  <2>3. PidsOf(Here(w)) \ PidsOf(from(w)) = PidsOf(Here(w) \ from(w))
    BY <1>6 DEF PidsOf
  <2> QED
    BY <2>1, <2>2, <2>3
<1>9. \A t \in Tokens : activeClients'[t] = {d \in Clients' : conn'[d].session = t}
  BY <1>1, <1>3, <1>4
<1>10. Lists'
  BY <1>7, <1>8, <1>9 DEF Lists
<1>11. Apart'
  <2>1. ASSUME NEW v \in Worlds, NEW d \in Here(v)', NEW e \in Here(v)',
               place'[d].pid = place'[e].pid
        PROVE  d = e
    <3>1. d \in Here(v) /\ e \in Here(v) /\ place'[d] = place[d] /\ place'[e] = place[e]
      BY <1>5, <1>6 DEF Here
    <3> QED
      BY <1>6, <2>1, <3>1
  <2> QED
    BY <2>1 DEF Apart
<1>12. WorldsInUse'
  <2>1. worlds = encoding \cup {v \in Worlds : players[v] # {}}
    BY DEF ServerInv, WorldsInUse
  <2>2. ASSUME NEW v \in Worlds
        PROVE  v \in worlds' <=> (v \in encoding \/ players'[v] # {})
    <3>1. players'[v] = Erased(players[v], from(v)) /\ players'[v] \subseteq players[v]
      BY <1>1 DEF Erased
    <3>2. from(v) = {} => players'[v] = players[v]
      BY <3>1 DEF Erased
    <3>3. v \in worlds' <=>
              /\ v \in worlds
              /\ from(v) # {} => ~(players'[v] = {} /\ v \notin encoding)
      BY <1>1, <3>1 DEF Unloadable
    <3> HIDE DEF from
    <3> QED
      BY <2>1, <3>1, <3>2, <3>3
  <2>3. worlds' \subseteq worlds
    BY <1>1
  <2> QED
    BY <1>1, <1>2, <2>2, <2>3 DEF WorldsInUse
<1>13. /\ worlds' \in SUBSET Worlds /\ encoding' \in SUBSET Worlds
       /\ ids' \in [Worlds -> SUBSET Pids]
       /\ place' \in [Sockets -> [world : Worlds, pid : Pids] \cup {Nowhere}]
       /\ activeClients' \in [Tokens -> SUBSET Sockets]
  BY <1>1, <1>2
<1>14. players' \in [Worlds -> SUBSET Sockets]
  <2>1. \A v \in Worlds : Erased(players[v], from(v)) \subseteq Sockets
    BY <1>2 DEF Erased
  <2> QED
    BY <1>1, <2>1
<1>15. Clients' = Clients => players' = players
  <2>1. ASSUME Clients' = Clients PROVE \A w \in Worlds : players'[w] = players[w]
    <3>1. \A w \in Worlds : from(w) = {}
      BY <2>1 DEF C
    <3> QED
      BY <1>1, <3>1 DEF Erased
  <2> QED
    BY <1>2, <1>14, <2>1
<1> QED
  BY <1>10, <1>11, <1>12, <1>13, <1>14, <1>15

(* What Follow makes of the lists when the pipeline takes a step. *)
LEMMA FollowStep ==
    ASSUME ServerInv, [Next]_vars, Follow
    PROVE  /\ worlds' \in SUBSET Worlds
           /\ players' \in [Worlds -> SUBSET Sockets]
           /\ ids' \in [Worlds -> SUBSET Pids]
           /\ encoding' \in SUBSET Worlds
           /\ place' \in [Sockets -> [world : Worlds, pid : Pids] \cup {Nowhere}]
           /\ activeClients' \in [Tokens -> SUBSET Sockets]
           /\ Apart' /\ Lists' /\ WorldsInUse'
           /\ Clients' = Clients => players' = players
<1>1. /\ \/ \E c \in Sockets \ Clients : Clients' = Clients \cup {c}
         \/ Clients' \subseteq Clients
      /\ \A d \in Clients \cap Clients' : conn'[d].session = conn[d].session
  BY ClientsStep DEF ServerInv
<1>2. ASSUME NEW c \in Sockets \ Clients, Clients' = Clients \cup {c}
      PROVE  \E w \in Worlds, i \in Pids : Join(c, w, i)
  BY <1>2 DEF Follow
<1>3. ASSUME NEW c \in Sockets \ Clients, Clients' = Clients \cup {c}
      PROVE  Clients' # Clients /\ \A d \in Clients : conn'[d].session = conn[d].session
  BY <1>1, <1>3
<1>4. ASSUME Clients' \subseteq Clients
      PROVE  /\ Leave(Clients \ Clients')
             /\ \A d \in Clients' : conn'[d].session = conn[d].session
  BY <1>1, <1>4 DEF Follow
<1> QED
  BY <1>1, <1>2, <1>3, <1>4, JoinStep, LeaveStep

-----------------------------------------------------------------------------
(* The player counts *)

(* When nobody is being checked and the counter has not changed, neither   *)
(* have the clients.                                                       *)
LEMMA SameCounterSameClients ==
    ASSUME CheckInv, [Next]_vars, counter' = counter, Pending' = {}
    PROVE  Pending = {} /\ Clients' = Clients
<1>1. CounterExact /\ CounterExact'
  BY NextInv DEF CheckInv, Inv
<1>2. /\ IsFiniteSet(Pending) /\ IsFiniteSet(Clients) /\ IsFiniteSet(Clients')
      /\ Held = Pending \cup Clients /\ Held' = Pending' \cup Clients'
  BY SocketsAssumption, FS_Subset DEF Pending, Clients, Held
<1>3. Pending = {}
  BY <1>1, <1>2, FS_EmptySet DEF CounterExact
<1>4. Cardinality(Clients') = Cardinality(Clients)
  BY <1>1, <1>2, <1>3 DEF CounterExact
<1>5. CASE Clients' \subseteq Clients
  BY <1>2, <1>3, <1>4, <1>5, FS_Subset
<1>6. ASSUME NEW c \in Sockets \ Clients, Clients' = Clients \cup {c} PROVE FALSE
  <2>1. Cardinality(Clients') = Cardinality(Clients) + 1 /\ Cardinality(Clients) \in Nat
    BY <1>2, <1>6, FS_AddElement, FS_CardinalityType
  <2> QED
    BY <1>4, <2>1
<1> QED
  BY <1>3, <1>5, <1>6, ClientsStep

(* The counts are told again after a callback that changed them. *)
LEMMA UpdatesSettle ==
    ASSUME ServerInv, [Next]_vars, Follow, UpdatesFunc
    PROVE  StatsSettle'
<1>1. SUFFICES ASSUME statsTimer' = "0", Pending' = {} PROVE told'
  BY DEF StatsSettle
<1>2. statsTimer = "0" /\ ~Called
  BY <1>1 DEF UpdatesFunc
<1>3. counter' = counter
  BY <1>1, <1>2 DEF Called
<1>4. Pending = {} /\ Clients' = Clients
  BY <1>1, <1>3, SameCounterSameClients DEF ServerInv
<1>5. players' = players /\ told
  BY <1>2, <1>4, FollowStep DEF ServerInv, StatsSettle
<1> QED
  BY <1>3, <1>5 DEF UpdatesFunc

(* The stop clears the timer unless there was nobody to tell. *)
LEMMA ClearSettles ==
    ASSUME ServerInv, UnsafeStop, Follow, ClearTimers
    PROVE  StatsSettle'
<1>1. SUFFICES ASSUME statsTimer' = "0", Pending' = {} PROVE told'
  BY DEF StatsSettle
<1>2. statsTimer = "0" /\ ~Called
  BY <1>1 DEF ClearTimers
<1>3. counter' = counter
  BY <1>1, <1>2 DEF Called
<1>4. [Next]_vars
  BY DEF Next
<1>5. Pending = {} /\ Clients' = Clients
  BY <1>1, <1>3, <1>4, SameCounterSameClients DEF ServerInv
<1>6. told
  BY <1>2, <1>5 DEF ServerInv, StatsSettle
<1>7. ASSUME NEW c \in Sockets, conn[c].open PROVE FALSE
  <2>1. conn[c].state \in {"new", "pending", "client", "gone"} /\ Good(conn[c])
    BY DEF ServerInv, CheckInv, Inv, TypeOK, Connections, ConnectionsGood
  <2>2. conn[c].state = "client"
    BY <1>5, <1>7, <2>1 DEF Good, Pending
  <2>3. conn'[c].state = "gone"
    <3>1. conn'[c] = Closed(conn[c])
      BY <1>7 DEF UnsafeStop, CloseAll, OpenSockets
    <3>2. conn[c] \in Connections
      BY DEF ServerInv, CheckInv, Inv, TypeOK
    <3> QED
      BY <2>2, <3>1, <3>2 DEF Closed, Connections
  <2> QED
    BY <1>5, <2>2, <2>3 DEF Clients
<1> QED
  BY <1>6, <1>7 DEF ClearTimers, OpenSockets

-----------------------------------------------------------------------------
(* The theorems *)

(* The ids of a world are as many as its players. *)
LEMMA AsManyIds ==
    ASSUME ServerInv, NEW w \in Worlds
    PROVE  Cardinality(ids[w]) = Cardinality(Here(w))
<1>1. /\ ids[w] = {place[c].pid : c \in Here(w)} /\ IsFiniteSet(Here(w))
      /\ \A c, d \in Here(w) : place[c].pid = place[d].pid => c = d
  <2>1. IsFiniteSet(Here(w))
    BY SocketsAssumption, FS_Subset DEF Here, Clients
  <2> QED
    BY <2>1 DEF ServerInv, Lists, PidsOf, Apart
<1> DEFINE f == [c \in Here(w) |-> place[c].pid]
<1>2. f \in Bijection(Here(w), ids[w])
  BY <1>1 DEF Bijection, Injection, Surjection, IsInjective
<1> QED
  BY <1>1, <1>2, FS_Bijection DEF ExistsBijection

(* Initially there is nobody and nothing. *)
LEMMA InitServer == ServerInit => ServerInv
<1> SUFFICES ASSUME ServerInit PROVE ServerInv
  OBVIOUS
<1>1. CheckInv
  BY InitChecked DEF ServerInit
<1>2. Clients = {}
  BY DEF ServerInit, Init, Unused, Clients
<1>3. ServerTypeOK
  BY <1>1 DEF CheckInv, Inv, ServerInit, ServerTypeOK
<1>4. Apart /\ Lists
  BY <1>2 DEF ServerInit, Apart, Lists, Here, PidsOf
<1>5. WorldsInUse /\ StatsSettle
  BY DEF ServerInit, WorldsInUse, StatsSettle
<1> QED
  BY <1>1, <1>3, <1>4, <1>5 DEF ServerInv

(* Every step of the server preserves the invariant. *)
LEMMA NextServer == ServerInv /\ [ServerNext]_serverVars => ServerInv'
<1> SUFFICES ASSUME ServerInv, [ServerNext]_serverVars PROVE ServerInv'
  OBVIOUS
<1>1. [Next]_vars /\ CheckInv /\ CheckInv' /\ TypeOK'
  BY ServerStep, NextChecked DEF ServerInv, CheckInv, Inv
<1>2. /\ statsTimer \in {"0", "set", "cleared"} /\ told \in BOOLEAN
      /\ ServerTypeOK
  BY DEF ServerInv, ServerTypeOK
<1>3. CASE Connecting /\ Follow /\ UpdatesFunc
  <2>1. StatsSettle'
    BY <1>1, <1>3, UpdatesSettle
  <2>2. statsTimer' \in {"0", "set", "cleared"} /\ told' \in BOOLEAN
    BY <1>2, <1>3 DEF UpdatesFunc
  <2> QED
    BY <1>1, <1>3, <2>1, <2>2, FollowStep DEF ServerInv, ServerTypeOK
<1>4. CASE UnsafeStop /\ Follow /\ ClearTimers
  <2>1. StatsSettle'
    BY <1>4, ClearSettles
  <2>2. statsTimer' \in {"0", "set", "cleared"} /\ told' \in BOOLEAN
    BY <1>2, <1>4 DEF ClearTimers
  <2> QED
    BY <1>1, <1>4, <2>1, <2>2, FollowStep DEF ServerInv, ServerTypeOK
<1>5. ASSUME UNCHANGED <<conn, place, players, ids, activeClients>>
      PROVE  Apart' /\ Lists' /\ Pending' = Pending
  BY <1>5 DEF ServerInv, Apart, Lists, Here, PidsOf, Clients, Pending
<1>6. CASE SendStats
  <2>1. StatsSettle' /\ WorldsInUse'
    BY <1>6 DEF SendStats, placesVars, StatsSettle, ServerInv, WorldsInUse
  <2>2. ServerTypeOK'
    BY <1>1, <1>2, <1>6 DEF SendStats, placesVars, ServerTypeOK
  <2> QED
    BY <1>1, <1>5, <1>6, <2>1, <2>2 DEF SendStats, placesVars, vars, ServerInv
<1>7. ASSUME NEW w \in Worlds, QueueEncoding(w) PROVE ServerInv'
  <2>1. /\ UNCHANGED <<conn, place, players, ids, activeClients>>
        /\ UNCHANGED <<worlds, statsTimer, told>>
        /\ w \in worlds /\ encoding' = encoding \cup {w}
    BY <1>7 DEF QueueEncoding, vars
  <2>2. StatsSettle'
    BY <1>5, <2>1 DEF ServerInv, StatsSettle
  <2>3. WorldsInUse'
    BY <2>1 DEF ServerInv, WorldsInUse
  <2>4. ServerTypeOK'
    BY <1>1, <1>2, <2>1 DEF ServerTypeOK
  <2> QED
    BY <1>1, <1>5, <2>1, <2>2, <2>3, <2>4 DEF ServerInv
<1>8. ASSUME NEW w \in Worlds, EncodingEnds(w) PROVE ServerInv'
  <2>1. /\ UNCHANGED <<conn, place, players, ids, activeClients>>
        /\ UNCHANGED <<statsTimer, told>>
        /\ encoding' = encoding \ {w}
        /\ worlds' = IF players[w] = {} THEN worlds \ {w} ELSE worlds
        /\ w \in encoding
    BY <1>8 DEF EncodingEnds, vars
  <2>2. StatsSettle'
    BY <1>5, <2>1 DEF ServerInv, StatsSettle
  <2>3. WorldsInUse'
    BY <2>1 DEF ServerInv, WorldsInUse
  <2>4. ServerTypeOK'
    BY <1>1, <1>2, <2>1 DEF ServerTypeOK
  <2> QED
    BY <1>1, <1>5, <2>1, <2>2, <2>3, <2>4 DEF ServerInv
<1>9. CASE UNCHANGED serverVars
  <2>1. /\ UNCHANGED <<conn, place, players, ids, activeClients>>
        /\ UNCHANGED <<worlds, encoding, statsTimer, told>>
    BY <1>9 DEF serverVars, vars, placesVars
  <2>2. ServerTypeOK' /\ WorldsInUse' /\ StatsSettle'
    BY <1>1, <1>2, <1>5, <2>1 DEF ServerInv, ServerTypeOK, WorldsInUse, StatsSettle
  <2> QED
    BY <1>1, <1>5, <2>1, <2>2 DEF ServerInv
<1> QED
  BY <1>3, <1>4, <1>6, <1>7, <1>8, <1>9 DEF ServerNext

LEMMA AlwaysServerInv == ServerSpec => []ServerInv
BY InitServer, NextServer, PTL DEF ServerSpec

(* The variables of the server keep their types. *)
THEOREM ServerTypeCorrect == ServerSpec => []ServerTypeOK
<1>1. ServerInv => ServerTypeOK
  BY DEF ServerInv
<1> QED
  BY <1>1, AlwaysServerInv, PTL

(* The players and ids of every world and the clients of every session are *)
(* those of the connections: an id that is given out again is never that   *)
(* of a player who is still there, and no emplace or erase hits another.   *)
THEOREM RosterIsExact == ServerSpec => []RosterExact
<1>1. ServerInv => RosterExact
  <2> SUFFICES ASSUME ServerInv PROVE RosterExact
    OBVIOUS
  <2>1. \A w \in Worlds : Cardinality(ids[w]) = Cardinality(Here(w))
    BY AsManyIds
  <2> QED
    BY <2>1 DEF ServerInv, Lists, PidsOf, Here, RosterExact
<1> QED
  BY <1>1, AlwaysServerInv, PTL

(* A world is in memory just when it has a player or an encoding. *)
THEOREM WorldsAreInUse == ServerSpec => []WorldsInUse
<1>1. ServerInv => WorldsInUse
  BY DEF ServerInv
<1> QED
  BY <1>1, AlwaysServerInv, PTL

(* Once the timer has fired and nobody is being checked, every player has  *)
(* been told the counts: no connection that came or went was missed.       *)
THEOREM StatsAreTold == ServerSpec => []StatsSettle
<1>1. ServerInv => StatsSettle
  BY DEF ServerInv
<1> QED
  BY <1>1, AlwaysServerInv, PTL
=============================================================================

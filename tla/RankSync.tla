------------------------------ MODULE RankSync ------------------------------
(***************************************************************************)
(* How the server keeps AuthManager::ranks up to date: when it is          *)
(* connected to the database it listens to the changes of ranks and then   *)
(* loads them all, and at each change it is told of it loads that rank     *)
(* again.                                                                  *)
(*                                                                         *)
(* Queries wait in a queue and are run one at a time. Their answers and    *)
(* the notifications arrive in the order in which the database made them.  *)
(* The connection may be lost with everything on its way, and is made      *)
(* again. That much of the database and of its client (AsyncPostgres) is   *)
(* external. The LISTEN queries have a higher number (999) than the others *)
(* (10) and are made first: both ways to read that number, as a priority   *)
(* or as nothing, run them first.                                          *)
(***************************************************************************)
EXTENDS Naturals, Sequences

CONSTANTS
    Ranks,
    MaxVersion,  \* bound: a rank changes that often
    MaxLosses,   \* bound: the connection is lost that often
    Unknown      \* the rank has not been loaded

ASSUME MaxVersionAssumption == MaxVersion \in Nat

ASSUME MaxLossesAssumption == MaxLosses \in Nat

ASSUME UnknownAssumption == Unknown \notin Nat

VARIABLES
    dbRanks,    \* dbRanks[k]: the content of rank k in the database
    connected,  \* the connection to the database is up
    listening,  \* the database notifies this connection of changes
    queries,    \* the queries that were not sent yet
    stream,     \* answers and notifications on their way to the server
    ranks,      \* AuthManager::ranks
    losses      \* how often the connection was lost

vars == <<dbRanks, connected, listening, queries, stream, ranks, losses>>

Versions == 0 .. MaxVersion

(* LISTEN, SELECT of the ranks in a set *)
Listen == [type |-> "listen"]
Select(ids) == [type |-> "select", ids |-> ids]
Queries == {Listen} \cup {Select(ids) : ids \in SUBSET Ranks}

(* What arrives: the end of a LISTEN, the rows of a SELECT, a notification. *)
Listening == [type |-> "listening"]
Rows(ids) == [type |-> "rows", content |-> [k \in ids |-> dbRanks[k]]]
Changed(k) == [type |-> "changed", id |-> k]
Messages ==
    {Listening} \cup {Changed(k) : k \in Ranks}
        \cup [type : {"rows"}, content : UNION {[ids -> Versions] : ids \in SUBSET Ranks}]

TypeOK ==
    /\ dbRanks \in [Ranks -> Versions]
    /\ connected \in BOOLEAN
    /\ listening \in BOOLEAN
    /\ queries \in Seq(Queries)
    /\ stream \in Seq(Messages)
    /\ ranks \in [Ranks -> Versions \cup {Unknown}]
    /\ losses \in 0 .. MaxLosses

-----------------------------------------------------------------------------
(* registerNotifs. The variant loads the ranks before it listens. *)
RegisterNotifsLate == <<Select(Ranks), Listen>>

RegisterNotifs == <<Listen, Select(Ranks)>>

(* The handler of uv_rank_upd. *)
OnRankUpdate(k) == <<Select({k})>>

(* updateRank of each row. The first variant only inserts, the second has  *)
(* the rows replace the table.                                             *)
InsertedRanks(content) ==
    [k \in Ranks |-> IF k \in DOMAIN content /\ ranks[k] = Unknown
                     THEN content[k] ELSE ranks[k]]

ReplacedRanks(content) == content

UpdatedRanks(content) ==
    [k \in Ranks |-> IF k \in DOMAIN content THEN content[k] ELSE ranks[k]]

-----------------------------------------------------------------------------
(* Another program changes a rank. *)
ChangeRank(k) ==
    /\ dbRanks[k] < MaxVersion
    /\ dbRanks' = [dbRanks EXCEPT ![k] = @ + 1]
    /\ stream' = IF listening THEN Append(stream, Changed(k)) ELSE stream
    /\ UNCHANGED <<connected, listening, queries, ranks, losses>>

(* onConnectionStateChange(CONNECTION_OK). *)
Connect ==
    /\ ~connected
    /\ connected' = TRUE
    /\ queries' = queries \o RegisterNotifs
    /\ UNCHANGED <<dbRanks, listening, stream, ranks, losses>>

(* The database runs the first query, unless one is not answered yet. *)
Run ==
    /\ connected /\ queries # <<>>
    /\ \A i \in DOMAIN stream : stream[i].type = "changed"
    /\ queries' = Tail(queries)
    /\ IF Head(queries) = Listen
       THEN listening' = TRUE /\ stream' = Append(stream, Listening)
       ELSE listening' = listening /\ stream' = Append(stream, Rows(Head(queries).ids))
    /\ UNCHANGED <<dbRanks, connected, ranks, losses>>

(* The server gets the first message: onNotification, or the callback of a *)
(* query.                                                                  *)
Receive ==
    /\ stream # <<>>
    /\ stream' = Tail(stream)
    /\ LET m == Head(stream)
       IN  /\ queries' = IF m.type = "changed" THEN queries \o OnRankUpdate(m.id)
                         ELSE queries
           /\ ranks' = IF m.type = "rows" THEN UpdatedRanks(m.content) ELSE ranks
    /\ UNCHANGED <<dbRanks, connected, listening, losses>>

(* The connection is lost; the waiting queries are kept, or fail. *)
Lose ==
    /\ connected /\ losses < MaxLosses
    /\ connected' = FALSE
    /\ listening' = FALSE
    /\ stream' = <<>>
    /\ queries' \in {queries, <<>>}
    /\ losses' = losses + 1
    /\ UNCHANGED <<dbRanks, ranks>>

Init ==
    /\ dbRanks = [k \in Ranks |-> 0]
    /\ connected = FALSE
    /\ listening = FALSE
    /\ queries = <<>>
    /\ stream = <<>>
    /\ ranks = [k \in Ranks |-> Unknown]
    /\ losses = 0

Next == Connect \/ Run \/ Receive \/ Lose \/ \E k \in Ranks : ChangeRank(k)

Spec == Init /\ [][Next]_vars

(* The client connects again, the database answers, and the event loop     *)
(* delivers what arrives.                                                  *)
FairSpec == Spec /\ WF_vars(Connect) /\ WF_vars(Run) /\ WF_vars(Receive)

-----------------------------------------------------------------------------
(* Something that will bring the present content of rank k: rows that have *)
(* it, or a notification or a query that leads to such rows.               *)
Coming(k) ==
    \/ \E i \in DOMAIN stream :
          LET m == stream[i]
          IN  \/ m.type = "changed" /\ m.id = k
              \/ m.type = "rows" /\ k \in DOMAIN m.content /\ m.content[k] = dbRanks[k]
    \/ \E i \in DOMAIN queries : queries[i].type = "select" /\ k \in queries[i].ids

(* While it is connected, a rank the server has is the present one, or the *)
(* present one is coming: no change falls between the load of the ranks    *)
(* and the notifications.                                                  *)
RanksFollow == connected => \A k \in Ranks : ranks[k] = dbRanks[k] \/ Coming(k)

(* Once no rank changes and the connection holds, the server comes to have *)
(* every rank as it is in the database.                                    *)
RanksConverge == <>[](ranks = dbRanks)
=============================================================================

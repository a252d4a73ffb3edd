---------------------------- MODULE AuthManager ----------------------------
(***************************************************************************)
(* AuthManager: the sessions and users that connections hold, and the maps *)
(* of weak pointers that let connections share them.                       *)
(*                                                                         *)
(* A connection that presents a token takes the session of that token if   *)
(* one is alive, or else has it loaded from the database, which answers    *)
(* later. A session is alive for as long as a connection holds it, and a   *)
(* user for as long as one of its sessions is. The objects have identities *)
(* so that two sessions of one token would be seen to be two.              *)
(***************************************************************************)
EXTENDS Naturals, FiniteSets

CONSTANTS
    Holders,     \* connections and the clients they become
    Tokens,      \* tokens of sessions that parse
    Uids,        \* ids of users
    Owner,       \* Owner[t]: the user id written in token t
    Ranks,       \* ids of ranks
    Versions,    \* the contents a rank may have
    SessionIds,  \* identities of Session objects
    UserIds,     \* identities of User objects
    Null,        \* no object
    NoRow,       \* the database has no such session
    Unknown      \* the rank has not been loaded

ASSUME OwnerAssumption == Owner \in [Tokens -> Uids]

ASSUME NullAssumption == Null \notin SessionIds \cup UserIds

ASSUME MarkersAssumption == NoRow \notin Ranks /\ Unknown \notin Versions

ASSUME TokensAssumption ==
    \A S \in {Tokens, Ranks, Versions, SessionIds, UserIds} : S # {}

VARIABLES
    holder,     \* holder[h]: what connection h presents, awaits and holds
    sesObj,     \* sesObj[s]: the fields of the Session s
    usrObj,     \* usrObj[u]: the fields of the User u
    sessions,   \* AuthManager::sessions
    userCache,  \* AuthManager::userCache
    ranks,      \* AuthManager::ranks
    valid,      \* the sessions the database has
    rankOf      \* the rank the database has for each user

objects == <<sesObj, usrObj>>
caches == <<sessions, userCache>>
database == <<valid, rankOf>>
vars == <<holder, sesObj, usrObj, sessions, userCache, ranks, valid, rankOf>>

(* stage: the load of a session is queued, then run by the database, whose *)
(* row is on its way; gone: the connection was closed meanwhile.           *)
HolderStates ==
    [stage : {"idle", "queued", "answered"}, token : Tokens,
     row : Ranks \cup {NoRow}, gone : BOOLEAN, session : SessionIds \cup {Null}]

TypeOK ==
    /\ holder \in [Holders -> HolderStates]
    /\ sesObj \in [SessionIds -> [token : Tokens, user : UserIds]]
    /\ usrObj \in [UserIds -> [uid : Uids, rank : Ranks, version : Versions]]
    /\ sessions \in [Tokens -> SessionIds \cup {Null}]
    /\ userCache \in [Uids -> UserIds \cup {Null}]
    /\ ranks \in [Ranks -> Versions \cup {Unknown}]
    /\ valid \in SUBSET Tokens
    /\ rankOf \in [Uids -> Ranks]

-----------------------------------------------------------------------------
(* The objects that are alive: what weak_ptr::lock finds. *)
LiveSessions == {s \in SessionIds : \E h \in Holders : holder[h].session = s}

LiveUsers == {u \in UserIds : \E s \in LiveSessions : sesObj[s].user = u}

(* A weak pointer keeps the identity of its object from being used again. *)
FreshSessions == {s \in SessionIds \ LiveSessions : \A t \in Tokens : sessions[t] # s}

FreshUsers == {u \in UserIds \ LiveUsers : \A i \in Uids : userCache[i] # u}

GetSession(t) == IF sessions[t] \in LiveSessions THEN sessions[t] ELSE Null

GetUser(i) == IF userCache[i] \in LiveUsers THEN userCache[i] ELSE Null

(* What loadSession gives for token t, when s and u are the objects it     *)
(* would make. The variants do not look for an object made meanwhile.      *)
SessionForNew(t, s) == s

SessionFor(t, s) == IF GetSession(t) # Null THEN GetSession(t) ELSE s

UserForNew(i, u) == u

UserFor(i, u) == IF GetUser(i) # Null THEN GetUser(i) ELSE u

(* The answers that make a session. The variant takes every rank for known. *)
LoadableRow(t, row) == row # NoRow

Loadable(t, row) == row # NoRow /\ (GetUser(Owner[t]) # Null \/ ranks[row] # Unknown)

-----------------------------------------------------------------------------
(* SessionChecker: preCheck, and asyncCheck if no session is alive. *)
Present(h, t) ==
    /\ holder[h].stage = "idle" /\ holder[h].session = Null
    /\ holder' = [holder EXCEPT ![h] =
           [stage |-> IF GetSession(t) = Null THEN "queued" ELSE "idle",
            token |-> t, row |-> NoRow, gone |-> FALSE, session |-> GetSession(t)]]
    /\ sessions' = [sessions EXCEPT ![t] = GetSession(t)]
    /\ UNCHANGED <<objects, userCache, ranks, database>>

(* The database runs the query of h. *)
RunQuery(h) ==
    /\ holder[h].stage = "queued"
    /\ holder' = [holder EXCEPT ![h].stage = "answered",
           ![h].row = IF holder[h].token \in valid
                      THEN rankOf[Owner[holder[h].token]] ELSE NoRow]
    /\ UNCHANGED <<objects, caches, ranks, database>>

(* cancelQuery: the query of a closed connection ends without a row. *)
CancelQuery(h) ==
    /\ holder[h].stage = "queued" /\ holder[h].gone
    /\ holder' = [holder EXCEPT ![h].stage = "answered"]
    /\ UNCHANGED <<objects, caches, ranks, database>>

(* The callback of loadSession when there is no session to give. *)
LoadFails(h) ==
    LET t == holder[h].token
    IN  /\ holder[h].stage = "answered"
        /\ ~Loadable(t, holder[h].row)
        /\ holder' = [holder EXCEPT ![h].stage = "idle"]
        /\ userCache' = IF holder[h].row = NoRow THEN userCache
                        ELSE [userCache EXCEPT ![Owner[t]] = GetUser(Owner[t])]
        /\ UNCHANGED <<objects, sessions, ranks, database>>

(* The callback of loadSession, where s and u are the Session and the User *)
(* it makes if it has to. A connection that was closed lets go at once.    *)
LoadSession(h, s, u) ==
    LET t == holder[h].token
        row == holder[h].row
        usr == UserFor(Owner[t], u)
        ses == SessionFor(t, s)
    IN  /\ holder[h].stage = "answered"
        /\ Loadable(t, row)
        /\ usrObj' = IF usr # u THEN usrObj
                     ELSE [usrObj EXCEPT ![u] =
                              [uid |-> Owner[t], rank |-> row, version |-> ranks[row]]]
        /\ userCache' = [userCache EXCEPT ![Owner[t]] = usr]
        /\ sesObj' = IF ses # s THEN sesObj
                     ELSE [sesObj EXCEPT ![s] = [token |-> t, user |-> usr]]
        /\ sessions' = [sessions EXCEPT ![t] = ses]
        /\ holder' = [holder EXCEPT ![h].stage = "idle",
                          ![h].session = IF holder[h].gone THEN Null ELSE ses]
        /\ UNCHANGED <<ranks, database>>

(* The connection is closed, or refused by a later check: what it holds is *)
(* released, and what it waits for is marked.                              *)
Release(h) ==
    /\ holder[h].session # Null \/ holder[h].stage # "idle"
    /\ ~holder[h].gone
    /\ holder' = [holder EXCEPT ![h].session = Null,
                                ![h].gone = holder[h].stage # "idle"]
    /\ UNCHANGED <<objects, caches, ranks, database>>

(* The users updateRank tells of a new content of rank k. The variant      *)
(* leaves them with the old one.                                           *)
AffectedNone(k) == {}

Affected(k) ==
    {u \in LiveUsers : usrObj[u].rank = k /\ \E i \in Uids : userCache[i] = u}

(* updateRank, with the users' copies of the rank. *)
UpdateRank(k, v) ==
    /\ ranks' = [ranks EXCEPT ![k] = v]
    /\ usrObj' = [u \in UserIds |->
           IF u \in Affected(k) /\ ranks[k] # Unknown /\ ranks[k] # v
           THEN [usrObj[u] EXCEPT !.version = v] ELSE usrObj[u]]
    /\ UNCHANGED <<holder, sesObj, caches, database>>

(* Other programs change the database. *)
ChangeDatabase ==
    /\ \/ \E t \in Tokens : valid' = valid \ {t} /\ t \in valid /\ UNCHANGED rankOf
       \/ \E i \in Uids, k \in Ranks :
              rankOf[i] # k /\ rankOf' = [rankOf EXCEPT ![i] = k] /\ UNCHANGED valid
    /\ UNCHANGED <<holder, objects, caches, ranks>>

Init ==
    /\ holder \in [Holders -> {[stage |-> "idle", token |-> t, row |-> NoRow,
                                gone |-> FALSE, session |-> Null] :
                                   t \in {CHOOSE t \in Tokens : TRUE}}]
    /\ sesObj \in [SessionIds -> {[token |-> CHOOSE t \in Tokens : TRUE,
                                   user |-> CHOOSE u \in UserIds : TRUE]}]
    /\ usrObj \in [UserIds -> {[uid |-> Owner[CHOOSE t \in Tokens : TRUE],
                                rank |-> CHOOSE k \in Ranks : TRUE,
                                version |-> CHOOSE v \in Versions : TRUE]}]
    /\ sessions = [t \in Tokens |-> Null]
    /\ userCache = [i \in Uids |-> Null]
    /\ ranks = [k \in Ranks |-> Unknown]
    /\ valid = Tokens
    /\ rankOf \in [Uids -> Ranks]

Next ==
    \/ \E h \in Holders, t \in Tokens : Present(h, t)
    \/ \E h \in Holders : RunQuery(h) \/ CancelQuery(h) \/ LoadFails(h) \/ Release(h)
    \/ \E h \in Holders, s \in FreshSessions, u \in FreshUsers : LoadSession(h, s, u)
    \/ \E k \in Ranks, v \in Versions : UpdateRank(k, v)
    \/ ChangeDatabase

Spec == Init /\ [][Next]_vars

-----------------------------------------------------------------------------
(* Every session that is alive is the one the map has for its token, so no *)
(* token has two, even when connections load it at the same time.          *)
SessionsCached == \A s \in LiveSessions : sessions[sesObj[s].token] = s

(* Every user that is alive is the one the cache has for its id, and a     *)
(* session belongs to the user its token names.                            *)
UsersCached ==
    \A s \in LiveSessions :
        LET u == sesObj[s].user
        IN  /\ usrObj[u].uid = Owner[sesObj[s].token]
            /\ userCache[usrObj[u].uid] = u

(* A user that is alive has the content of its rank that was loaded last,  *)
(* however loads of sessions and updates of ranks interleave.              *)
RanksAgree ==
    \A u \in LiveUsers : usrObj[u].version = ranks[usrObj[u].rank]
=============================================================================

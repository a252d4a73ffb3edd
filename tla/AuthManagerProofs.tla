------------------------- MODULE AuthManagerProofs -------------------------
(***************************************************************************)
(* Proofs about AuthManager: one session per token, one user per id, and   *)
(* ranks that agree with the table of ranks.                               *)
(***************************************************************************)
EXTENDS AuthManager, TLAPS

(* What is invariant: sessions and users are found by the maps, which is   *)
(* why updateRank, which goes through a map, reaches every user alive.     *)
(* An entry of a map, expired or not, is for an object of its key, since   *)
(* no identity is used again while a weak pointer keeps it.                *)
EntriesKeyed ==
    /\ \A t \in Tokens : sessions[t] # Null => sesObj[sessions[t]].token = t
    /\ \A i \in Uids : userCache[i] # Null => usrObj[userCache[i]].uid = i

Inv == TypeOK /\ SessionsCached /\ UsersCached /\ RanksAgree /\ EntriesKeyed

(* The user of a session that is alive is alive. *)
LEMMA UserOfLive ==
    ASSUME TypeOK, NEW s \in LiveSessions
    PROVE  s \in SessionIds /\ sesObj[s].user \in LiveUsers /\ sesObj[s].token \in Tokens
<1>1. s \in SessionIds
  BY DEF LiveSessions
<1>2. sesObj[s] \in [token : Tokens, user : UserIds]
  BY <1>1 DEF TypeOK
<1> QED BY <1>1, <1>2 DEF LiveUsers

(* The same, after a step. *)
LEMMA UserOfLiveNext ==
    ASSUME TypeOK', NEW s \in LiveSessions'
    PROVE  sesObj'[s].user \in LiveUsers'
<1>1. s \in SessionIds
  BY DEF LiveSessions
<1>2. sesObj'[s] \in [token : Tokens, user : UserIds]
  BY <1>1 DEF TypeOK
<1> QED BY <1>1, <1>2 DEF LiveUsers

(* A session taken from the map is alive and is the one of its token. *)
LEMMA GetSessionFacts ==
    ASSUME Inv, NEW t \in Tokens
    PROVE  /\ GetSession(t) \in LiveSessions \cup {Null}
           /\ \A s \in LiveSessions : sesObj[s].token = t => GetSession(t) = s
           /\ Null \notin LiveSessions
<1>1. SessionsCached
  BY DEF Inv
<1>2. Null \notin LiveSessions
  BY NullAssumption DEF LiveSessions
<1> QED BY <1>1, <1>2 DEF GetSession, SessionsCached

(* The entry a lookup leaves is the one there was, or none. *)
LEMMA GetSessionEntry ==
    \A t \in Tokens : GetSession(t) \in {sessions[t], Null}
BY DEF GetSession

(* The same for users. *)
LEMMA GetUserEntry ==
    \A i \in Uids : GetUser(i) \in {userCache[i], Null}
BY DEF GetUser

(* A user taken from the cache is alive and has that id. *)
LEMMA GetUserFacts ==
    ASSUME Inv, NEW i \in Uids
    PROVE  /\ GetUser(i) \in LiveUsers \cup {Null}
           /\ GetUser(i) # Null => userCache[i] = GetUser(i)
           /\ \A u \in LiveUsers : usrObj[u].uid = i => GetUser(i) = u
           /\ \A u \in LiveUsers : userCache[usrObj[u].uid] = u
           /\ Null \notin LiveUsers
<1>1. \A u \in LiveUsers : userCache[usrObj[u].uid] = u
  BY DEF Inv, UsersCached, LiveUsers
<1>2. Null \notin LiveUsers
  BY NullAssumption DEF LiveUsers
<1> QED BY <1>1, <1>2 DEF GetUser

(* Steps that change no object and no map, and let no session come alive,  *)
(* keep what is said of those alive.                                       *)
LEMMA FewerAlive ==
    ASSUME Inv, UNCHANGED <<objects, caches, ranks>>,
           holder' \in [Holders -> HolderStates], LiveSessions' \subseteq LiveSessions,
           valid' \in SUBSET Tokens, rankOf' \in [Uids -> Ranks]
    PROVE  Inv'
<1>1. UNCHANGED <<sesObj, usrObj, sessions, userCache, ranks>>
  BY DEF objects, caches
<1>2. TypeOK'
  BY <1>1 DEF Inv, TypeOK
<1>3. LiveUsers' \subseteq LiveUsers
  BY <1>1 DEF LiveUsers
<1>4. SessionsCached'
  BY <1>1 DEF Inv, SessionsCached
<1>5. UsersCached'
  BY <1>1 DEF Inv, UsersCached
<1>6. RanksAgree'
  BY <1>1, <1>3 DEF Inv, RanksAgree
<1>7. EntriesKeyed'
  BY <1>1 DEF Inv, EntriesKeyed
<1> QED BY <1>2, <1>4, <1>5, <1>6, <1>7 DEF Inv

(* The invariant holds when the server starts. *)
LEMMA InitInv == Init => Inv
<1> SUFFICES ASSUME Init
             PROVE  Inv
  OBVIOUS
<1> DEFINE t == CHOOSE x \in Tokens : TRUE
           u == CHOOSE x \in UserIds : TRUE
           k == CHOOSE x \in Ranks : TRUE
           v == CHOOSE x \in Versions : TRUE
<1>1. t \in Tokens /\ u \in UserIds /\ k \in Ranks /\ v \in Versions /\ Owner[t] \in Uids
  BY TokensAssumption, OwnerAssumption
<1>2. /\ holder \in [Holders -> {[stage |-> "idle", token |-> t, row |-> NoRow,
                                  gone |-> FALSE, session |-> Null]}]
      /\ sesObj \in [SessionIds -> {[token |-> t, user |-> u]}]
      /\ usrObj \in [UserIds -> {[uid |-> Owner[t], rank |-> k, version |-> v]}]
      /\ sessions = [x \in Tokens |-> Null]
      /\ userCache = [i \in Uids |-> Null]
      /\ ranks = [x \in Ranks |-> Unknown]
      /\ valid = Tokens
      /\ rankOf \in [Uids -> Ranks]
  BY DEF Init
<1> HIDE DEF t, u, k, v
<1>3. [stage |-> "idle", token |-> t, row |-> NoRow, gone |-> FALSE, session |-> Null]
         \in HolderStates
  BY <1>1 DEF HolderStates
<1>4. TypeOK
  <2>1. [token |-> t, user |-> u] \in [token : Tokens, user : UserIds]
    BY <1>1
  <2>2. [uid |-> Owner[t], rank |-> k, version |-> v]
           \in [uid : Uids, rank : Ranks, version : Versions]
    BY <1>1
  <2>3. /\ holder \in [Holders -> HolderStates]
        /\ sesObj \in [SessionIds -> [token : Tokens, user : UserIds]]
        /\ usrObj \in [UserIds -> [uid : Uids, rank : Ranks, version : Versions]]
    BY <1>2, <1>3, <2>1, <2>2, Zenon
  <2> QED BY <1>2, <2>3 DEF TypeOK
<1>5. LiveSessions = {}
  BY <1>2, NullAssumption DEF LiveSessions
<1>6. LiveUsers = {}
  BY <1>5 DEF LiveUsers
<1>7. EntriesKeyed
  BY <1>2 DEF EntriesKeyed
<1> QED BY <1>4, <1>5, <1>6, <1>7 DEF Inv, SessionsCached, UsersCached, RanksAgree

(* A connection that presents a token keeps the invariant. *)
LEMMA PresentStep ==
    ASSUME Inv, NEW h \in Holders, NEW t \in Tokens, Present(h, t)
    PROVE  Inv'
<1> DEFINE g == GetSession(t)
           r == [stage |-> IF g = Null THEN "queued" ELSE "idle",
                 token |-> t, row |-> NoRow, gone |-> FALSE, session |-> g]
<1>1. /\ g \in LiveSessions \cup {Null}
      /\ \A s \in LiveSessions : sesObj[s].token = t => g = s
      /\ Null \notin LiveSessions
  BY GetSessionFacts
<1>2. /\ holder' = [holder EXCEPT ![h] = r]
      /\ sessions' = [sessions EXCEPT ![t] = g]
      /\ UNCHANGED <<sesObj, usrObj, userCache, ranks, valid, rankOf>>
  BY DEF Present, objects, database
<1>3. TypeOK /\ SessionsCached /\ UsersCached /\ RanksAgree
  BY DEF Inv
<1> HIDE DEF g
<1>4. g \in SessionIds \cup {Null}
  BY <1>1 DEF LiveSessions
<1>5. r \in HolderStates /\ r.session = g
  BY <1>4 DEF HolderStates
<1> HIDE DEF r
<1>6. TypeOK'
  BY <1>2, <1>3, <1>4, <1>5 DEF TypeOK
<1>7. LiveSessions' \subseteq LiveSessions
  <2> SUFFICES ASSUME NEW s \in SessionIds, NEW d \in Holders, holder'[d].session = s
               PROVE  s \in LiveSessions
    BY DEF LiveSessions
  <2>1. CASE d = h
    BY <1>1, <1>2, <1>3, <1>5, <2>1, NullAssumption DEF TypeOK
  <2>2. CASE d # h
    BY <1>2, <1>3, <2>2 DEF TypeOK, LiveSessions
  <2> QED BY <2>1, <2>2
<1>8. LiveUsers' \subseteq LiveUsers
  BY <1>2, <1>7 DEF LiveUsers
<1>9. SessionsCached'
  <2> SUFFICES ASSUME NEW s \in LiveSessions'
               PROVE  sessions'[sesObj[s].token] = s
    BY <1>2 DEF SessionsCached
  <2>1. s \in LiveSessions /\ sesObj[s].token \in Tokens
    BY <1>3, <1>7 DEF TypeOK, LiveSessions
  <2> QED BY <1>1, <1>2, <1>3, <2>1 DEF SessionsCached, TypeOK
<1>10. UsersCached' /\ RanksAgree'
  BY <1>2, <1>3, <1>7, <1>8 DEF UsersCached, RanksAgree
<1>11. EntriesKeyed'
  BY <1>2, <1>3, GetSessionEntry DEF Inv, EntriesKeyed, TypeOK, g
<1> QED BY <1>6, <1>9, <1>10, <1>11 DEF Inv

(* The steps that only move a connection keep the invariant. *)
LEMMA HolderSteps ==
    ASSUME Inv, NEW h \in Holders, RunQuery(h) \/ CancelQuery(h) \/ Release(h)
    PROVE  Inv'
<1>1. TypeOK /\ holder[h] \in HolderStates
  BY DEF Inv, TypeOK
<1>2. UNCHANGED <<objects, caches, ranks, valid, rankOf>>
  BY DEF RunQuery, CancelQuery, Release, database
<1>3. PICK r \in HolderStates :
         /\ holder' = [holder EXCEPT ![h] = r]
         /\ r.session \in {holder[h].session, Null}
  <2>1. CASE RunQuery(h)
    <3> DEFINE row == IF holder[h].token \in valid
                      THEN rankOf[Owner[holder[h].token]] ELSE NoRow
               r == [holder[h] EXCEPT !.stage = "answered", !.row = row]
    <3>1. row \in Ranks \cup {NoRow}
      BY <1>1, OwnerAssumption DEF TypeOK, HolderStates
    <3>2. holder' = [holder EXCEPT ![h] = r]
      BY <2>1 DEF RunQuery
    <3> HIDE DEF row
    <3>3. r \in HolderStates /\ r.session = holder[h].session
      BY <1>1, <3>1 DEF HolderStates
    <3> QED BY <3>2, <3>3
  <2>2. CASE CancelQuery(h)
    <3> DEFINE r == [holder[h] EXCEPT !.stage = "answered"]
    <3>1. holder' = [holder EXCEPT ![h] = r]
      BY <2>2 DEF CancelQuery
    <3>2. r \in HolderStates /\ r.session = holder[h].session
      BY <1>1 DEF HolderStates
    <3> QED BY <3>1, <3>2
  <2>3. CASE Release(h)
    <3> DEFINE b == holder[h].stage # "idle"
               r == [holder[h] EXCEPT !.session = Null, !.gone = b]
    <3>1. holder' = [holder EXCEPT ![h] = r]
      BY <2>3 DEF Release
    <3>2. b \in BOOLEAN
      OBVIOUS
    <3> HIDE DEF b
    <3>3. r \in HolderStates /\ r.session = Null
      BY <1>1, <3>2 DEF HolderStates
    <3> QED BY <3>1, <3>3
  <2> QED BY <2>1, <2>2, <2>3
<1>4. holder' \in [Holders -> HolderStates]
  BY <1>1, <1>3 DEF TypeOK
<1>5. LiveSessions' \subseteq LiveSessions
  <2> SUFFICES ASSUME NEW s \in SessionIds, NEW d \in Holders, holder'[d].session = s
               PROVE  holder[d].session = s
    BY DEF LiveSessions
  <2>1. CASE d = h
    BY <1>1, <1>3, <2>1, NullAssumption DEF TypeOK
  <2>2. CASE d # h
    BY <1>1, <1>3, <2>2 DEF TypeOK
  <2> QED BY <2>1, <2>2
<1> QED BY <1>1, <1>2, <1>4, <1>5, FewerAlive DEF TypeOK

(* So does a load that fails: it may drop a dead user from the cache. *)
LEMMA LoadFailsStep ==
    ASSUME Inv, NEW h \in Holders, LoadFails(h)
    PROVE  Inv'
<1> DEFINE r == [holder[h] EXCEPT !.stage = "idle"]
           i == Owner[holder[h].token]
           g == GetUser(i)
<1>1. TypeOK /\ SessionsCached /\ UsersCached /\ RanksAgree /\ holder[h] \in HolderStates
  BY DEF Inv, TypeOK
<1>2. i \in Uids
  BY <1>1, OwnerAssumption DEF HolderStates
<1>3. /\ g \in LiveUsers \cup {Null}
      /\ \A u \in LiveUsers : usrObj[u].uid = i => g = u
      /\ \A u \in LiveUsers : userCache[usrObj[u].uid] = u
  BY <1>2, GetUserFacts
<1>4. /\ holder' = [holder EXCEPT ![h] = r]
      /\ userCache' = userCache \/ userCache' = [userCache EXCEPT ![i] = g]
      /\ UNCHANGED <<sesObj, usrObj, sessions, ranks, valid, rankOf>>
  BY DEF LoadFails, objects, database
<1> HIDE DEF i, g
<1>5. r \in HolderStates /\ r.session = holder[h].session
  BY <1>1 DEF HolderStates
<1> HIDE DEF r
<1>6. g \in UserIds \cup {Null}
  BY <1>3 DEF LiveUsers
<1>7. TypeOK'
  BY <1>1, <1>2, <1>4, <1>5, <1>6 DEF TypeOK
<1>8. LiveSessions' = LiveSessions
  BY <1>1, <1>4, <1>5 DEF LiveSessions, TypeOK
<1>9. LiveUsers' = LiveUsers
  BY <1>4, <1>8 DEF LiveUsers
<1>10. \A u \in LiveUsers : usrObj[u].uid \in Uids /\ userCache'[usrObj[u].uid] = u
  BY <1>1, <1>2, <1>3, <1>4 DEF LiveUsers, TypeOK
<1>11. UsersCached'
  BY <1>1, <1>4, <1>8, <1>10, UserOfLive DEF UsersCached
<1>12. SessionsCached' /\ RanksAgree'
  BY <1>1, <1>4, <1>8, <1>9 DEF SessionsCached, RanksAgree
<1>13. EntriesKeyed'
  BY <1>1, <1>2, <1>4, GetUserEntry DEF Inv, EntriesKeyed, TypeOK, g
<1> QED BY <1>7, <1>11, <1>12, <1>13 DEF Inv

(* A load that gives a session keeps the invariant: what it makes is new,  *)
(* and only made if there was no such object alive.                        *)
LEMMA LoadSessionStep ==
    ASSUME Inv, NEW h \in Holders, NEW s \in FreshSessions, NEW u \in FreshUsers,
           LoadSession(h, s, u)
    PROVE  Inv'
<1> DEFINE t == holder[h].token
           row == holder[h].row
           i == Owner[t]
           usr == UserFor(i, u)
           ses == SessionFor(t, s)
           held == IF holder[h].gone THEN Null ELSE ses
           r == [holder[h] EXCEPT !.stage = "idle", !.session = held]
           nu == [uid |-> i, rank |-> row, version |-> ranks[row]]
           ns == [token |-> t, user |-> usr]
<1>1. TypeOK /\ SessionsCached /\ UsersCached /\ RanksAgree /\ holder[h] \in HolderStates
  BY DEF Inv, TypeOK
<1>2. t \in Tokens /\ i \in Uids
  BY <1>1, OwnerAssumption DEF HolderStates
<1>3. /\ s \in SessionIds /\ s \notin LiveSessions /\ s # Null
      /\ u \in UserIds /\ u \notin LiveUsers /\ u # Null
  BY NullAssumption DEF FreshSessions, FreshUsers
<1>4. /\ holder' = [holder EXCEPT ![h] = r]
      /\ usrObj' = IF usr # u THEN usrObj ELSE [usrObj EXCEPT ![u] = nu]
      /\ userCache' = [userCache EXCEPT ![i] = usr]
      /\ sesObj' = IF ses # s THEN sesObj ELSE [sesObj EXCEPT ![s] = ns]
      /\ sessions' = [sessions EXCEPT ![t] = ses]
      /\ UNCHANGED <<ranks, valid, rankOf>>
      /\ Loadable(t, row)
  BY DEF LoadSession, database
<1>5. \/ /\ usr \in LiveUsers /\ userCache[i] = usr /\ usr # u
      \/ /\ usr = u /\ GetUser(i) = Null
  BY <1>2, <1>3, GetUserFacts DEF UserFor
<1>6. \/ ses \in LiveSessions /\ ses # s /\ sessions[t] = ses
      \/ ses = s /\ \A d \in LiveSessions : sesObj[d].token # t
  BY <1>2, <1>3, GetSessionFacts DEF SessionFor, GetSession
<1>7. \A d \in LiveUsers : usrObj[d].uid = i => d = usr
  BY <1>2, <1>5, GetUserFacts
<1>8. usr = u => row \in Ranks /\ ranks[row] \in Versions
  <2>1. row \in Ranks \cup {NoRow} /\ row # NoRow
    BY <1>1, <1>4 DEF HolderStates, Loadable
  <2>2. usr = u => ranks[row] # Unknown
    BY <1>3, <1>4, <1>5 DEF Loadable
  <2> QED BY <1>1, <2>1, <2>2 DEF TypeOK
<1>9. \A d \in LiveUsers : usrObj[d].uid \in Uids /\ userCache[usrObj[d].uid] = d
  BY <1>1, GetUserFacts, TokensAssumption DEF LiveUsers, TypeOK
<1>10. usr \in UserIds /\ ses \in SessionIds
  BY <1>3, <1>5, <1>6 DEF LiveUsers, LiveSessions
<1>11. held \in {ses, Null}
  OBVIOUS
<1> HIDE DEF usr, ses, i, t, row, held
<1>12. r \in HolderStates /\ r.session = held
  BY <1>1, <1>10, <1>11 DEF HolderStates
<1>13. /\ usr = u => nu \in [uid : Uids, rank : Ranks, version : Versions]
       /\ ns \in [token : Tokens, user : UserIds]
  BY <1>2, <1>8, <1>10
<1>14. nu.uid = i /\ nu.rank = row /\ nu.version = ranks[row] /\ ns.token = t /\ ns.user = usr
  OBVIOUS
<1> HIDE DEF r, nu, ns
<1>15. TypeOK'
  BY <1>1, <1>2, <1>4, <1>10, <1>12, <1>13 DEF TypeOK
<1>16. LiveSessions' \subseteq LiveSessions \cup {ses}
  <2> SUFFICES ASSUME NEW d \in SessionIds, NEW e \in Holders, holder'[e].session = d
               PROVE  d \in LiveSessions \cup {ses}
    BY DEF LiveSessions
  <2>1. CASE e = h
    BY <1>1, <1>4, <1>11, <1>12, <2>1, NullAssumption DEF TypeOK
  <2>2. CASE e # h
    BY <1>1, <1>4, <2>2 DEF TypeOK, LiveSessions
  <2> QED BY <2>1, <2>2
<1>17. \A d \in LiveSessions \ {ses} :
          /\ sesObj'[d] = sesObj[d] /\ sesObj[d].token # t
          /\ sesObj[d].user \in LiveUsers
  <2> SUFFICES ASSUME NEW d \in LiveSessions \ {ses}
               PROVE  /\ sesObj'[d] = sesObj[d] /\ sesObj[d].token # t
                      /\ sesObj[d].user \in LiveUsers
    OBVIOUS
  <2>1. d # s /\ d \in SessionIds /\ sesObj[d].user \in LiveUsers
    BY <1>1, <1>3, UserOfLive
  <2>2. sesObj'[d] = sesObj[d]
    BY <1>1, <1>4, <2>1 DEF TypeOK
  <2>3. sesObj[d].token # t
    BY <1>1, <1>6 DEF SessionsCached
  <2> QED BY <2>1, <2>2, <2>3
<1>18. /\ sesObj'[ses].token = t
       /\ sesObj'[ses].user = usr \/ (ses \in LiveSessions /\ sesObj'[ses].user \in LiveUsers)
  <2>1. CASE ses \in LiveSessions /\ ses # s /\ sessions[t] = ses
    <3>1. sesObj'[ses] = sesObj[ses] /\ sesObj[ses].user \in LiveUsers
      BY <1>1, <1>4, <2>1, UserOfLive
    <3>3. sesObj[ses].token = t
      BY <1>2, <1>3, <1>10, <2>1, NullAssumption DEF Inv, EntriesKeyed
    <3> QED BY <2>1, <3>1, <3>3
  <2>2. CASE ses = s
    BY <1>1, <1>3, <1>4, <1>14, <2>2 DEF TypeOK
  <2> QED BY <1>6, <2>1, <2>2
<1>19. \A d \in LiveUsers : usrObj'[d] = usrObj[d]
  BY <1>1, <1>3, <1>4 DEF TypeOK, LiveUsers
<1>20. LiveUsers' \subseteq LiveUsers \cup {usr}
  <2> SUFFICES ASSUME NEW e \in UserIds, NEW d \in LiveSessions', sesObj'[d].user = e
               PROVE  e \in LiveUsers \cup {usr}
    BY DEF LiveUsers
  <2>1. CASE d = ses
    BY <1>18, <2>1
  <2>2. CASE d # ses
    BY <1>16, <1>17, <2>2
  <2> QED BY <2>1, <2>2
<1>21. usrObj'[usr].uid = i /\ userCache'[i] = usr
  <2>1. CASE usr = u
    BY <1>1, <1>2, <1>3, <1>4, <1>14, <2>1 DEF TypeOK
  <2>2. CASE usr # u /\ userCache[i] = usr
    <3>1. usr # Null
      BY <1>10, NullAssumption
    <3> QED BY <1>1, <1>2, <1>4, <2>2, <3>1 DEF Inv, EntriesKeyed, TypeOK
  <2> QED BY <1>5, <2>1, <2>2
<1>22. SessionsCached'
  <2> SUFFICES ASSUME NEW d \in LiveSessions'
               PROVE  sessions'[sesObj'[d].token] = d
    BY DEF SessionsCached
  <2>1. CASE d = ses
    BY <1>1, <1>2, <1>4, <1>18, <2>1 DEF TypeOK
  <2>2. CASE d # ses
    <3>1. d \in LiveSessions \ {ses}
      BY <1>16, <2>2
    <3>2. sesObj[d].token \in Tokens
      BY <1>1, <3>1, UserOfLive
    <3> QED BY <1>1, <1>4, <1>17, <3>1, <3>2 DEF SessionsCached, TypeOK
  <2> QED BY <2>1, <2>2
<1>23. \A e \in LiveUsers' : userCache'[usrObj'[e].uid] = e
  <2> SUFFICES ASSUME NEW e \in LiveUsers'
               PROVE  userCache'[usrObj'[e].uid] = e
    OBVIOUS
  <2>1. CASE e = usr
    BY <1>21, <2>1
  <2>2. CASE e # usr
    <3>1. e \in LiveUsers /\ usrObj'[e] = usrObj[e]
      BY <1>19, <1>20, <2>2
    <3>2. usrObj[e].uid \in Uids /\ usrObj[e].uid # i /\ userCache[usrObj[e].uid] = e
      BY <1>7, <1>9, <2>2, <3>1
    <3> QED BY <1>1, <1>4, <3>1, <3>2 DEF TypeOK
  <2> QED BY <2>1, <2>2
<1>24. UsersCached'
  <2> SUFFICES ASSUME NEW d \in LiveSessions'
               PROVE  /\ usrObj'[sesObj'[d].user].uid = Owner[sesObj'[d].token]
                      /\ userCache'[usrObj'[sesObj'[d].user].uid] = sesObj'[d].user
    BY DEF UsersCached
  <2>1. sesObj'[d].user \in LiveUsers'
    BY <1>15, UserOfLiveNext
  <2>2. usrObj'[sesObj'[d].user].uid = Owner[sesObj'[d].token]
    <3>1. CASE d # ses
      <4>1. d \in LiveSessions \ {ses}
        BY <1>16, <3>1
      <4> QED BY <1>1, <1>17, <1>19, <4>1 DEF UsersCached
    <3>2. CASE d = ses /\ sesObj'[ses].user = usr
      BY <1>18, <1>21, <3>2 DEF i
    <3>3. CASE d = ses /\ ses \in LiveSessions /\ sesObj'[ses].user \in LiveUsers
      <4>1. ses # s
        BY <1>3, <3>3
      <4>2. sesObj'[ses] = sesObj[ses]
        BY <1>4, <4>1
      <4> QED BY <1>1, <1>19, <3>3, <4>2 DEF UsersCached
    <3> QED BY <1>18, <3>1, <3>2, <3>3
  <2> QED BY <1>23, <2>1, <2>2
<1>25. RanksAgree'
  <2> SUFFICES ASSUME NEW e \in LiveUsers'
               PROVE  usrObj'[e].version = ranks'[usrObj'[e].rank]
    BY DEF RanksAgree
  <2>1. CASE e = u /\ usr = u
    BY <1>1, <1>3, <1>4, <1>14, <2>1 DEF TypeOK
  <2>2. CASE e \in LiveUsers
    BY <1>1, <1>4, <1>19, <2>2 DEF RanksAgree
  <2> QED BY <1>5, <1>20, <2>1, <2>2
<1>26. EntriesKeyed'
  <2>1. \A x \in Tokens : sessions'[x] # Null => sesObj'[sessions'[x]].token = x
    <3> SUFFICES ASSUME NEW x \in Tokens, sessions'[x] # Null
                 PROVE  sesObj'[sessions'[x]].token = x
      OBVIOUS
    <3>1. CASE x = t
      BY <1>1, <1>4, <1>18, <3>1 DEF TypeOK
    <3>2. CASE x # t
      <4>1. sessions'[x] = sessions[x] /\ sessions[x] # s
        BY <1>1, <1>4, <3>2 DEF FreshSessions, TypeOK
      <4>2. sesObj'[sessions[x]] = sesObj[sessions[x]]
        BY <1>1, <1>4, <4>1 DEF TypeOK
      <4> QED BY <4>1, <4>2 DEF Inv, EntriesKeyed
    <3> QED BY <3>1, <3>2
  <2>2. \A x \in Uids : userCache'[x] # Null => usrObj'[userCache'[x]].uid = x
    <3> SUFFICES ASSUME NEW x \in Uids, userCache'[x] # Null
                 PROVE  usrObj'[userCache'[x]].uid = x
      OBVIOUS
    <3>1. CASE x = i
      BY <1>21, <3>1
    <3>2. CASE x # i
      <4>1. userCache'[x] = userCache[x] /\ userCache[x] # u
        BY <1>1, <1>4, <3>2 DEF FreshUsers, TypeOK
      <4>2. usrObj'[userCache[x]] = usrObj[userCache[x]]
        BY <1>1, <1>4, <4>1 DEF TypeOK
      <4> QED BY <4>1, <4>2 DEF Inv, EntriesKeyed
    <3> QED BY <3>1, <3>2
  <2> QED BY <2>1, <2>2 DEF EntriesKeyed
<1> QED BY <1>15, <1>22, <1>24, <1>25, <1>26 DEF Inv

(* An update of a rank keeps the invariant: it reaches every user alive. *)
LEMMA UpdateRankStep ==
    ASSUME Inv, NEW k \in Ranks, NEW v \in Versions, UpdateRank(k, v)
    PROVE  Inv'
<1> DEFINE changed(u) == u \in Affected(k) /\ ranks[k] # Unknown /\ ranks[k] # v
           nu(u) == [usrObj[u] EXCEPT !.version = v]
<1>1. TypeOK /\ SessionsCached /\ UsersCached /\ RanksAgree
  BY DEF Inv
<1>2. /\ ranks' = [ranks EXCEPT ![k] = v]
      /\ usrObj' = [u \in UserIds |-> IF changed(u) THEN nu(u) ELSE usrObj[u]]
      /\ UNCHANGED <<holder, sesObj, sessions, userCache, valid, rankOf>>
  BY DEF UpdateRank, caches, database
<1>3. ASSUME NEW u \in UserIds
      PROVE  /\ usrObj'[u] \in [uid : Uids, rank : Ranks, version : Versions]
             /\ usrObj'[u].uid = usrObj[u].uid /\ usrObj'[u].rank = usrObj[u].rank
             /\ usrObj'[u].version = IF changed(u) THEN v ELSE usrObj[u].version
  <2>1. usrObj[u] \in [uid : Uids, rank : Ranks, version : Versions]
    BY <1>1 DEF TypeOK
  <2> HIDE DEF changed
  <2>2. usrObj'[u] = IF changed(u) THEN nu(u) ELSE usrObj[u]
    BY <1>2
  <2>3. /\ nu(u) \in [uid : Uids, rank : Ranks, version : Versions]
        /\ nu(u).uid = usrObj[u].uid /\ nu(u).rank = usrObj[u].rank
        /\ nu(u).version = v
    BY <2>1
  <2> QED BY <2>1, <2>2, <2>3
<1> HIDE DEF nu
<1>4. TypeOK'
  <2>1. usrObj' \in [UserIds -> [uid : Uids, rank : Ranks, version : Versions]]
    BY <1>2, <1>3, Zenon
  <2> QED BY <1>1, <1>2, <2>1 DEF TypeOK
<1>5. LiveSessions' = LiveSessions /\ LiveUsers' = LiveUsers
  BY <1>2 DEF LiveSessions, LiveUsers
<1>6. SessionsCached' /\ EntriesKeyed'
  <2>1. SessionsCached'
    BY <1>1, <1>2, <1>5 DEF SessionsCached
  <2>2. EntriesKeyed'
    BY <1>1, <1>2, <1>3, NullAssumption DEF Inv, EntriesKeyed, TypeOK
  <2> QED BY <2>1, <2>2
<1>7. UsersCached'
  <2> SUFFICES ASSUME NEW d \in LiveSessions
               PROVE  /\ usrObj'[sesObj[d].user].uid = Owner[sesObj[d].token]
                      /\ userCache[usrObj'[sesObj[d].user].uid] = sesObj[d].user
    BY <1>2, <1>5 DEF UsersCached
  <2>1. sesObj[d].user \in UserIds
    BY <1>1, UserOfLive DEF LiveUsers
  <2> QED BY <1>1, <1>3, <2>1 DEF UsersCached
<1>8. RanksAgree'
  <2> SUFFICES ASSUME NEW u \in LiveUsers
               PROVE  usrObj'[u].version = ranks'[usrObj'[u].rank]
    BY <1>5 DEF RanksAgree
  <2>1. /\ u \in UserIds
        /\ usrObj[u] \in [uid : Uids, rank : Ranks, version : Versions]
        /\ usrObj[u].version = ranks[usrObj[u].rank]
    BY <1>1 DEF TypeOK, LiveUsers, RanksAgree
  <2>2. CASE usrObj[u].rank # k
    <3>1. ~changed(u)
      BY <2>2 DEF Affected
    <3> HIDE DEF changed
    <3> QED BY <1>1, <1>2, <1>3, <2>1, <2>2, <3>1 DEF TypeOK
  <2>3. CASE usrObj[u].rank = k
    <3>1. u \in Affected(k)
      <4>1. PICK d \in LiveSessions : sesObj[d].user = u
        BY DEF LiveUsers
      <4>2. userCache[usrObj[u].uid] = u /\ usrObj[u].uid \in Uids
        BY <1>1, <2>1, <4>1 DEF UsersCached
      <4> QED BY <2>3, <4>2 DEF Affected
    <3>2. ranks[k] # Unknown
      BY <2>1, <2>3, MarkersAssumption
    <3>3. ranks[k] = v => usrObj[u].version = v
      BY <2>1, <2>3
    <3>4. usrObj'[u].version = v
      BY <1>3, <2>1, <3>1, <3>2, <3>3
    <3>5. ranks'[k] = v
      BY <1>1, <1>2 DEF TypeOK
    <3> QED BY <1>3, <2>1, <2>3, <3>4, <3>5
  <2> QED BY <2>2, <2>3
<1> QED BY <1>4, <1>6, <1>7, <1>8 DEF Inv

(* Every step keeps the invariant. *)
LEMMA NextInv == Inv /\ [Next]_vars => Inv'
<1> SUFFICES ASSUME Inv, [Next]_vars
             PROVE  Inv'
  OBVIOUS
<1>1. ASSUME NEW h \in Holders, NEW t \in Tokens, Present(h, t)
      PROVE  Inv'
  BY <1>1, PresentStep
<1>2. ASSUME NEW h \in Holders, RunQuery(h) \/ CancelQuery(h) \/ Release(h)
      PROVE  Inv'
  BY <1>2, HolderSteps
<1>3. ASSUME NEW h \in Holders, LoadFails(h)
      PROVE  Inv'
  BY <1>3, LoadFailsStep
<1>4. ASSUME NEW h \in Holders, NEW s \in FreshSessions, NEW u \in FreshUsers,
             LoadSession(h, s, u)
      PROVE  Inv'
  BY <1>4, LoadSessionStep
<1>5. ASSUME NEW k \in Ranks, NEW v \in Versions, UpdateRank(k, v)
      PROVE  Inv'
  BY <1>5, UpdateRankStep
<1>6. CASE ChangeDatabase
  <2>1. /\ UNCHANGED <<holder, objects, caches, ranks>>
        /\ valid' \in SUBSET Tokens /\ rankOf' \in [Uids -> Ranks]
    BY <1>6 DEF ChangeDatabase, Inv, TypeOK
  <2> QED BY <2>1, FewerAlive DEF Inv, TypeOK, LiveSessions
<1>7. CASE UNCHANGED vars
  BY <1>7, FewerAlive DEF Inv, TypeOK, LiveSessions, vars, objects, caches
<1> QED BY <1>1, <1>2, <1>3, <1>4, <1>5, <1>6, <1>7 DEF Next

(* The invariant holds always. *)
LEMMA AlwaysInv == Spec => []Inv
BY InitInv, NextInv, PTL DEF Spec

(* Every variable keeps its type. In particular a user never has the       *)
(* content of a rank that has not been loaded.                             *)
THEOREM TypeCorrect == Spec => []TypeOK
BY AlwaysInv, PTL DEF Inv

(* AuthManager::loadSession and getSession: a token has one Session, also  *)
(* when several connections load it at the same time and in any order.     *)
THEOREM OneSessionPerToken == Spec => []SessionsCached
BY AlwaysInv, PTL DEF Inv

(* AuthManager::getUser: the sessions of a user share one User, which is   *)
(* the one the cache finds.                                                *)
THEOREM OneUserPerId == Spec => []UsersCached
BY AlwaysInv, PTL DEF Inv

(* AuthManager::updateRank reaches every user alive: their copies of a     *)
(* rank never differ from the one in the table.                            *)
THEOREM RanksAreCurrent == Spec => []RanksAgree
BY AlwaysInv, PTL DEF Inv
=============================================================================

------------------------- MODULE ConnectionManager -------------------------
(***************************************************************************)
(* The admission of WebSocket connections: ConnectionManager, the chain of *)
(* ConnectionProcessors a socket goes through, the ConnectionCounter, and  *)
(* the sessions that connections keep alive.                               *)
(*                                                                         *)
(* A socket is new until the upgrade, pending while an asynchronous check  *)
(* is in flight, a client once admitted, and gone.  Everything runs on the *)
(* thread of the event loop, so one action is one callback of the loop:    *)
(* an upgrade, a disconnection, the answer to an asynchronous check, the   *)
(* inactivity timer or the stop signal.                                    *)
(***************************************************************************)
EXTENDS Integers, Sequences, FiniteSets, FiniteSetsExt

CONSTANTS
    Sockets,        \* connection attempts, each used once
    Ips,            \* remote addresses
    Tokens,         \* well-formed "uviastoken" cookies
    NoToken,        \* no cookie in the request
    BadToken,       \* a cookie that parseToken rejects
    NoSession,      \* the null session pointer
    Chain,          \* the processors, in the order of the forward_list
    MaxConnsPerIp,  \* ConnectionCounter::maxConnsPerIp
    CountMod        \* connCountPerIp holds numbers modulo CountMod (u8: 2^8)

ASSUME TokenAssumption ==
    /\ NoToken \notin Tokens \cup {BadToken}
    /\ BadToken \notin Tokens
    /\ NoSession \notin Tokens

(* addToBeg puts every processor in the chain once; the server always adds *)
(* these two.                                                              *)
ASSUME ChainAssumption ==
    /\ Chain \in Seq(STRING)
    /\ \A i, j \in DOMAIN Chain : Chain[i] = Chain[j] => i = j
    /\ \E i \in DOMAIN Chain : Chain[i] = "ConnectionCounter"
    /\ \E i \in DOMAIN Chain : Chain[i] = "SessionChecker"

(* The count that refuses the connection still fits the counter's type. *)
ASSUME LimitAssumption ==
    /\ MaxConnsPerIp \in Nat \ {0}
    /\ CountMod \in Nat
    /\ MaxConnsPerIp + 1 < CountMod

ASSUME SocketsAssumption == IsFiniteSet(Sockets)

ASSUME IpsAssumption == Ips # {}

VARIABLES
    conn,      \* conn[c]: the socket c and its IncomingConnection or Client
    counter,   \* the state of the ConnectionCounter
    stopped    \* Server::unsafeStop has run

vars == <<conn, counter, stopped>>

Cookies == Tokens \cup {NoToken, BadToken}

(* open: the socket is open; cancelled, onDisconnect: the fields of an     *)
(* IncomingConnection (onDisconnect is the position of the check that      *)
(* installed the handler, 0 for none); asyncAt: the check in flight, which *)
(* is the processor before nextProcessor; verdict: the AuthOk or AuthError *)
(* the peer was sent; passed: the positions whose asyncCheck said yes.     *)
Connections ==
    [state : {"new", "pending", "client", "gone"}, open : BOOLEAN,
     cancelled : BOOLEAN, asyncAt : 0..Len(Chain),
     onDisconnect : 0..Len(Chain), ip : Ips, token : Cookies,
     session : Tokens \cup {NoSession}, verdict : {"none", "ok", "error"},
     passed : SUBSET (1..Len(Chain))]

Counters ==
    [total : Nat, totalChecked : Nat, currentChecking : Int,
     currentActive : Int, perIp : [Ips -> 0..(CountMod - 1)]]

TypeOK ==
    /\ conn \in [Sockets -> Connections]
    /\ counter \in Counters
    /\ stopped \in BOOLEAN

-----------------------------------------------------------------------------
(* The processors *)

CounterAt == CHOOSE i \in DOMAIN Chain : Chain[i] = "ConnectionCounter"

(* ConnectionCounter::preCheck counts the connection, whatever it answers. *)
Count(k, a) ==
    [k EXCEPT !.total = @ + 1, !.currentActive = @ + 1,
              !.currentChecking = @ + 1, !.perIp[a] = (@ + 1) % CountMod]

(* A variant that leaves admitted connections among those being checked. *)
CountCheckedKeeping(k) == [k EXCEPT !.totalChecked = @ + 1]

(* ConnectionCounter::connected *)
CountChecked(k) ==
    [k EXCEPT !.totalChecked = @ + 1, !.currentChecking = @ - 1]

(* A variant that takes every closed connection for a client. *)
UncountAsClient(k, a) ==
    [k EXCEPT !.currentActive = @ - 1, !.perIp[a] = (@ - 1) % CountMod]

(* ConnectionCounter::disconnected of a connection that was no client. *)
Uncount(k, a) ==
    [k EXCEPT !.currentActive = @ - 1, !.currentChecking = @ - 1,
              !.perIp[a] = (@ - 1) % CountMod]

(* ConnectionCounter::disconnected of each of the clients in C. *)
UncountClients(k, C) ==
    [k EXCEPT !.currentActive = @ - Cardinality(C),
              !.perIp = [a \in Ips |->
                  (@[a] - Cardinality({c \in C : conn[c].ip = a})) % CountMod]]

(* A variant that compares the count from before the increment. *)
RefusesTooLate(p, r, refusing) ==
    \/ p = "ConnectionCounter" /\ counter.perIp[r.ip] > MaxConnsPerIp
    \/ p = "SessionChecker" /\ r.token = NoToken
    \/ p \in refusing

(* The answers of preCheck.  What the header, world, ban and captcha       *)
(* checkers look at (the request and the ban list) is the set refusing.    *)
Refuses(p, r, refusing) ==
    \/ p = "ConnectionCounter" /\ Count(counter, r.ip).perIp[r.ip] > MaxConnsPerIp
    \/ p = "SessionChecker" /\ r.token = NoToken
    \/ p \in refusing

Refusals(r, refusing) ==
    {i \in DOMAIN Chain : Refuses(Chain[i], r, refusing)}

(* A variant that lets every check be skipped once there is a session. *)
IsAsyncWithoutSession(p, r) ==
    p \in {"CaptchaChecker", "SessionChecker"} /\ r.session = NoSession

(* isAsync: the captcha check (in State::ALL) always, the session check     *)
(* when preCheck found no live session.                                     *)
IsAsync(p, r) ==
    \/ p = "CaptchaChecker"
    \/ p = "SessionChecker" /\ r.session = NoSession

(* A variant that sends tokens that do not parse to the database. *)
FailsNever(p, r) == FALSE

(* loadSession answers within the call when the token does not parse. *)
FailsAtOnce(p, r) == p = "SessionChecker" /\ r.token = BadToken

(* AuthManager::getSession: the weak pointer in sessions can be locked as  *)
(* long as a pending connection or a client holds the session.             *)
GetSession(t) ==
    IF \E d \in Sockets : conn[d].session = t THEN t ELSE NoSession

-----------------------------------------------------------------------------
(* The steps of a connection through the chain.  r is the connection as it *)
(* stands within the callback, k the counter.                              *)

(* handleFail closes the socket, whose disconnection handler marks the     *)
(* pending connection as cancelled; handleDisconnect then erases it.       *)
Rejected(r) ==
    [r EXCEPT !.state = "gone", !.open = FALSE, !.cancelled = TRUE,
              !.verdict = "error", !.asyncAt = 0, !.onDisconnect = 0,
              !.session = NoSession]

(* handleDisconnect of a pending connection whose socket has closed. *)
Dropped(r) ==
    [r EXCEPT !.state = "gone", !.asyncAt = 0, !.onDisconnect = 0,
              !.session = NoSession]

(* handleEnd: the Client takes the session over. *)
Admitted(r) ==
    [r EXCEPT !.state = "client", !.verdict = "ok", !.asyncAt = 0]

(* asyncCheck of the processor at position j: the session check installs a *)
(* disconnection handler, the others leave it alone.                       *)
Suspended(r, j) ==
    [r EXCEPT !.state = "pending", !.asyncAt = j,
              !.onDisconnect = IF Chain[j] = "SessionChecker" THEN j ELSE @]

(* nextProcessor: the first asynchronous check after position i. *)
NextAsync(r, i) ==
    {j \in (i + 1)..Len(Chain) : IsAsync(Chain[j], r)}

Reject(c, r, k) ==
    /\ conn' = [conn EXCEPT ![c] = Rejected(r)]
    /\ counter' = Uncount(k, r.ip)

(* handleAsync and, at the end of the chain, handleEnd. *)
HandleAsync(c, r, i, k) ==
    LET todo == NextAsync(r, i)
    IN  \/ /\ todo # {}
           /\ ~FailsAtOnce(Chain[Min(todo)], r)
           /\ conn' = [conn EXCEPT ![c] = Suspended(r, Min(todo))]
           /\ counter' = k
        \/ /\ todo # {}
           /\ FailsAtOnce(Chain[Min(todo)], r)
           /\ Reject(c, r, k)
        \/ /\ todo = {}
           /\ r.session # NoSession
           /\ conn' = [conn EXCEPT ![c] = Admitted(r)]
           /\ counter' = CountChecked(k)

-----------------------------------------------------------------------------
(* The actions *)

Fresh(a, t) ==
    [state |-> "new", open |-> TRUE, cancelled |-> FALSE, asyncAt |-> 0,
     onDisconnect |-> 0, ip |-> a, token |-> t, session |-> GetSession(t),
     verdict |-> "none", passed |-> {}]

(* The upgrade is refused before the chain: no or unknown sub-protocol,    *)
(* arguments that do not decode, or a proxied request without x-real-ip.   *)
RefuseUpgrade(c) ==
    /\ ~stopped
    /\ conn[c].state = "new"
    /\ conn' = [conn EXCEPT ![c].state = "gone"]
    /\ UNCHANGED <<counter, stopped>>

(* A variant that tells every processor. *)
BotheredAll(refusals) == DOMAIN Chain

(* The processors up to the first refusal (std::next(it)). *)
Bothered(refusals) == 1..Min(refusals)

(* handleIncoming: the preChecks up to the first refusal, then the first   *)
(* asynchronous check.  Only the processors up to the refusal are told.    *)
HandleIncoming(c, a, t, refusing) ==
    /\ ~stopped
    /\ conn[c].state = "new"
    /\ LET r == Fresh(a, t)
           refusals == Refusals(r, refusing)
           asked == IF CounterAt \in 1..Min(refusals) THEN Count(counter, a) ELSE counter
       IN  \/ /\ refusals = {}
              /\ HandleAsync(c, r, 0, Count(counter, a))
           \/ /\ refusals # {}
              /\ conn' = [conn EXCEPT ![c] = Rejected(r)]
              /\ counter' = IF CounterAt \in Bothered(refusals)
                            THEN Uncount(asked, a) ELSE asked
    /\ UNCHANGED stopped

(* A variant that keeps the disconnection handler of the last check. *)
AnsweredKeepingHandler(r, ok) ==
    [r EXCEPT !.session = IF ok /\ Chain[r.asyncAt] = "SessionChecker"
                          THEN r.token ELSE @,
              !.passed = IF ok THEN @ \cup {r.asyncAt} ELSE @]

(* The connection when the check in flight answers: its handler is cleared *)
(* and the session check stores what loadSession found.                    *)
Answered(r, ok) ==
    [r EXCEPT !.onDisconnect = 0,
              !.session = IF ok /\ Chain[r.asyncAt] = "SessionChecker"
                          THEN r.token ELSE @,
              !.passed = IF ok THEN @ \cup {r.asyncAt} ELSE @]

(* A variant in which an answer that comes after the socket has closed is  *)
(* thrown away.                                                            *)
AwaitedWhileOpen(c) == conn[c].state = "pending" /\ conn[c].open

(* The check in flight calls back, whatever has become of the socket. *)
Awaited(c) == conn[c].state = "pending"

(* The callback handed to asyncCheck. *)
AsyncDone(c, ok) ==
    /\ Awaited(c)
    /\ LET r == Answered(conn[c], ok)
       IN  \/ /\ ok /\ ~r.cancelled
              /\ HandleAsync(c, r, r.asyncAt, counter)
           \/ /\ ~ok /\ ~r.cancelled
              /\ Reject(c, r, counter)
           \/ /\ r.cancelled
              /\ conn' = [conn EXCEPT ![c] = Dropped(r)]
              /\ counter' = Uncount(counter, r.ip)
    /\ UNCHANGED stopped

(* A variant that does not mark pending connections. *)
ClosedUnmarked(r) ==
    IF r.state = "client"
    THEN [r EXCEPT !.state = "gone", !.open = FALSE, !.session = NoSession]
    ELSE [r EXCEPT !.open = FALSE]

(* The disconnection handler of a socket: a pending connection is only     *)
(* marked, a client is deleted.                                            *)
Closed(r) ==
    IF r.state = "client"
    THEN [r EXCEPT !.state = "gone", !.open = FALSE, !.session = NoSession]
    ELSE [r EXCEPT !.open = FALSE, !.cancelled = TRUE]

Clients == {c \in Sockets : conn[c].state = "client"}

(* A variant of the stop that closes the clients only. *)
OpenClients == {c \in Sockets : conn[c].state = "client"}

OpenSockets == {c \in Sockets : conn[c].open}

(* The sockets in S close, in one callback. *)
CloseAll(S) ==
    /\ conn' = [c \in Sockets |-> IF c \in S THEN Closed(conn[c]) ELSE conn[c]]
    /\ counter' = UncountClients(counter, S \cap Clients)

(* The peer goes away, or the auto-ping finds it dead. *)
Disconnect(c) ==
    /\ conn[c].open
    /\ CloseAll({c})
    /\ UNCHANGED stopped

(* The save timer: kickInactivePlayers closes the clients idle for an hour. *)
KickInactive(S) ==
    /\ ~stopped
    /\ S \subseteq Clients
    /\ CloseAll(S)
    /\ UNCHANGED stopped

(* unsafeStop: every socket is closed and no more are accepted. *)
UnsafeStop ==
    /\ ~stopped
    /\ stopped' = TRUE
    /\ CloseAll(OpenSockets)

-----------------------------------------------------------------------------
(* The processors whose preCheck looks at the request or the ban list. *)
Stateless == {Chain[i] : i \in DOMAIN Chain} \ {"ConnectionCounter", "SessionChecker"}

Unused(a) ==
    [state |-> "new", open |-> FALSE, cancelled |-> FALSE, asyncAt |-> 0,
     onDisconnect |-> 0, ip |-> a, token |-> NoToken, session |-> NoSession,
     verdict |-> "none", passed |-> {}]

Init ==
    /\ conn = [c \in Sockets |-> Unused(CHOOSE a \in Ips : TRUE)]
    /\ counter = [total |-> 0, totalChecked |-> 0, currentChecking |-> 0,
                  currentActive |-> 0, perIp |-> [a \in Ips |-> 0]]
    /\ stopped = FALSE

Next ==
    \/ \E c \in Sockets : RefuseUpgrade(c)
    \/ \E c \in Sockets, a \in Ips, t \in Cookies, refusing \in SUBSET Stateless :
           HandleIncoming(c, a, t, refusing)
    \/ \E c \in Sockets, ok \in BOOLEAN : AsyncDone(c, ok)
    \/ \E c \in Sockets : Disconnect(c)
    \/ \E S \in SUBSET Sockets : KickInactive(S)
    \/ UnsafeStop

Spec == Init /\ [][Next]_vars

(* A query or a request that was sent is answered, if only with an error. *)
Fairness == \A c \in Sockets : WF_vars(\E ok \in BOOLEAN : AsyncDone(c, ok))

FairSpec == Spec /\ Fairness

-----------------------------------------------------------------------------
(* Properties *)

Pending == {c \in Sockets : conn[c].state = "pending"}

Held == {c \in Sockets : conn[c].state \in {"pending", "client"}}

HeldBy(a) == {c \in Held : conn[c].ip = a}

Used == {c \in Sockets : conn[c].state # "new"}

(* The counters say how many connections there are, whatever path each of  *)
(* them took: connCountPerIp is "guaranteed to exist and > 0" whenever     *)
(* disconnected decrements it (ConnectionCounter.cpp:58).                  *)
CounterExact ==
    /\ counter.currentChecking = Cardinality(Pending)
    /\ counter.currentActive = Cardinality(Held)
    /\ \A a \in Ips : counter.perIp[a] = Cardinality(HeldBy(a))

(* No address ever holds more connections than the limit of preCheck,      *)
(* those still being checked and those whose socket has closed included.   *)
LimitPerIp == \A a \in Ips : Cardinality(HeldBy(a)) <= MaxConnsPerIp

(* The published totals: every connection that was counted as checked was  *)
(* told AuthOk, and nobody is counted twice.                               *)
TotalsAgree ==
    /\ counter.totalChecked = Cardinality({c \in Sockets : conn[c].verdict = "ok"})
    /\ counter.totalChecked + counter.currentChecking <= counter.total

(* A pending connection waits for exactly one answer: that of the check in *)
(* flight, which is one it needs; its disconnection handler, if any,       *)
(* belongs to that check and not to one that has answered; and it is       *)
(* marked as cancelled just when its socket has closed, so that the answer *)
(* neither uses a dead socket nor drops a live one.                        *)
PendingAwaitsItsCheck ==
    \A c \in Sockets : conn[c].state = "pending" =>
        /\ conn[c].asyncAt # 0
        /\ conn[c].asyncAt \notin conn[c].passed
        /\ IsAsync(Chain[conn[c].asyncAt], conn[c])
        /\ conn[c].onDisconnect \in {0, conn[c].asyncAt}
        /\ conn[c].cancelled <=> ~conn[c].open

(* A client has an open socket, the session of its own token, and a yes    *)
(* from every asynchronous check of the chain.                             *)
ClientIsChecked ==
    \A c \in Clients :
        /\ conn[c].open
        /\ conn[c].session = conn[c].token
        /\ \A i \in DOMAIN Chain : Chain[i] = "CaptchaChecker" => i \in conn[c].passed

(* A peer gets at most one of AuthOk and AuthError, never after its socket *)
(* has closed, and a connection whose socket closed during a check is      *)
(* never admitted by the answer that comes late.                           *)
OneVerdict ==
    [][\A c \in Sockets : conn'[c].verdict # conn[c].verdict =>
          /\ conn[c].verdict = "none"
          /\ conn[c].state = "new" \/ conn[c].open]_vars

(* Every connection that waits for a check leaves the pending list in the  *)
(* end, closed sockets included, so that their slots are given back.       *)
PendingEnds ==
    \A c \in Sockets : conn[c].state = "pending" ~> conn[c].state # "pending"

(* After the stop signal no connection is left. *)
StopEmpties == stopped ~> Held = {}

(* Sockets hold the slots of their address as ConnectionSlots allows. *)
Slots == INSTANCE ConnectionSlots WITH
    held <- [a \in Ips |-> HeldBy(a)],
    used <- Used

ImplementsSlots == Slots!SlotsSpec
=============================================================================

---------------------- MODULE ConnectionManagerProofs ----------------------
(***************************************************************************)
(* The counters of the connection pipeline are exact, and no address goes  *)
(* past its limit, for every chain, limit and set of sockets.              *)
(***************************************************************************)
EXTENDS ConnectionManager, FiniteSetTheorems, WellFoundedInduction, TLAPS

-----------------------------------------------------------------------------
(* Arithmetic and sets *)

(* Numbers below the modulus are not wrapped. *)
LEMMA ModSmall ==
    ASSUME NEW x \in Nat, NEW m \in Nat, x < m
    PROVE  x % m = x
BY SMT

(* A remainder fits the modulus. *)
LEMMA ModRange ==
    ASSUME NEW x \in Int, NEW m \in Nat, 0 < m
    PROVE  x % m \in 0..(m - 1)
BY SMT

(* A set of naturals that is not empty has its Min among its members. *)
LEMMA MinExists ==
    ASSUME NEW S \in SUBSET Nat, S # {}
    PROVE  /\ Min(S) \in S
           /\ \A y \in S : Min(S) <= y
<1> DEFINE R == {ss \in Nat \X Nat : ss[1] < ss[2]}
<1>1. R = OpToRel(<, Nat)
  BY Zenon DEF OpToRel
<1> HIDE DEF R
<1>2. PICK x \in S : \A y \in S : ~ (<<y, x>> \in R)
  BY <1>1, WFMin, NatLessThanWellFounded, Zenon
<1>3. ASSUME NEW y \in S PROVE x <= y
  <2>1. y \in Nat /\ x \in Nat
    OBVIOUS
  <2>2. y < x => <<y, x>> \in R
    BY <2>1 DEF R
  <2> QED
    BY <1>2, <2>1, <2>2
<1> QED
  BY <1>3, Zenon DEF Min

(* The size of a set, seen from the set without one element. *)
LEMMA CardinalityBut ==
    ASSUME NEW S, NEW x, IsFiniteSet(S)
    PROVE  /\ Cardinality(S) \in Nat
           /\ Cardinality(S \ {x}) \in Nat
           /\ Cardinality(S) = Cardinality(S \ {x}) + (IF x \in S THEN 1 ELSE 0)
<1>1. /\ IsFiniteSet(S \ {x})
      /\ Cardinality(S \ {x}) = IF x \in S THEN Cardinality(S) - 1 ELSE Cardinality(S)
  BY FS_RemoveElement
<1>2. Cardinality(S) \in Nat /\ Cardinality(S \ {x}) \in Nat
  BY <1>1, FS_CardinalityType
<1> QED
  BY <1>1, <1>2

-----------------------------------------------------------------------------
(* The invariant *)

(* What the answer to a check relies on: the connection waits for a check  *)
(* of the chain, and the session check only queries tokens that parse.     *)
PendingSane ==
    \A c \in Sockets : conn[c].state = "pending" =>
        /\ conn[c].asyncAt # 0
        /\ conn[c].token # NoToken
        /\ Chain[conn[c].asyncAt] = "SessionChecker" => conn[c].token \in Tokens

Inv == TypeOK /\ PendingSane /\ CounterExact /\ LimitPerIp

(* All the sets of sockets are finite. *)
LEMMA FiniteParts ==
    /\ IsFiniteSet(Pending)
    /\ IsFiniteSet(Held)
    /\ \A a : IsFiniteSet(HeldBy(a))
    /\ \A S \in SUBSET Sockets : IsFiniteSet(S)
BY SocketsAssumption, FS_Subset DEF Pending, Held, HeldBy

(* The connections other than c. *)
OtherPending(c) == Cardinality(Pending \ {c})
OtherHeld(c) == Cardinality(Held \ {c})
OtherHeldBy(c, a) == Cardinality(HeldBy(a) \ {c})

(* The counts are those of the others and one for c. *)
LEMMA OthersAndOne ==
    ASSUME NEW c \in Sockets
    PROVE  /\ OtherPending(c) \in Nat /\ OtherHeld(c) \in Nat
           /\ \A a : OtherHeldBy(c, a) \in Nat
           /\ Cardinality(Pending) =
                OtherPending(c) + (IF conn[c].state = "pending" THEN 1 ELSE 0)
           /\ Cardinality(Held) = OtherHeld(c) + (IF c \in Held THEN 1 ELSE 0)
           /\ \A a : Cardinality(HeldBy(a)) = OtherHeldBy(c, a)
                        + (IF c \in Held /\ conn[c].ip = a THEN 1 ELSE 0)
<1>1. /\ c \in Pending <=> conn[c].state = "pending"
      /\ \A a : c \in HeldBy(a) <=> c \in Held /\ conn[c].ip = a
  BY DEF Pending, HeldBy
<1> QED
  BY <1>1, FiniteParts, CardinalityBut DEF OtherPending, OtherHeld, OtherHeldBy

(* How the counts change when c becomes r. *)
LEMMA OneConnection ==
    ASSUME TypeOK, NEW c \in Sockets, NEW r \in Connections,
           conn' = [conn EXCEPT ![c] = r]
    PROVE  /\ Cardinality(Pending') =
                OtherPending(c) + (IF r.state = "pending" THEN 1 ELSE 0)
           /\ Cardinality(Held') = OtherHeld(c)
                + (IF r.state \in {"pending", "client"} THEN 1 ELSE 0)
           /\ \A a : Cardinality(HeldBy(a)') = OtherHeldBy(c, a)
                + (IF r.state \in {"pending", "client"} /\ r.ip = a THEN 1 ELSE 0)
<1>1. /\ Pending' \ {c} = Pending \ {c}
      /\ c \in Pending' <=> r.state = "pending"
  BY DEF TypeOK, Pending
<1>2. /\ Held' \ {c} = Held \ {c}
      /\ c \in Held' <=> r.state \in {"pending", "client"}
  BY DEF TypeOK, Held
<1>3. \A a : /\ HeldBy(a)' \ {c} = HeldBy(a) \ {c}
             /\ c \in HeldBy(a)' <=> r.state \in {"pending", "client"} /\ r.ip = a
  BY <1>2 DEF TypeOK, HeldBy
<1>4. /\ IsFiniteSet(Pending')
      /\ IsFiniteSet(Held')
      /\ \A a : IsFiniteSet(HeldBy(a)')
  BY SocketsAssumption, FS_Subset DEF Pending, Held, HeldBy
<1> QED
  BY <1>1, <1>2, <1>3, <1>4, CardinalityBut DEF OtherPending, OtherHeld, OtherHeldBy

-----------------------------------------------------------------------------
(* The counter operations *)

(* The counter keeps its type when a connection is counted. *)
LEMMA CountFacts ==
    ASSUME NEW k \in Counters, NEW a \in Ips
    PROVE  /\ Count(k, a) \in Counters
           /\ Count(k, a).currentChecking = k.currentChecking + 1
           /\ Count(k, a).currentActive = k.currentActive + 1
           /\ Count(k, a).perIp = [k.perIp EXCEPT ![a] = (@ + 1) % CountMod]
<1>1. k.perIp[a] \in Int /\ CountMod \in Nat /\ 0 < CountMod
  BY LimitAssumption DEF Counters
<1>2. (k.perIp[a] + 1) % CountMod \in 0..(CountMod - 1)
  BY <1>1, ModRange
<1>3. /\ k.total + 1 \in Nat
      /\ k.currentChecking + 1 \in Int
      /\ k.currentActive + 1 \in Int
      /\ [k.perIp EXCEPT ![a] = (@ + 1) % CountMod] \in [Ips -> 0..(CountMod - 1)]
  BY <1>2 DEF Counters
<1>4. Count(k, a) \in Counters
  BY <1>3, Zenon DEF Count, Counters
<1>5. /\ Count(k, a).currentChecking = k.currentChecking + 1
      /\ Count(k, a).currentActive = k.currentActive + 1
      /\ Count(k, a).perIp = [k.perIp EXCEPT ![a] = (@ + 1) % CountMod]
  BY DEF Count, Counters
<1> QED
  BY <1>4, <1>5

(* The counter keeps its type when a connection is admitted. *)
LEMMA CountCheckedFacts ==
    ASSUME NEW k \in Counters
    PROVE  /\ CountChecked(k) \in Counters
           /\ CountChecked(k).currentChecking = k.currentChecking - 1
           /\ CountChecked(k).currentActive = k.currentActive
           /\ CountChecked(k).perIp = k.perIp
<1>1. k.totalChecked + 1 \in Nat /\ k.currentChecking - 1 \in Int
  BY DEF Counters
<1>2. CountChecked(k) \in Counters
  BY <1>1, Zenon DEF CountChecked, Counters
<1>3. /\ CountChecked(k).currentChecking = k.currentChecking - 1
      /\ CountChecked(k).currentActive = k.currentActive
      /\ CountChecked(k).perIp = k.perIp
  BY DEF CountChecked, Counters
<1> QED
  BY <1>2, <1>3

(* The counter keeps its type when a connection that was no client goes. *)
LEMMA UncountFacts ==
    ASSUME NEW k \in Counters, NEW a \in Ips
    PROVE  /\ Uncount(k, a) \in Counters
           /\ Uncount(k, a).currentChecking = k.currentChecking - 1
           /\ Uncount(k, a).currentActive = k.currentActive - 1
           /\ Uncount(k, a).perIp = [k.perIp EXCEPT ![a] = (@ - 1) % CountMod]
<1>1. k.perIp[a] \in Int /\ CountMod \in Nat /\ 0 < CountMod
  BY LimitAssumption DEF Counters
<1>2. (k.perIp[a] - 1) % CountMod \in 0..(CountMod - 1)
  BY <1>1, ModRange
<1>3. /\ k.currentChecking - 1 \in Int
      /\ k.currentActive - 1 \in Int
      /\ [k.perIp EXCEPT ![a] = (@ - 1) % CountMod] \in [Ips -> 0..(CountMod - 1)]
  BY <1>2 DEF Counters
<1>4. Uncount(k, a) \in Counters
  BY <1>3, Zenon DEF Uncount, Counters
<1>5. /\ Uncount(k, a).currentChecking = k.currentChecking - 1
      /\ Uncount(k, a).currentActive = k.currentActive - 1
      /\ Uncount(k, a).perIp = [k.perIp EXCEPT ![a] = (@ - 1) % CountMod]
  BY DEF Uncount, Counters
<1> QED
  BY <1>4, <1>5

(* k counts the connections other than c as they are, and c as one being   *)
(* checked from address a, whatever c has been so far.                     *)
CountsWith(k, c, a) ==
    /\ k \in Counters
    /\ k.currentChecking = OtherPending(c) + 1
    /\ k.currentActive = OtherHeld(c) + 1
    /\ \A b \in Ips :
           k.perIp[b] = OtherHeldBy(c, b) + (IF b = a THEN 1 ELSE 0)

(* A pending connection is counted already. *)
LEMMA CountsPending ==
    ASSUME Inv, NEW c \in Sockets, conn[c].state = "pending"
    PROVE  /\ CountsWith(counter, c, conn[c].ip)
           /\ counter.perIp[conn[c].ip] <= MaxConnsPerIp
<1>1. c \in Held
  BY DEF Held
<1>2. conn[c].ip \in Ips
  BY DEF Inv, TypeOK, Connections
<1> QED
  BY <1>1, <1>2, OthersAndOne
     DEF Inv, TypeOK, CountsWith, CounterExact, LimitPerIp

(* A new connection is counted by Count. *)
LEMMA CountsNew ==
    ASSUME Inv, NEW c \in Sockets, conn[c].state = "new", NEW a \in Ips
    PROVE  CountsWith(Count(counter, a), c, a)
<1>1. c \notin Held
  BY DEF Held
<1>2. /\ counter \in Counters
      /\ counter.perIp \in [Ips -> Int]
  BY DEF Inv, TypeOK, Counters
<1>3. counter.perIp[a] + 1 < CountMod /\ counter.perIp[a] + 1 \in Nat
  BY <1>2, OthersAndOne, LimitAssumption DEF Inv, CounterExact, LimitPerIp
<1>4. (counter.perIp[a] + 1) % CountMod = counter.perIp[a] + 1
  BY <1>3, ModSmall, LimitAssumption
<1>5. /\ Count(counter, a) \in Counters
      /\ Count(counter, a).currentChecking = counter.currentChecking + 1
      /\ Count(counter, a).currentActive = counter.currentActive + 1
      /\ Count(counter, a).perIp = [counter.perIp EXCEPT ![a] = counter.perIp[a] + 1]
  BY <1>2, <1>4, CountFacts
<1>6. \A b \in Ips : Count(counter, a).perIp[b]
                       = OtherHeldBy(c, b) + (IF b = a THEN 1 ELSE 0)
  BY <1>1, <1>2, <1>5, OthersAndOne DEF Inv, CounterExact
<1>7. /\ Count(counter, a).currentChecking = OtherPending(c) + 1
      /\ Count(counter, a).currentActive = OtherHeld(c) + 1
  BY <1>1, <1>5, OthersAndOne DEF Inv, CounterExact
<1> QED
  BY <1>5, <1>6, <1>7 DEF CountsWith

(* The addresses of the others are not affected by what c does. *)
LEMMA LimitAfter ==
    ASSUME Inv, NEW c \in Sockets, NEW r \in Connections,
           conn' = [conn EXCEPT ![c] = r],
           r.state \in {"pending", "client"} =>
               Cardinality(HeldBy(r.ip)') <= MaxConnsPerIp
    PROVE  LimitPerIp'
<1>1. ASSUME NEW b \in Ips PROVE Cardinality(HeldBy(b)') <= MaxConnsPerIp
  <2>1. CASE r.state \in {"pending", "client"} /\ r.ip = b
    BY <2>1
  <2>2. CASE ~(r.state \in {"pending", "client"} /\ r.ip = b)
    <3>1. Cardinality(HeldBy(b)') = OtherHeldBy(c, b) + 0
      BY <2>2, OneConnection DEF Inv
    <3>2. Cardinality(HeldBy(b)) <= MaxConnsPerIp
      BY DEF Inv, LimitPerIp
    <3> QED
      BY <3>1, <3>2, OthersAndOne, LimitAssumption
  <2> QED
    BY <2>1, <2>2
<1> QED
  BY <1>1 DEF LimitPerIp

(* The connection c is suspended on a check. *)
LEMMA SuspendCounts ==
    ASSUME Inv, NEW c \in Sockets, NEW r \in Connections, r.state = "pending",
           NEW k, CountsWith(k, c, r.ip), k.perIp[r.ip] <= MaxConnsPerIp,
           conn' = [conn EXCEPT ![c] = r], counter' = k
    PROVE  CounterExact' /\ LimitPerIp'
<1>1. r.ip \in Ips
  BY DEF Connections
<1>2. /\ Cardinality(Pending') = OtherPending(c) + 1
      /\ Cardinality(Held') = OtherHeld(c) + 1
      /\ \A b \in Ips : Cardinality(HeldBy(b)') = OtherHeldBy(c, b) + (IF b = r.ip THEN 1 ELSE 0)
  <2>1. TypeOK
    BY DEF Inv
  <2>2. /\ Cardinality(Pending') =
                OtherPending(c) + (IF r.state = "pending" THEN 1 ELSE 0)
        /\ Cardinality(Held') = OtherHeld(c)
                + (IF r.state \in {"pending", "client"} THEN 1 ELSE 0)
        /\ \A a : Cardinality(HeldBy(a)') = OtherHeldBy(c, a)
                + (IF r.state \in {"pending", "client"} /\ r.ip = a THEN 1 ELSE 0)
    BY <2>1, OneConnection, Zenon
  <2> QED
    BY <2>2, OthersAndOne
<1>3. CounterExact'
  BY <1>2 DEF CountsWith, CounterExact
<1>4. Cardinality(HeldBy(r.ip)') <= MaxConnsPerIp
  BY <1>1, <1>3 DEF CounterExact
<1> QED
  BY <1>3, <1>4, LimitAfter

(* The connection c is admitted. *)
LEMMA AdmitCounts ==
    ASSUME Inv, NEW c \in Sockets, NEW r \in Connections, r.state = "client",
           NEW k, CountsWith(k, c, r.ip), k.perIp[r.ip] <= MaxConnsPerIp,
           conn' = [conn EXCEPT ![c] = r], counter' = CountChecked(k)
    PROVE  CounterExact' /\ LimitPerIp'
<1>1. r.ip \in Ips /\ OtherPending(c) \in Nat
  BY OthersAndOne DEF Connections
<1>2. /\ Cardinality(Pending') = OtherPending(c)
      /\ Cardinality(Held') = OtherHeld(c) + 1
      /\ \A b \in Ips : Cardinality(HeldBy(b)') = OtherHeldBy(c, b) + (IF b = r.ip THEN 1 ELSE 0)
  <2>1. TypeOK
    BY DEF Inv
  <2>2. /\ Cardinality(Pending') =
                OtherPending(c) + (IF r.state = "pending" THEN 1 ELSE 0)
        /\ Cardinality(Held') = OtherHeld(c)
                + (IF r.state \in {"pending", "client"} THEN 1 ELSE 0)
        /\ \A a : Cardinality(HeldBy(a)') = OtherHeldBy(c, a)
                + (IF r.state \in {"pending", "client"} /\ r.ip = a THEN 1 ELSE 0)
    BY <2>1, OneConnection, Zenon
  <2> QED
    BY <2>2, OthersAndOne
<1>3. /\ counter'.currentChecking = k.currentChecking - 1
      /\ counter'.currentActive = k.currentActive
      /\ counter'.perIp = k.perIp
  BY CountCheckedFacts DEF CountsWith
<1>4. CounterExact'
  BY <1>1, <1>2, <1>3 DEF CountsWith, CounterExact
<1>5. Cardinality(HeldBy(r.ip)') <= MaxConnsPerIp
  BY <1>1, <1>3, <1>4 DEF CounterExact
<1> QED
  BY <1>4, <1>5, LimitAfter

(* The connection c is given up. *)
LEMMA GoneCounts ==
    ASSUME Inv, NEW c \in Sockets, NEW r \in Connections, r.state = "gone",
           NEW k, CountsWith(k, c, r.ip),
           conn' = [conn EXCEPT ![c] = r], counter' = Uncount(k, r.ip)
    PROVE  CounterExact' /\ LimitPerIp'
<1>1. /\ r.ip \in Ips /\ k \in Counters
      /\ OtherPending(c) \in Nat /\ OtherHeld(c) \in Nat
      /\ \A b \in Ips : OtherHeldBy(c, b) \in Nat
  BY OthersAndOne DEF Connections, CountsWith
<1>2. /\ Cardinality(Pending') = OtherPending(c)
      /\ Cardinality(Held') = OtherHeld(c)
      /\ \A b \in Ips : Cardinality(HeldBy(b)') = OtherHeldBy(c, b)
  <2>1. TypeOK
    BY DEF Inv
  <2>2. /\ Cardinality(Pending') =
                OtherPending(c) + (IF r.state = "pending" THEN 1 ELSE 0)
        /\ Cardinality(Held') = OtherHeld(c)
                + (IF r.state \in {"pending", "client"} THEN 1 ELSE 0)
        /\ \A a : Cardinality(HeldBy(a)') = OtherHeldBy(c, a)
                + (IF r.state \in {"pending", "client"} /\ r.ip = a THEN 1 ELSE 0)
    BY <2>1, OneConnection, Zenon
  <2> QED
    BY <2>2, OthersAndOne
<1>3. /\ counter'.currentChecking = k.currentChecking - 1
      /\ counter'.currentActive = k.currentActive - 1
      /\ counter'.perIp = [k.perIp EXCEPT ![r.ip] = (@ - 1) % CountMod]
  BY <1>1, UncountFacts
<1>4. /\ k.perIp \in [Ips -> Int]
      /\ k.perIp[r.ip] < CountMod
      /\ k.perIp[r.ip] - 1 = OtherHeldBy(c, r.ip)
  BY <1>1, LimitAssumption DEF CountsWith, Counters
<1>5. (k.perIp[r.ip] - 1) % CountMod = OtherHeldBy(c, r.ip)
  BY <1>1, <1>4, ModSmall, LimitAssumption
<1>6. \A b \in Ips : counter'.perIp[b] = OtherHeldBy(c, b)
  BY <1>1, <1>3, <1>4, <1>5 DEF CountsWith
<1>7. CounterExact'
  BY <1>1, <1>2, <1>3, <1>6 DEF CountsWith, CounterExact
<1> QED
  BY <1>7, LimitAfter

-----------------------------------------------------------------------------
(* The connections a step makes *)

(* The positions of the chain. *)
LEMMA ChainFacts ==
    /\ Len(Chain) \in Nat
    /\ DOMAIN Chain = 1..Len(Chain)
BY ChainAssumption

(* getSession returns a session that a connection holds, or none. *)
LEMMA GetSessionType ==
    ASSUME TypeOK, NEW t
    PROVE  GetSession(t) \in Tokens \cup {NoSession}
BY DEF TypeOK, Connections, GetSession

(* A connection enters the chain well typed. *)
LEMMA FreshType ==
    ASSUME TypeOK, NEW a \in Ips, NEW t \in Cookies
    PROVE  Fresh(a, t) \in Connections
BY GetSessionType, ChainFacts DEF Fresh, Connections

(* The first check to do is a position of the chain that is asynchronous. *)
LEMMA NextAsyncFacts ==
    ASSUME NEW r, NEW i \in 0..Len(Chain), NextAsync(r, i) # {}
    PROVE  /\ Min(NextAsync(r, i)) \in (i + 1)..Len(Chain)
           /\ IsAsync(Chain[Min(NextAsync(r, i))], r)
           /\ \A j \in NextAsync(r, i) : Min(NextAsync(r, i)) <= j
<1>1. NextAsync(r, i) \in SUBSET Nat
  BY ChainFacts DEF NextAsync
<1>2. /\ Min(NextAsync(r, i)) \in NextAsync(r, i)
      /\ \A j \in NextAsync(r, i) : Min(NextAsync(r, i)) <= j
  BY <1>1, MinExists
<1> QED
  BY <1>2 DEF NextAsync

(* A rejected connection is well typed and gone. *)
LEMMA RejectedFacts ==
    ASSUME NEW r \in Connections
    PROVE  /\ Rejected(r) \in Connections
           /\ Rejected(r).state = "gone" /\ Rejected(r).ip = r.ip
<1>1. Rejected(r) \in Connections
  <2>1. 0 \in 0..Len(Chain)
    BY ChainFacts
  <2> QED
    BY <2>1, Zenon DEF Rejected, Connections
<1> QED
  BY <1>1 DEF Rejected, Connections

(* A dropped connection is well typed and gone. *)
LEMMA DroppedFacts ==
    ASSUME NEW r \in Connections
    PROVE  /\ Dropped(r) \in Connections
           /\ Dropped(r).state = "gone" /\ Dropped(r).ip = r.ip
<1>1. Dropped(r) \in Connections
  <2>1. 0 \in 0..Len(Chain)
    BY ChainFacts
  <2> QED
    BY <2>1, Zenon DEF Dropped, Connections
<1> QED
  BY <1>1 DEF Dropped, Connections

(* An admitted connection is well typed and a client. *)
LEMMA AdmittedFacts ==
    ASSUME NEW r \in Connections
    PROVE  /\ Admitted(r) \in Connections
           /\ Admitted(r).state = "client" /\ Admitted(r).ip = r.ip
<1>1. Admitted(r) \in Connections
  <2>1. 0 \in 0..Len(Chain)
    BY ChainFacts
  <2> QED
    BY <2>1, Zenon DEF Admitted, Connections
<1> QED
  BY <1>1 DEF Admitted, Connections

(* A suspended connection is well typed and pending at its check. *)
LEMMA SuspendedFacts ==
    ASSUME NEW r \in Connections, NEW j \in 1..Len(Chain)
    PROVE  /\ Suspended(r, j) \in Connections
           /\ Suspended(r, j).state = "pending" /\ Suspended(r, j).ip = r.ip
           /\ Suspended(r, j).asyncAt = j /\ Suspended(r, j).token = r.token
<1>1. Suspended(r, j) \in Connections
  <2>1. j \in 0..Len(Chain)
    BY ChainFacts
  <2>2. (IF Chain[j] = "SessionChecker" THEN j ELSE r.onDisconnect) \in 0..Len(Chain)
    BY <2>1 DEF Connections
  <2> QED
    BY <2>1, <2>2, Zenon DEF Suspended, Connections
<1> QED
  BY <1>1 DEF Suspended, Connections

(* A step of one connection preserves the typing of conn and what pending  *)
(* connections rely on.                                                    *)
LEMMA OneConnectionTyped ==
    ASSUME Inv, NEW c \in Sockets, NEW r \in Connections,
           r.state = "pending" =>
               /\ r.asyncAt # 0
               /\ r.token # NoToken
               /\ Chain[r.asyncAt] = "SessionChecker" => r.token \in Tokens,
           conn' = [conn EXCEPT ![c] = r]
    PROVE  conn' \in [Sockets -> Connections] /\ PendingSane'
BY DEF Inv, TypeOK, PendingSane

(* handleAsync preserves the invariant, for a connection that is counted. *)
LEMMA HandleAsyncStep ==
    ASSUME Inv, NEW c \in Sockets, NEW r \in Connections, r.token # NoToken,
           NEW i \in 0..Len(Chain), NEW k, CountsWith(k, c, r.ip),
           k.perIp[r.ip] <= MaxConnsPerIp, stopped' = stopped,
           HandleAsync(c, r, i, k)
    PROVE  Inv'
<1> DEFINE j == Min(NextAsync(r, i))
<1>1. k \in Counters
  BY DEF CountsWith
<1>2. CASE /\ NextAsync(r, i) # {}
           /\ ~FailsAtOnce(Chain[j], r)
           /\ conn' = [conn EXCEPT ![c] = Suspended(r, j)]
           /\ counter' = k
  <2>1. j \in 1..Len(Chain)
    BY <1>2, NextAsyncFacts, ChainFacts
  <2>2. Chain[j] = "SessionChecker" => r.token \in Tokens
    BY <1>2 DEF FailsAtOnce, Connections, Cookies
  <2>3. conn' \in [Sockets -> Connections] /\ PendingSane'
    <3>1. /\ Suspended(r, j) \in Connections
          /\ Suspended(r, j).asyncAt = j /\ Suspended(r, j).token = r.token
      BY <2>1, SuspendedFacts
    <3>2. j # 0
      BY <2>1, ChainFacts
    <3> HIDE DEF j
    <3> QED
      BY <1>2, <2>2, <3>1, <3>2, OneConnectionTyped
  <2>4. CounterExact' /\ LimitPerIp'
    BY <1>2, <2>1, SuspendedFacts, SuspendCounts
  <2> QED
    BY <1>1, <1>2, <2>3, <2>4 DEF Inv, TypeOK
<1>3. CASE Reject(c, r, k)
  <2>1. conn' = [conn EXCEPT ![c] = Rejected(r)] /\ counter' = Uncount(k, r.ip)
    BY <1>3 DEF Reject
  <2>2. conn' \in [Sockets -> Connections] /\ PendingSane'
    BY <2>1, RejectedFacts, OneConnectionTyped
  <2>3. CounterExact' /\ LimitPerIp'
    BY <2>1, RejectedFacts, GoneCounts
  <2>4. counter' \in Counters
    BY <1>1, <2>1, UncountFacts DEF Connections
  <2> QED
    BY <2>2, <2>3, <2>4 DEF Inv, TypeOK
<1>4. CASE /\ conn' = [conn EXCEPT ![c] = Admitted(r)]
           /\ counter' = CountChecked(k)
  <2>1. conn' \in [Sockets -> Connections] /\ PendingSane'
    BY <1>4, AdmittedFacts, OneConnectionTyped
  <2>2. CounterExact' /\ LimitPerIp'
    BY <1>4, AdmittedFacts, AdmitCounts
  <2>3. counter' \in Counters
    BY <1>1, <1>4, CountCheckedFacts
  <2> QED
    BY <2>1, <2>2, <2>3 DEF Inv, TypeOK
<1> QED
  BY <1>2, <1>3, <1>4 DEF HandleAsync

-----------------------------------------------------------------------------
(* The actions *)

(* An upgrade refused before the chain preserves the invariant. *)
LEMMA RefuseUpgradeStep ==
    ASSUME Inv, NEW c \in Sockets, RefuseUpgrade(c)
    PROVE  Inv'
<1> DEFINE r == [conn[c] EXCEPT !.state = "gone"]
<1>1. /\ conn[c].state = "new" /\ counter' = counter /\ stopped' = stopped
      /\ conn' = [conn EXCEPT ![c] = r]
  BY DEF RefuseUpgrade, Inv, TypeOK
<1>2. r \in Connections /\ r.state = "gone"
  BY DEF Inv, TypeOK, Connections
<1> HIDE DEF r
<1>3. conn' \in [Sockets -> Connections] /\ PendingSane'
  BY <1>1, <1>2, OneConnectionTyped
<1>4. c \notin Held /\ conn[c].state # "pending"
  BY <1>1 DEF Held
<1>5. CounterExact'
  <2>1. /\ Cardinality(Pending') = Cardinality(Pending)
        /\ Cardinality(Held') = Cardinality(Held)
        /\ \A a \in Ips : Cardinality(HeldBy(a)') = Cardinality(HeldBy(a))
    <3>1. Pending' = Pending /\ Held' = Held
      BY <1>1, <1>2 DEF Pending, Held, Inv, TypeOK
    <3>2. \A a \in Ips : HeldBy(a)' = HeldBy(a)
      BY <1>1, <1>4, <3>1 DEF HeldBy, Held, Inv, TypeOK
    <3> QED
      BY <3>1, <3>2
  <2> QED
    BY <1>1, <2>1 DEF Inv, CounterExact
<1>6. LimitPerIp'
  BY <1>1, <1>2, LimitAfter
<1> QED
  BY <1>1, <1>3, <1>5, <1>6 DEF Inv, TypeOK

(* What the preChecks that let a connection pass have seen. *)
LEMMA PassedPreChecks ==
    ASSUME NEW r, NEW refusing, Refusals(r, refusing) = {}
    PROVE  /\ ~(Count(counter, r.ip).perIp[r.ip] > MaxConnsPerIp)
           /\ r.token # NoToken
<1>1. PICK i \in DOMAIN Chain : Chain[i] = "ConnectionCounter"
  BY ChainAssumption
<1>2. PICK j \in DOMAIN Chain : Chain[j] = "SessionChecker"
  BY ChainAssumption
<1> QED
  BY <1>1, <1>2 DEF Refusals, Refuses

(* handleIncoming preserves the invariant, refusals included. *)
LEMMA HandleIncomingStep ==
    ASSUME Inv, NEW c \in Sockets, NEW a \in Ips, NEW t \in Cookies,
           NEW refusing, HandleIncoming(c, a, t, refusing)
    PROVE  Inv'
<1> DEFINE r == Fresh(a, t)
           k == Count(counter, a)
<1>1. r \in Connections /\ r.ip = a /\ r.token = t
  BY FreshType DEF Inv, Fresh
<1>2. conn[c].state = "new" /\ stopped' = stopped
  BY DEF HandleIncoming
<1>3. CountsWith(k, c, a)
  BY <1>2, CountsNew
<1>4. counter \in Counters /\ k \in Counters /\ k.perIp[a] \in Int
  <2>1. counter \in Counters
    BY DEF Inv, TypeOK
  <2>2. k \in Counters
    BY <2>1, CountFacts
  <2> QED
    BY <2>1, <2>2 DEF Counters
<1>5. CASE Refusals(r, refusing) = {} /\ HandleAsync(c, r, 0, k)
  <2>1. r.token # NoToken /\ k.perIp[a] <= MaxConnsPerIp
    BY <1>1, <1>4, <1>5, PassedPreChecks, LimitAssumption
  <2>2. 0 \in 0..Len(Chain)
    BY ChainFacts
  <2> HIDE DEF r, k
  <2> QED
    BY <1>1, <1>2, <1>3, <1>5, <2>1, <2>2, HandleAsyncStep
<1>6. CASE /\ conn' = [conn EXCEPT ![c] = Rejected(r)]
           /\ counter' = Uncount(k, a)
  <2>1. conn' \in [Sockets -> Connections] /\ PendingSane'
    BY <1>1, <1>6, RejectedFacts, OneConnectionTyped
  <2>2. CounterExact' /\ LimitPerIp'
    <3>1. /\ Rejected(r) \in Connections /\ Rejected(r).state = "gone"
          /\ Rejected(r).ip = a
      BY <1>1, RejectedFacts
    <3> HIDE DEF r, k
    <3> QED
      BY <1>3, <1>6, <3>1, GoneCounts
  <2>3. counter' \in Counters
    BY <1>4, <1>6, UncountFacts
  <2> QED
    BY <1>2, <2>1, <2>2, <2>3 DEF Inv, TypeOK
<1>7. CASE /\ conn' = [conn EXCEPT ![c] = Rejected(r)]
           /\ counter' = counter
  <2>1. conn' \in [Sockets -> Connections] /\ PendingSane'
    BY <1>1, <1>7, RejectedFacts, OneConnectionTyped
  <2>2. /\ Rejected(r) \in Connections /\ Rejected(r).state = "gone"
    BY <1>1, RejectedFacts
  <2>3. Pending' = Pending /\ Held' = Held
    BY <1>2, <1>7, <2>2 DEF Pending, Held, Inv, TypeOK
  <2>4. \A b \in Ips : HeldBy(b)' = HeldBy(b)
    BY <1>2, <1>7, <2>3 DEF HeldBy, Held, Inv, TypeOK
  <2>5. CounterExact'
    BY <1>7, <2>3, <2>4 DEF Inv, CounterExact
  <2>6. LimitPerIp'
    BY <1>7, <2>2, LimitAfter
  <2> QED
    BY <1>2, <1>7, <2>1, <2>5, <2>6 DEF Inv, TypeOK
<1> QED
  BY <1>5, <1>6, <1>7 DEF HandleIncoming, Bothered

(* An answered connection is well typed and still where it was. *)
LEMMA AnsweredFacts ==
    ASSUME NEW r \in Connections, r.state = "pending", r.asyncAt # 0, NEW ok \in BOOLEAN,
           Chain[r.asyncAt] = "SessionChecker" => r.token \in Tokens
    PROVE  /\ Answered(r, ok) \in Connections
           /\ Answered(r, ok).state = "pending" /\ Answered(r, ok).ip = r.ip
           /\ Answered(r, ok).asyncAt = r.asyncAt /\ Answered(r, ok).token = r.token
           /\ Answered(r, ok).cancelled = r.cancelled
<1>1. Answered(r, ok) \in Connections
  <2>1. 0 \in 0..Len(Chain) /\ r.asyncAt \in 1..Len(Chain)
    BY ChainFacts DEF Connections
  <2>2. (IF ok /\ Chain[r.asyncAt] = "SessionChecker" THEN r.token ELSE r.session)
            \in Tokens \cup {NoSession}
    BY DEF Connections
  <2>3. (IF ok THEN r.passed \cup {r.asyncAt} ELSE r.passed)
            \in SUBSET (1..Len(Chain))
    BY <2>1 DEF Connections
  <2> QED
    BY <2>1, <2>2, <2>3, Zenon DEF Answered, Connections
<1> QED
  BY <1>1 DEF Answered, Connections

(* The answer to a check preserves the invariant, late ones included. *)
LEMMA AsyncDoneStep ==
    ASSUME Inv, NEW c \in Sockets, NEW ok \in BOOLEAN, AsyncDone(c, ok)
    PROVE  Inv'
<1> DEFINE r == Answered(conn[c], ok)
<1>1. /\ conn[c].state = "pending" /\ stopped' = stopped
      /\ conn[c] \in Connections /\ conn[c].asyncAt # 0
      /\ conn[c].token # NoToken
      /\ Chain[conn[c].asyncAt] = "SessionChecker" => conn[c].token \in Tokens
  BY DEF AsyncDone, Awaited, Inv, TypeOK, PendingSane
<1>2. /\ r \in Connections /\ r.ip = conn[c].ip
      /\ r.asyncAt = conn[c].asyncAt /\ r.token = conn[c].token
  BY <1>1, AnsweredFacts
<1>3. CountsWith(counter, c, r.ip) /\ counter.perIp[r.ip] <= MaxConnsPerIp
  BY <1>1, <1>2, CountsPending
<1>4. r.asyncAt \in 0..Len(Chain) /\ r.ip \in Ips
  BY <1>2 DEF Connections
<1>5. \/ HandleAsync(c, r, r.asyncAt, counter)
      \/ Reject(c, r, counter)
      \/ /\ conn' = [conn EXCEPT ![c] = Dropped(r)]
         /\ counter' = Uncount(counter, r.ip)
  BY DEF AsyncDone
<1> HIDE DEF r
<1>6. CASE HandleAsync(c, r, r.asyncAt, counter)
  BY <1>1, <1>2, <1>3, <1>4, <1>6, HandleAsyncStep
<1>7. ASSUME NEW q \in Connections, q.state = "gone", q.ip = r.ip,
             conn' = [conn EXCEPT ![c] = q], counter' = Uncount(counter, r.ip)
      PROVE  Inv'
  <2>1. conn' \in [Sockets -> Connections] /\ PendingSane'
    BY <1>7, OneConnectionTyped
  <2>2. CounterExact' /\ LimitPerIp'
    BY <1>3, <1>7, GoneCounts
  <2>3. counter' \in Counters
    BY <1>4, <1>7, UncountFacts DEF Inv, TypeOK
  <2> QED
    BY <1>1, <2>1, <2>2, <2>3 DEF Inv, TypeOK
<1>8. CASE Reject(c, r, counter)
  BY <1>2, <1>7, <1>8, RejectedFacts DEF Reject
<1>9. CASE /\ conn' = [conn EXCEPT ![c] = Dropped(r)]
           /\ counter' = Uncount(counter, r.ip)
  BY <1>2, <1>7, <1>9, DroppedFacts
<1> QED
  BY <1>5, <1>6, <1>8, <1>9

(* The sets after the sockets in S have closed. *)
LEMMA CloseAllSets ==
    ASSUME TypeOK, NEW S \in SUBSET Sockets, CloseAll(S)
    PROVE  /\ conn' \in [Sockets -> Connections]
           /\ Pending' = Pending
           /\ Used' = Used
           /\ Held' = Held \ (S \cap Clients)
           /\ \A a : HeldBy(a)' = HeldBy(a) \ (S \cap Clients)
           /\ \A c \in Sockets : /\ conn'[c].token = conn[c].token
                                 /\ conn'[c].asyncAt = conn[c].asyncAt
<1>1. ASSUME NEW c \in Sockets
      PROVE  /\ conn[c] \in Connections
             /\ Closed(conn[c]) \in Connections
             /\ Closed(conn[c]).ip = conn[c].ip
             /\ Closed(conn[c]).token = conn[c].token
             /\ Closed(conn[c]).asyncAt = conn[c].asyncAt
             /\ Closed(conn[c]).state =
                    IF conn[c].state = "client" THEN "gone" ELSE conn[c].state
  <2>1. conn[c] \in Connections
    BY DEF TypeOK
  <2>2. Closed(conn[c]) \in Connections
    BY <2>1, Zenon DEF Closed, Connections
  <2> QED
    BY <2>1, <2>2 DEF Closed, Connections
<1>2. ASSUME NEW c \in Sockets
      PROVE  conn'[c] = IF c \in S THEN Closed(conn[c]) ELSE conn[c]
  BY DEF CloseAll
<1>3. conn' \in [Sockets -> Connections]
  BY <1>1 DEF CloseAll
<1>4. ASSUME NEW c \in Sockets
      PROVE  /\ conn'[c].ip = conn[c].ip
             /\ conn'[c].token = conn[c].token
             /\ conn'[c].asyncAt = conn[c].asyncAt
             /\ conn'[c].state = IF c \in S /\ conn[c].state = "client"
                                THEN "gone" ELSE conn[c].state
  BY <1>1, <1>2
<1>5. Pending' = Pending /\ Used' = Used
  BY <1>4 DEF Pending, Used
<1>6. Held' = Held \ (S \cap Clients)
  BY <1>4 DEF Held, Clients
<1>7. \A a : HeldBy(a)' = HeldBy(a) \ (S \cap Clients)
  BY <1>4, <1>6 DEF HeldBy, Held
<1> QED
  BY <1>3, <1>4, <1>5, <1>6, <1>7

(* Closing sockets preserves all of the invariant but the typing of the    *)
(* variable stopped, which the actions that close them set.                *)
LEMMA CloseAllStep ==
    ASSUME Inv, NEW S \in SUBSET Sockets, CloseAll(S), stopped' \in BOOLEAN
    PROVE  Inv'
<1> DEFINE C == S \cap Clients
<1>1. /\ conn' \in [Sockets -> Connections]
      /\ Pending' = Pending
      /\ Held' = Held \ C
      /\ \A a : HeldBy(a)' = HeldBy(a) \ C
      /\ \A c \in Sockets : /\ conn'[c].token = conn[c].token
                            /\ conn'[c].asyncAt = conn[c].asyncAt
  BY CloseAllSets DEF Inv
<1>2. counter' = UncountClients(counter, C)
  BY DEF CloseAll
<1>3. C \subseteq Held /\ IsFiniteSet(C) /\ Held \cap C = C
  BY FiniteParts DEF Held, Clients
<1>4. \A a : HeldBy(a) \cap C = {c \in C : conn[c].ip = a}
  BY <1>3 DEF HeldBy
<1> HIDE DEF C
<1>5. /\ Cardinality(C) \in Nat
      /\ Cardinality(Held') = Cardinality(Held) - Cardinality(C)
  <2>1. Cardinality(C) \in Nat
    BY <1>3, FS_CardinalityType
  <2>2. Cardinality(Held \ C) = Cardinality(Held) - Cardinality(Held \cap C)
    BY FiniteParts, FS_Difference
  <2> QED
    BY <1>1, <1>3, <2>1, <2>2, Zenon
<1>6. ASSUME NEW a \in Ips
      PROVE  /\ Cardinality(HeldBy(a)') =
                  Cardinality(HeldBy(a)) - Cardinality({c \in C : conn[c].ip = a})
             /\ Cardinality(HeldBy(a)') \in Nat
             /\ Cardinality({c \in C : conn[c].ip = a}) \in Nat
             /\ Cardinality(HeldBy(a)') <= Cardinality(HeldBy(a))
  <2>1. /\ IsFiniteSet(HeldBy(a)) /\ IsFiniteSet(HeldBy(a)')
        /\ IsFiniteSet({c \in C : conn[c].ip = a})
    BY <1>1, <1>3, FiniteParts, FS_Difference, FS_Subset
  <2>2. Cardinality(HeldBy(a)') =
            Cardinality(HeldBy(a)) - Cardinality({c \in C : conn[c].ip = a})
    <3>1. Cardinality(HeldBy(a) \ C) =
              Cardinality(HeldBy(a)) - Cardinality(HeldBy(a) \cap C)
      BY <2>1, FS_Difference
    <3> QED
      BY <1>1, <1>4, <3>1, Zenon
  <2>3. /\ Cardinality(HeldBy(a)) \in Nat
        /\ Cardinality(HeldBy(a)') \in Nat
        /\ Cardinality({c \in C : conn[c].ip = a}) \in Nat
    BY <2>1, FS_CardinalityType
  <2> QED
    BY <2>2, <2>3
<1>7. ASSUME NEW a \in Ips
      PROVE  (counter.perIp[a] - Cardinality({c \in C : conn[c].ip = a})) % CountMod
                 = Cardinality(HeldBy(a)')
  <2>1. /\ counter.perIp[a] = Cardinality(HeldBy(a))
        /\ Cardinality(HeldBy(a)) \in Nat
        /\ Cardinality(HeldBy(a)) <= MaxConnsPerIp
    BY FiniteParts, FS_CardinalityType DEF Inv, CounterExact, LimitPerIp
  <2> DEFINE n == Cardinality(HeldBy(a)')
             x == Cardinality({c \in C : conn[c].ip = a})
  <2>2. n = counter.perIp[a] - x /\ n \in Nat /\ x \in Nat
    BY <1>6, <2>1
  <2>3. counter.perIp[a] \in Nat /\ counter.perIp[a] <= MaxConnsPerIp
    BY <2>1
  <2> HIDE DEF n, x
  <2>4. n < CountMod
    BY <2>2, <2>3, LimitAssumption
  <2>5. n % CountMod = n
    BY <2>2, <2>4, ModSmall, LimitAssumption
  <2> QED
    BY <2>2, <2>5, Zenon DEF n, x
<1>8. counter \in Counters /\ counter.currentActive \in Int
  BY DEF Inv, TypeOK, Counters
<1> DEFINE perIp == [a \in Ips |->
                (counter.perIp[a] - Cardinality({c \in C : conn[c].ip = a})) % CountMod]
<1>9. counter' = [counter EXCEPT !.currentActive = @ - Cardinality(C), !.perIp = perIp]
  BY <1>2, Zenon DEF UncountClients
<1>10. perIp \in [Ips -> 0..(CountMod - 1)]
  <2>1. ASSUME NEW a \in Ips
        PROVE  (counter.perIp[a] - Cardinality({c \in C : conn[c].ip = a})) % CountMod
                   \in 0..(CountMod - 1)
    <3>1. counter.perIp[a] \in Int /\ Cardinality({c \in C : conn[c].ip = a}) \in Int
      <4>1. counter.perIp[a] \in Int
        BY <1>8, LimitAssumption DEF Counters
      <4> QED
        BY <1>6, <4>1
    <3>2. \A x \in Int : x % CountMod \in 0..(CountMod - 1)
      BY ModRange, LimitAssumption
    <3> QED
      BY <3>1, <3>2
  <2> QED
    BY <2>1
<1>11. \A a \in Ips : perIp[a] = Cardinality(HeldBy(a)')
  BY <1>7
<1> HIDE DEF perIp
<1>12. counter' \in Counters
  <2>1. counter.currentActive - Cardinality(C) \in Int
    BY <1>5, <1>8
  <2> QED
    BY <1>8, <1>9, <1>10, <2>1, Zenon DEF Counters
<1>13. /\ counter'.currentChecking = counter.currentChecking
       /\ counter'.currentActive = counter.currentActive - Cardinality(C)
       /\ counter'.perIp = perIp
  BY <1>8, <1>9 DEF Counters
<1>14. CounterExact'
  BY <1>1, <1>5, <1>11, <1>13 DEF Inv, CounterExact
<1>15. LimitPerIp'
  <2>1. ASSUME NEW a \in Ips PROVE Cardinality(HeldBy(a)') <= MaxConnsPerIp
    <3>1. Cardinality(HeldBy(a)) <= MaxConnsPerIp /\ Cardinality(HeldBy(a)) \in Nat
      BY FiniteParts, FS_CardinalityType DEF Inv, LimitPerIp
    <3>2. /\ Cardinality(HeldBy(a)') \in Nat
          /\ Cardinality(HeldBy(a)') <= Cardinality(HeldBy(a))
      BY <1>6
    <3>3. MaxConnsPerIp \in Nat
      BY LimitAssumption
    <3> QED
      BY <3>1, <3>2, <3>3
  <2> QED
    BY <2>1 DEF LimitPerIp
<1>16. PendingSane'
  <2>1. \A c \in Sockets : conn'[c].state = "pending" <=> conn[c].state = "pending"
    BY <1>1 DEF Pending
  <2> QED
    BY <1>1, <2>1 DEF Inv, PendingSane
<1> QED
  BY <1>1, <1>12, <1>14, <1>15, <1>16 DEF Inv, TypeOK

-----------------------------------------------------------------------------
(* The theorems *)

(* The initial state satisfies the invariant. *)
LEMMA InitInv == Init => Inv
<1> SUFFICES ASSUME Init PROVE Inv
  OBVIOUS
<1> DEFINE a0 == CHOOSE a \in Ips : TRUE
<1>1. \A c \in Sockets : conn[c] = Unused(a0) /\ conn[c].state = "new"
  BY DEF Init, Unused
<1>2. Pending = {} /\ Held = {} /\ \A a : HeldBy(a) = {}
  BY <1>1 DEF Pending, Held, HeldBy
<1>3. CounterExact /\ LimitPerIp
  BY <1>2, FS_EmptySet, LimitAssumption DEF Init, CounterExact, LimitPerIp
<1>4. PendingSane
  BY <1>1 DEF PendingSane
<1>5. counter \in Counters /\ stopped \in BOOLEAN
  <2>1. 0 \in 0..(CountMod - 1)
    BY LimitAssumption
  <2>2. [a \in Ips |-> 0] \in [Ips -> 0..(CountMod - 1)]
    BY <2>1
  <2> QED
    <3>1. [total |-> 0, totalChecked |-> 0, currentChecking |-> 0,
           currentActive |-> 0, perIp |-> [a \in Ips |-> 0]] \in Counters
      BY <2>2 DEF Counters
    <3> QED
      BY <3>1 DEF Init
<1>6. conn \in [Sockets -> Connections]
  <2>1. a0 \in Ips
    BY IpsAssumption
  <2>2. Unused(a0) \in Connections
    BY <2>1, ChainFacts DEF Unused, Connections, Cookies
  <2> QED
    BY <2>2 DEF Init
<1> QED
  BY <1>3, <1>4, <1>5, <1>6 DEF Inv, TypeOK

(* Every step preserves the invariant. *)
LEMMA NextInv == Inv /\ [Next]_vars => Inv'
<1> SUFFICES ASSUME Inv, [Next]_vars PROVE Inv'
  OBVIOUS
<1>1. ASSUME NEW c \in Sockets, RefuseUpgrade(c) PROVE Inv'
  BY <1>1, RefuseUpgradeStep
<1>2. ASSUME NEW c \in Sockets, NEW a \in Ips, NEW t \in Cookies, NEW refusing,
             HandleIncoming(c, a, t, refusing)
      PROVE  Inv'
  BY <1>2, HandleIncomingStep
<1>3. ASSUME NEW c \in Sockets, NEW ok \in BOOLEAN, AsyncDone(c, ok) PROVE Inv'
  BY <1>3, AsyncDoneStep
<1>4. ASSUME NEW S \in SUBSET Sockets, CloseAll(S), stopped' \in BOOLEAN PROVE Inv'
  BY <1>4, CloseAllStep
<1>5. stopped \in BOOLEAN
  BY DEF Inv, TypeOK
<1>6. ASSUME NEW c \in Sockets, Disconnect(c) PROVE Inv'
  BY <1>4, <1>5, <1>6 DEF Disconnect
<1>7. ASSUME NEW S \in SUBSET Sockets, KickInactive(S) PROVE Inv'
  BY <1>4, <1>5, <1>7 DEF KickInactive
<1>8. CASE UnsafeStop
  BY <1>4, <1>8 DEF UnsafeStop, OpenSockets
<1>9. CASE UNCHANGED vars
  BY <1>9 DEF vars, Inv, TypeOK, PendingSane, CounterExact, LimitPerIp,
             Held, HeldBy, Pending
<1> QED
  BY <1>1, <1>2, <1>3, <1>6, <1>7, <1>8, <1>9 DEF Next

(* The variables of the pipeline keep their types: in particular no count  *)
(* of an address wraps around.                                             *)
THEOREM TypeCorrect == Spec => []TypeOK
<1>1. Inv => TypeOK
  BY DEF Inv
<1> QED
  BY <1>1, InitInv, NextInv, PTL DEF Spec

(* The ConnectionCounter is exact after every callback: what preCheck has  *)
(* counted, connected or disconnected takes back once, on every path       *)
(* through handleIncoming, handleAsync, handleEnd and handleDisconnect.    *)
THEOREM CountersAreExact == Spec => []CounterExact
<1>1. Inv => CounterExact
  BY DEF Inv
<1> QED
  BY <1>1, InitInv, NextInv, PTL DEF Spec

(* No address ever holds more than MaxConnsPerIp connections. *)
THEOREM LimitHolds == Spec => []LimitPerIp
<1>1. Inv => LimitPerIp
  BY DEF Inv
<1> QED
  BY <1>1, InitInv, NextInv, PTL DEF Spec

-----------------------------------------------------------------------------
(* The connections *)

(* What a connection brings when it has been through the chain up to       *)
(* position i: the yes of every captcha check, and no session but its own. *)
InChain(r, i) ==
    /\ r.token # NoToken
    /\ r.verdict = "none"
    /\ r.session \in {NoSession, r.token}
    /\ r.passed \subseteq 1..i
    /\ \A j \in 1..i : Chain[j] = "CaptchaChecker" => j \in r.passed
    /\ r.onDisconnect = 0

(* A pending connection waits for a check it has not had, and all the      *)
(* captcha checks before it have said yes.                                 *)
PendingGood(r) ==
    /\ r.asyncAt # 0
    /\ r.token # NoToken
    /\ r.verdict = "none"
    /\ r.session \in {NoSession, r.token}
    /\ IsAsync(Chain[r.asyncAt], r)
    /\ r.passed \subseteq 1..(r.asyncAt - 1)
    /\ \A j \in 1..(r.asyncAt - 1) : Chain[j] = "CaptchaChecker" => j \in r.passed
    /\ r.onDisconnect \in {0, r.asyncAt}
    /\ r.cancelled <=> ~r.open

ClientGood(r) ==
    /\ r.open
    /\ r.verdict = "ok"
    /\ r.session = r.token
    /\ \A i \in DOMAIN Chain : Chain[i] = "CaptchaChecker" => i \in r.passed

Good(r) ==
    /\ r.state = "new" => ~r.open /\ r.verdict = "none"
    /\ r.state = "pending" => PendingGood(r)
    /\ r.state = "client" => ClientGood(r)
    /\ r.state = "gone" => ~r.open

ConnectionsGood == \A c \in Sockets : Good(conn[c])

(* No connection is counted as checked and as being checked. *)
Settled(k) == k.totalChecked + k.currentChecking <= k.total

(* One connection moves to q: it is told at most once, while it can still  *)
(* be told, and is counted as checked when it is told AuthOk.              *)
Moves(c, q) ==
    /\ conn' = [conn EXCEPT ![c] = q]
    /\ Good(q)
    /\ conn[c].verdict = "none"
    /\ q.verdict # "none" => conn[c].state = "new" \/ conn[c].open
    /\ counter'.totalChecked = counter.totalChecked + (IF q.verdict = "ok" THEN 1 ELSE 0)
    /\ Settled(counter) => Settled(counter')

(* What the counter operations do to the totals. *)
LEMMA TotalsFacts ==
    ASSUME NEW k \in Counters, NEW a \in Ips
    PROVE  /\ Count(k, a).totalChecked = k.totalChecked
           /\ CountChecked(k).totalChecked = k.totalChecked + 1
           /\ Uncount(k, a).totalChecked = k.totalChecked
           /\ Settled(k) => /\ Settled(Count(k, a))
                            /\ Settled(CountChecked(k))
                            /\ Settled(Uncount(k, a))
<1>1. k.total \in Int /\ k.totalChecked \in Int /\ k.currentChecking \in Int
  BY DEF Counters
<1>2. /\ Count(k, a).totalChecked = k.totalChecked
      /\ Count(k, a).currentChecking = k.currentChecking + 1
      /\ Count(k, a).total = k.total + 1
  BY DEF Count, Counters
<1>3. /\ CountChecked(k).totalChecked = k.totalChecked + 1
      /\ CountChecked(k).currentChecking = k.currentChecking - 1
      /\ CountChecked(k).total = k.total
  BY DEF CountChecked, Counters
<1>4. /\ Uncount(k, a).totalChecked = k.totalChecked
      /\ Uncount(k, a).currentChecking = k.currentChecking - 1
      /\ Uncount(k, a).total = k.total
  BY DEF Uncount, Counters
<1> QED
  BY <1>1, <1>2, <1>3, <1>4 DEF Settled

(* A connection that is rejected or dropped is good. *)
LEMMA GoneGood ==
    ASSUME NEW r \in Connections
    PROVE  /\ Good(Rejected(r)) /\ Rejected(r).verdict = "error"
           /\ ~r.open => Good(Dropped(r))
           /\ Dropped(r).verdict = r.verdict
<1>1. /\ Rejected(r).state = "gone" /\ ~Rejected(r).open
      /\ Rejected(r).verdict = "error"
  BY DEF Rejected, Connections
<1>2. /\ Dropped(r).state = "gone" /\ Dropped(r).open = r.open
      /\ Dropped(r).verdict = r.verdict
  BY DEF Dropped, Connections
<1> QED
  BY <1>1, <1>2 DEF Good

(* A connection suspended on the next asynchronous check is good. *)
LEMMA SuspendedGood ==
    ASSUME NEW r \in Connections, NEW i \in 0..Len(Chain), InChain(r, i),
           r.open, ~r.cancelled, NextAsync(r, i) # {}
    PROVE  /\ Good(Suspended(r, Min(NextAsync(r, i))))
           /\ Suspended(r, Min(NextAsync(r, i))).verdict = "none"
<1> DEFINE j == Min(NextAsync(r, i))
           q == Suspended(r, j)
<1>1. /\ j \in (i + 1)..Len(Chain) /\ j \in Nat /\ j # 0 /\ i \in Nat
      /\ IsAsync(Chain[j], r)
      /\ \A m \in NextAsync(r, i) : j <= m
  BY NextAsyncFacts, ChainFacts
<1> HIDE DEF j
<1>2. /\ q.state = "pending" /\ q.open = r.open /\ q.cancelled = r.cancelled
      /\ q.asyncAt = j /\ q.token = r.token /\ q.session = r.session
      /\ q.verdict = r.verdict /\ q.passed = r.passed
      /\ q.onDisconnect \in {j, r.onDisconnect}
  BY DEF Suspended, Connections
<1> HIDE DEF q
<1>3. IsAsync(Chain[q.asyncAt], q)
  BY <1>1, <1>2 DEF IsAsync
<1>4. q.passed \subseteq 1..(j - 1)
  BY <1>1, <1>2 DEF InChain
<1>5. ASSUME NEW m \in 1..(j - 1), Chain[m] = "CaptchaChecker" PROVE m \in q.passed
  <2>1. CASE m <= i
    BY <1>2, <1>5, <2>1, <1>1 DEF InChain
  <2>2. CASE ~(m <= i)
    <3>1. m \in (i + 1)..Len(Chain) /\ ~(j <= m)
      BY <1>1, <2>2, ChainFacts
    <3>2. m \in NextAsync(r, i)
      BY <1>5, <3>1 DEF NextAsync, IsAsync
    <3> QED
      BY <1>1, <3>1, <3>2
  <2> QED
    BY <2>1, <2>2
<1>6. PendingGood(q)
  BY <1>1, <1>2, <1>3, <1>4, <1>5 DEF PendingGood, InChain
<1>7. q.verdict = "none"
  BY <1>2 DEF InChain
<1> QED
  BY <1>2, <1>6, <1>7 DEF Good, q, j

(* A connection admitted at the end of the chain is good. *)
LEMMA AdmittedGood ==
    ASSUME NEW r \in Connections, NEW i \in 0..Len(Chain), InChain(r, i),
           r.open, NextAsync(r, i) = {}, r.session # NoSession
    PROVE  /\ Good(Admitted(r))
           /\ Admitted(r).verdict = "ok"
<1> DEFINE q == Admitted(r)
<1>1. /\ q.state = "client" /\ q.open = r.open /\ q.session = r.session
      /\ q.token = r.token /\ q.verdict = "ok" /\ q.passed = r.passed
  BY DEF Admitted, Connections
<1>2. ASSUME NEW m \in DOMAIN Chain, Chain[m] = "CaptchaChecker" PROVE m \in q.passed
  <2>1. m \in 1..Len(Chain) /\ i \in Nat /\ Len(Chain) \in Nat
    BY ChainFacts
  <2>2. m \notin (i + 1)..Len(Chain)
    BY <1>2 DEF NextAsync, IsAsync
  <2>3. m \in 1..i
    BY <2>1, <2>2
  <2> QED
    BY <1>1, <1>2, <2>3 DEF InChain
<1>3. ClientGood(q)
  BY <1>1, <1>2 DEF ClientGood, InChain
<1> QED
  BY <1>1, <1>3 DEF Good

(* handleAsync moves a connection that has been through the chain up to i. *)
LEMMA HandleAsyncMoves ==
    ASSUME NEW c \in Sockets, NEW r \in Connections, NEW i \in 0..Len(Chain),
           NEW k \in Counters, InChain(r, i), r.open, ~r.cancelled,
           conn[c].verdict = "none", conn[c].state = "new" \/ conn[c].open,
           k.totalChecked = counter.totalChecked, Settled(counter) => Settled(k),
           HandleAsync(c, r, i, k)
    PROVE  \E q \in Connections : Moves(c, q)
<1> DEFINE j == Min(NextAsync(r, i))
<1>1. r.ip \in Ips /\ k.totalChecked \in Int
  BY DEF Connections, Counters
<1>2. CASE /\ NextAsync(r, i) # {}
           /\ conn' = [conn EXCEPT ![c] = Suspended(r, j)]
           /\ counter' = k
  <2>1. Suspended(r, j) \in Connections
    <3>1. j \in 1..Len(Chain)
      BY <1>2, NextAsyncFacts, ChainFacts
    <3> QED
      BY <3>1, SuspendedFacts
  <2>2. Good(Suspended(r, j)) /\ Suspended(r, j).verdict = "none"
    BY <1>2, SuspendedGood
  <2> HIDE DEF j
  <2>3. Moves(c, Suspended(r, j))
    BY <1>1, <1>2, <2>2 DEF Moves
  <2> QED
    BY <2>1, <2>3
<1>3. CASE Reject(c, r, k)
  <2>1. Rejected(r) \in Connections
    BY RejectedFacts
  <2>2. Moves(c, Rejected(r))
    BY <1>1, <1>3, GoneGood, TotalsFacts DEF Moves, Reject
  <2> QED
    BY <2>1, <2>2
<1>4. CASE /\ NextAsync(r, i) = {}
           /\ r.session # NoSession
           /\ conn' = [conn EXCEPT ![c] = Admitted(r)]
           /\ counter' = CountChecked(k)
  <2>1. Admitted(r) \in Connections
    BY AdmittedFacts
  <2>2. Moves(c, Admitted(r))
    BY <1>1, <1>4, AdmittedGood, TotalsFacts DEF Moves
  <2> QED
    BY <2>1, <2>2
<1> QED
  BY <1>2, <1>3, <1>4 DEF HandleAsync

(* An upgrade refused before the chain moves one connection. *)
LEMMA RefuseUpgradeMoves ==
    ASSUME TypeOK, ConnectionsGood, NEW c \in Sockets, RefuseUpgrade(c)
    PROVE  \E q \in Connections : Moves(c, q)
<1> DEFINE q == [conn[c] EXCEPT !.state = "gone"]
<1>1. /\ conn[c].state = "new" /\ conn[c] \in Connections
      /\ ~conn[c].open /\ conn[c].verdict = "none"
      /\ counter \in Counters
  BY DEF RefuseUpgrade, TypeOK, ConnectionsGood, Good
<1>2. /\ q \in Connections /\ q.state = "gone"
      /\ ~q.open /\ q.verdict = "none"
  BY <1>1 DEF Connections
<1>3. conn' = [conn EXCEPT ![c] = q] /\ counter' = counter
  BY DEF RefuseUpgrade, TypeOK
<1> HIDE DEF q
<1>4. Good(q)
  BY <1>2 DEF Good
<1>5. counter.totalChecked \in Int
  BY <1>1 DEF Counters
<1>6. Moves(c, q)
  BY <1>1, <1>2, <1>3, <1>4, <1>5 DEF Moves
<1> QED
  BY <1>2, <1>6

(* handleIncoming moves one connection. *)
LEMMA HandleIncomingMoves ==
    ASSUME TypeOK, ConnectionsGood, NEW c \in Sockets, NEW a \in Ips,
           NEW t \in Cookies, NEW refusing, HandleIncoming(c, a, t, refusing)
    PROVE  \E q \in Connections : Moves(c, q)
<1> DEFINE r == Fresh(a, t)
           k == Count(counter, a)
<1>1. r \in Connections
  BY FreshType
<1>2. /\ conn[c].state = "new" /\ conn[c].verdict = "none"
      /\ counter \in Counters
  BY DEF HandleIncoming, TypeOK, ConnectionsGood, Good
<1>3. /\ k \in Counters /\ k.totalChecked = counter.totalChecked
      /\ Settled(counter) => Settled(k)
  BY <1>2, CountFacts, TotalsFacts
<1>4. CASE Refusals(r, refusing) = {} /\ HandleAsync(c, r, 0, k)
  <2>1. r.token # NoToken
    BY <1>4, PassedPreChecks
  <2>2. InChain(r, 0) /\ r.open /\ ~r.cancelled
    <3>1. /\ r.verdict = "none" /\ r.passed = {} /\ r.onDisconnect = 0
          /\ r.open /\ ~r.cancelled /\ r.session = GetSession(r.token)
      BY DEF Fresh
    <3>2. r.session \in {NoSession, r.token}
      BY <3>1 DEF GetSession
    <3>3. 1..0 = {}
      OBVIOUS
    <3> QED
      BY <2>1, <3>1, <3>2, <3>3 DEF InChain
  <2>3. 0 \in 0..Len(Chain)
    BY ChainFacts
  <2> HIDE DEF r, k
  <2> QED
    BY <1>1, <1>2, <1>3, <1>4, <2>2, <2>3, HandleAsyncMoves
<1>5. CASE /\ conn' = [conn EXCEPT ![c] = Rejected(r)]
           /\ counter' \in {counter, Uncount(counter, a), k, Uncount(k, a)}
  <2>1. Rejected(r) \in Connections
    BY <1>1, RejectedFacts
  <2>2. Good(Rejected(r)) /\ Rejected(r).verdict = "error"
    BY <1>1, GoneGood
  <2>3. /\ counter'.totalChecked = counter.totalChecked
        /\ Settled(counter) => Settled(counter')
    BY <1>2, <1>3, <1>5, TotalsFacts
  <2>4. counter.totalChecked \in Int
    BY <1>2 DEF Counters
  <2> HIDE DEF r, k
  <2>5. Moves(c, Rejected(r))
    BY <1>2, <1>5, <2>2, <2>3, <2>4 DEF Moves
  <2> QED
    BY <2>1, <2>5
<1> QED
  BY <1>4, <1>5 DEF HandleIncoming

(* The answer to a check moves one connection, closed or not. *)
LEMMA AsyncDoneMoves ==
    ASSUME Inv, ConnectionsGood, NEW c \in Sockets, NEW ok \in BOOLEAN, AsyncDone(c, ok)
    PROVE  \E q \in Connections : Moves(c, q)
<1> DEFINE r == Answered(conn[c], ok)
           j == conn[c].asyncAt
<1>1. /\ conn[c].state = "pending" /\ conn[c] \in Connections
      /\ PendingGood(conn[c]) /\ counter \in Counters
      /\ Chain[j] = "SessionChecker" => conn[c].token \in Tokens
  BY DEF AsyncDone, Awaited, Inv, TypeOK, PendingSane, ConnectionsGood, Good
<1>2. /\ r \in Connections /\ r.asyncAt = j /\ r.cancelled = conn[c].cancelled
      /\ r.token = conn[c].token
  BY <1>1, AnsweredFacts DEF PendingGood
<1>3. /\ r.open = conn[c].open /\ r.verdict = "none" /\ r.onDisconnect = 0
      /\ conn[c].verdict = "none"
      /\ r.session \in {NoSession, r.token}
      /\ r.token # NoToken
  BY <1>1 DEF Answered, Connections, PendingGood
<1>4. /\ j \in 0..Len(Chain) /\ j \in Nat /\ j # 0 /\ r.ip \in Ips
      /\ counter.totalChecked \in Int
  BY <1>1, <1>2, ChainFacts DEF PendingGood, Connections, Counters
<1>5. CASE ok /\ ~r.cancelled /\ HandleAsync(c, r, r.asyncAt, counter)
  <2>1. r.passed = conn[c].passed \cup {j}
    BY <1>1, <1>5 DEF Answered, Connections
  <2>2. InChain(r, j)
    <3>1. \A m \in 1..j : m = j \/ m \in 1..(j - 1)
      BY <1>4
    <3>2. 1..(j - 1) \subseteq 1..j /\ j \in 1..j
      BY <1>4
    <3> QED
      BY <1>1, <1>3, <2>1, <3>1, <3>2 DEF InChain, PendingGood
  <2>3. conn[c].open /\ r.open
    BY <1>1, <1>2, <1>3, <1>5 DEF PendingGood, Connections
  <2> HIDE DEF r, j
  <2> QED
    BY <1>1, <1>2, <1>3, <1>4, <1>5, <2>2, <2>3, HandleAsyncMoves
<1>6. CASE ~r.cancelled /\ Reject(c, r, counter)
  <2>1. conn[c].open
    BY <1>1, <1>2, <1>6 DEF PendingGood, Connections
  <2>2. Rejected(r) \in Connections /\ Good(Rejected(r)) /\ Rejected(r).verdict = "error"
    BY <1>2, RejectedFacts, GoneGood
  <2> HIDE DEF r, j
  <2>3. Moves(c, Rejected(r))
    BY <1>1, <1>3, <1>4, <1>6, <2>1, <2>2, TotalsFacts DEF Moves, Reject
  <2> QED
    BY <2>2, <2>3
<1>7. CASE /\ r.cancelled
           /\ conn' = [conn EXCEPT ![c] = Dropped(r)]
           /\ counter' = Uncount(counter, r.ip)
  <2>1. ~r.open
    BY <1>1, <1>2, <1>3, <1>7 DEF PendingGood, Connections
  <2>2. Dropped(r) \in Connections /\ Good(Dropped(r)) /\ Dropped(r).verdict = "none"
    BY <1>2, <1>3, <2>1, DroppedFacts, GoneGood
  <2> HIDE DEF r, j
  <2>3. Moves(c, Dropped(r))
    BY <1>1, <1>3, <1>4, <1>7, <2>2, TotalsFacts DEF Moves
  <2> QED
    BY <2>2, <2>3
<1> QED
  BY <1>5, <1>6, <1>7 DEF AsyncDone

(* Closing sockets keeps every connection good and tells nobody. *)
LEMMA CloseAllGood ==
    ASSUME TypeOK, ConnectionsGood, NEW S \in SUBSET Sockets, CloseAll(S)
    PROVE  /\ ConnectionsGood'
           /\ \A c \in Sockets : conn'[c].verdict = conn[c].verdict
           /\ counter'.totalChecked = counter.totalChecked
           /\ counter'.currentChecking = counter.currentChecking
           /\ counter'.total = counter.total
<1>1. ASSUME NEW c \in Sockets
      PROVE  Good(conn'[c]) /\ conn'[c].verdict = conn[c].verdict
  <2> DEFINE r == conn[c]
             q == Closed(r)
  <2>1. r \in Connections /\ Good(r) /\ conn'[c] = IF c \in S THEN q ELSE r
    BY DEF TypeOK, ConnectionsGood, CloseAll
  <2>2. q.verdict = r.verdict
    BY <2>1 DEF Closed, Connections
  <2>3. CASE r.state = "client"
    <3>1. q.state = "gone" /\ ~q.open
      BY <2>1, <2>3 DEF Closed, Connections
    <3> QED
      BY <2>1, <2>2, <3>1 DEF Good
  <2>4. CASE r.state # "client"
    <3>1. /\ q.state = r.state /\ ~q.open /\ q.cancelled
          /\ q.asyncAt = r.asyncAt /\ q.token = r.token /\ q.session = r.session
          /\ q.passed = r.passed /\ q.onDisconnect = r.onDisconnect
      BY <2>1, <2>4 DEF Closed, Connections
    <3> HIDE DEF q, r
    <3>2. PendingGood(r) => PendingGood(q)
      BY <2>2, <3>1 DEF PendingGood, IsAsync
    <3> QED
      BY <2>1, <2>2, <2>4, <3>1, <3>2 DEF Good, r
  <2> QED
    BY <2>3, <2>4
<1>2. /\ counter'.totalChecked = counter.totalChecked
      /\ counter'.currentChecking = counter.currentChecking
      /\ counter'.total = counter.total
  BY DEF CloseAll, UncountClients, TypeOK, Counters
<1> QED
  BY <1>1, <1>2 DEF ConnectionsGood

(* Every callback of the event loop moves one connection, closes some      *)
(* sockets, or changes nothing.                                            *)
LEMMA NextMoves ==
    ASSUME Inv, ConnectionsGood, [Next]_vars
    PROVE  \/ \E c \in Sockets, q \in Connections : Moves(c, q)
           \/ \E S \in SUBSET Sockets : CloseAll(S)
           \/ UNCHANGED vars
<1>1. TypeOK
  BY DEF Inv
<1>2. ASSUME NEW c \in Sockets, RefuseUpgrade(c)
      PROVE  \E d \in Sockets, q \in Connections : Moves(d, q)
  BY <1>1, <1>2, RefuseUpgradeMoves
<1>3. ASSUME NEW c \in Sockets, NEW a \in Ips, NEW t \in Cookies, NEW refusing,
             HandleIncoming(c, a, t, refusing)
      PROVE  \E d \in Sockets, q \in Connections : Moves(d, q)
  BY <1>1, <1>3, HandleIncomingMoves
<1>4. ASSUME NEW c \in Sockets, NEW ok \in BOOLEAN, AsyncDone(c, ok)
      PROVE  \E d \in Sockets, q \in Connections : Moves(d, q)
  BY <1>4, AsyncDoneMoves
<1>5. ASSUME NEW c \in Sockets, Disconnect(c)
      PROVE  \E S \in SUBSET Sockets : CloseAll(S)
  BY <1>5 DEF Disconnect
<1>6. ASSUME NEW S \in SUBSET Sockets, KickInactive(S)
      PROVE  \E R \in SUBSET Sockets : CloseAll(R)
  BY <1>6 DEF KickInactive
<1>7. ASSUME UnsafeStop
      PROVE  \E S \in SUBSET Sockets : CloseAll(S)
  <2>1. OpenSockets \in SUBSET Sockets
    BY DEF OpenSockets
  <2> QED
    BY <1>7, <2>1 DEF UnsafeStop
<1> QED
  BY <1>2, <1>3, <1>4, <1>5, <1>6, <1>7 DEF Next

Told == {c \in Sockets : conn[c].verdict = "ok"}

CheckInv == Inv /\ ConnectionsGood /\ TotalsAgree

(* Initially nobody has connected. *)
LEMMA InitChecked == Init => CheckInv
<1> SUFFICES ASSUME Init PROVE CheckInv
  OBVIOUS
<1>1. \A c \in Sockets : /\ conn[c].state = "new" /\ ~conn[c].open
                         /\ conn[c].verdict = "none"
  BY DEF Init, Unused
<1>2. Inv
  BY InitInv
<1>3. ConnectionsGood
  BY <1>1 DEF ConnectionsGood, Good
<1>4. TotalsAgree
  <2>1. {c \in Sockets : conn[c].verdict = "ok"} = {}
    BY <1>1
  <2>2. Cardinality({c \in Sockets : conn[c].verdict = "ok"}) = 0
    BY <2>1, FS_EmptySet
  <2> QED
    BY <2>2 DEF Init, TotalsAgree
<1> QED
  BY <1>2, <1>3, <1>4 DEF CheckInv

(* Every step keeps the connections good and the totals in agreement. *)
LEMMA NextChecked == CheckInv /\ [Next]_vars => CheckInv'
<1> SUFFICES ASSUME CheckInv, [Next]_vars PROVE CheckInv'
  OBVIOUS
<1>1. Inv /\ Inv' /\ TypeOK /\ TypeOK' /\ ConnectionsGood
  BY NextInv DEF CheckInv, Inv
<1>2. /\ counter.totalChecked = Cardinality(Told) /\ Settled(counter)
      /\ IsFiniteSet(Told)
  BY FiniteParts DEF CheckInv, TotalsAgree, Told, Settled
<1>3. SUFFICES ConnectionsGood' /\ counter'.totalChecked = Cardinality(Told') /\ Settled(counter')
  BY <1>1, <1>3 DEF CheckInv, TotalsAgree, Told, Settled
<1>4. ASSUME NEW c \in Sockets, NEW q \in Connections, Moves(c, q)
      PROVE  ConnectionsGood' /\ counter'.totalChecked = Cardinality(Told') /\ Settled(counter')
  <2>1. /\ conn' = [conn EXCEPT ![c] = q] /\ Good(q) /\ c \notin Told
        /\ counter'.totalChecked = counter.totalChecked + (IF q.verdict = "ok" THEN 1 ELSE 0)
        /\ Settled(counter')
    BY <1>2, <1>4 DEF Moves, Told
  <2>2. ConnectionsGood'
    BY <1>1, <2>1 DEF ConnectionsGood, TypeOK
  <2>3. Told' = IF q.verdict = "ok" THEN Told \cup {c} ELSE Told
    BY <1>1, <2>1 DEF Told, TypeOK
  <2>4. Cardinality(Told \cup {c}) = Cardinality(Told) + 1 /\ Cardinality(Told) \in Nat
    BY <1>2, <2>1, FS_AddElement, FS_CardinalityType
  <2> QED
    BY <1>2, <2>1, <2>2, <2>3, <2>4
<1>5. ASSUME NEW S \in SUBSET Sockets, CloseAll(S)
      PROVE  ConnectionsGood' /\ counter'.totalChecked = Cardinality(Told') /\ Settled(counter')
  <2>1. /\ ConnectionsGood'
        /\ \A c \in Sockets : conn'[c].verdict = conn[c].verdict
        /\ counter'.totalChecked = counter.totalChecked
        /\ counter'.currentChecking = counter.currentChecking
        /\ counter'.total = counter.total
    BY <1>1, <1>5, CloseAllGood
  <2>2. Told' = Told
    BY <2>1 DEF Told
  <2> QED
    BY <1>2, <2>1, <2>2 DEF Settled
<1>6. CASE UNCHANGED vars
  BY <1>1, <1>2, <1>6 DEF vars, ConnectionsGood, Told, Settled
<1> QED
  BY <1>1, <1>4, <1>5, <1>6, NextMoves

(* A pending connection waits for exactly the answer of the check in       *)
(* flight, its handler belongs to that check, and it is marked as          *)
(* cancelled just when its socket has closed.                              *)
THEOREM PendingIsSound == Spec => []PendingAwaitsItsCheck
<1>1. CheckInv => PendingAwaitsItsCheck
  <2> SUFFICES ASSUME CheckInv, NEW c \in Sockets, conn[c].state = "pending"
               PROVE  /\ conn[c].asyncAt # 0
                      /\ conn[c].asyncAt \notin conn[c].passed
                      /\ IsAsync(Chain[conn[c].asyncAt], conn[c])
                      /\ conn[c].onDisconnect \in {0, conn[c].asyncAt}
                      /\ conn[c].cancelled <=> ~conn[c].open
    BY DEF PendingAwaitsItsCheck
  <2>1. PendingGood(conn[c]) /\ conn[c].asyncAt \in Nat
    BY ChainFacts DEF CheckInv, ConnectionsGood, Good, Inv, TypeOK, Connections
  <2>2. conn[c].asyncAt \notin 1..(conn[c].asyncAt - 1)
    BY <2>1
  <2> QED
    BY <2>1, <2>2 DEF PendingGood
<1> QED
  BY <1>1, InitChecked, NextChecked, PTL DEF Spec

(* Whatever the order of the chain, a client has an open socket, the       *)
(* session of its own token, and a yes from every captcha check.           *)
THEOREM ClientsAreChecked == Spec => []ClientIsChecked
<1>1. CheckInv => ClientIsChecked
  BY DEF CheckInv, ConnectionsGood, Good, ClientGood, ClientIsChecked, Clients
<1> QED
  BY <1>1, InitChecked, NextChecked, PTL DEF Spec

(* The published totals agree with what the peers were told. *)
THEOREM TotalsAreRight == Spec => []TotalsAgree
<1>1. CheckInv => TotalsAgree
  BY DEF CheckInv
<1> QED
  BY <1>1, InitChecked, NextChecked, PTL DEF Spec

(* A peer is told once, and not after its socket has closed: in particular *)
(* an answer that comes late admits nobody.                                *)
THEOREM VerdictsAreFinal == Spec => OneVerdict
<1>1. ASSUME CheckInv, [Next]_vars
      PROVE  [\A c \in Sockets : conn'[c].verdict # conn[c].verdict =>
                 /\ conn[c].verdict = "none"
                 /\ conn[c].state = "new" \/ conn[c].open]_vars
  <2>1. Inv /\ ConnectionsGood /\ TypeOK
    BY <1>1 DEF CheckInv, Inv
  <2>2. ASSUME NEW d \in Sockets, NEW q \in Connections, Moves(d, q),
               NEW c \in Sockets, conn'[c].verdict # conn[c].verdict
        PROVE  conn[c].verdict = "none" /\ (conn[c].state = "new" \/ conn[c].open)
    <3>1. c = d /\ conn'[c] = q
      BY <2>1, <2>2 DEF Moves, TypeOK
    <3> QED
      BY <2>2, <3>1 DEF Moves
  <2>3. ASSUME NEW S \in SUBSET Sockets, CloseAll(S), NEW c \in Sockets
        PROVE  conn'[c].verdict = conn[c].verdict
    BY <2>1, <2>3, CloseAllGood
  <2> QED
    BY <1>1, <2>1, <2>2, <2>3, NextMoves
<1> QED
  BY <1>1, InitChecked, NextChecked, PTL DEF Spec, OneVerdict

-----------------------------------------------------------------------------
(* Progress *)

(* How many answers c may still have to wait for. *)
AnswersLeft(c) ==
    IF conn[c].state = "pending" THEN Len(Chain) + 1 - conn[c].asyncAt ELSE 0

(* Once connected, c never has more answers to wait for than before, and   *)
(* each answer leaves it fewer.                                            *)
AnswersProgress ==
    \A c \in Sockets :
        /\ conn[c].state # "new" => AnswersLeft(c)' =< AnswersLeft(c)
        /\ \A ok \in BOOLEAN : AsyncDone(c, ok) => AnswersLeft(c)' < AnswersLeft(c)

(* A connection that the check in flight is the last to let in has a       *)
(* session for its client.                                                 *)
EndsHaveSession ==
    \A c \in Pending :
        LET r == Answered(conn[c], TRUE)
        IN  NextAsync(r, r.asyncAt) = {} => r.session # NoSession

(* The session check, when it is behind a connection, has found one. *)
SessionBehind(r, i) ==
    \A m \in 1..i : Chain[m] = "SessionChecker" => r.session # NoSession

SessionsBehind == \A c \in Pending : SessionBehind(conn[c], conn[c].asyncAt - 1)

(* The check that answers is the session check, or it is behind, or ahead. *)
LEMMA AnsweredBehind ==
    ASSUME Inv, ConnectionsGood, NEW c \in Pending, SessionBehind(conn[c], conn[c].asyncAt - 1)
    PROVE  SessionBehind(Answered(conn[c], TRUE), conn[c].asyncAt)
<1> DEFINE r == Answered(conn[c], TRUE)
           j == conn[c].asyncAt
<1>1. /\ c \in Sockets /\ conn[c] \in Connections /\ j # 0
      /\ Chain[j] = "SessionChecker" => conn[c].token \in Tokens
  BY DEF Inv, TypeOK, PendingSane, Pending
<1>2. j \in Nat /\ \A m \in 1..j : m = j \/ m \in 1..(j - 1)
  BY <1>1, ChainFacts DEF Connections
<1>3. r.session = IF Chain[j] = "SessionChecker" THEN conn[c].token ELSE conn[c].session
  BY <1>1 DEF Answered, Connections
<1> QED
  BY <1>1, <1>2, <1>3, TokenAssumption DEF SessionBehind

(* Past a session check that is not asynchronous, there is a session. *)
LEMMA SkippedBehind ==
    ASSUME NEW r, NEW i \in 0..Len(Chain), NEW n \in 0..Len(Chain), SessionBehind(r, i),
           \A m \in NextAsync(r, i) : m > n
    PROVE  SessionBehind(r, n)
<1>1. \A m \in 1..n : m \in 1..i \/ m \in (i + 1)..Len(Chain)
  BY ChainFacts
<1>2. \A m \in 1..n : m \in Int /\ ~(m > n)
  BY ChainFacts
<1> QED
  BY <1>1, <1>2 DEF SessionBehind, NextAsync, IsAsync

(* A connection that has come to the end of the chain has a session. *)
LEMMA EndHasSession ==
    ASSUME NEW r, NEW i \in 0..Len(Chain), SessionBehind(r, i), NextAsync(r, i) = {}
    PROVE  r.session # NoSession
<1>1. Len(Chain) \in 0..Len(Chain) /\ DOMAIN Chain = 1..Len(Chain)
  BY ChainFacts
<1> QED
  BY <1>1, SkippedBehind, ChainAssumption DEF SessionBehind

(* One connection moves to q, and if it waits on, for a later check. *)
MovesOn(c, q) ==
    /\ conn' = [conn EXCEPT ![c] = q]
    /\ q.state = "pending" => /\ SessionBehind(q, q.asyncAt - 1)
                              /\ conn[c].state = "new" \/ q.asyncAt > conn[c].asyncAt
                              /\ conn[c].state \in {"new", "pending"}

(* handleAsync moves a connection on from position i. *)
LEMMA HandleAsyncMovesOn ==
    ASSUME NEW c \in Sockets, NEW r \in Connections, NEW i \in 0..Len(Chain), NEW k,
           SessionBehind(r, i), HandleAsync(c, r, i, k)
    PROVE  \E q \in Connections :
              /\ conn' = [conn EXCEPT ![c] = q]
              /\ q.state = "pending" => SessionBehind(q, q.asyncAt - 1) /\ q.asyncAt > i
<1> DEFINE j == Min(NextAsync(r, i))
<1>1. CASE /\ NextAsync(r, i) # {}
           /\ conn' = [conn EXCEPT ![c] = Suspended(r, j)]
  <2>1. /\ j \in (i + 1)..Len(Chain) /\ \A m \in NextAsync(r, i) : j <= m
    BY <1>1, NextAsyncFacts
  <2>2. NextAsync(r, i) \subseteq Int
    BY ChainFacts DEF NextAsync
  <2> HIDE DEF j
  <2>3. /\ j \in 1..Len(Chain) /\ j > i /\ j - 1 \in 0..Len(Chain)
        /\ \A m \in NextAsync(r, i) : m > j - 1
    BY <2>1, <2>2, ChainFacts
  <2>4. SessionBehind(r, j - 1)
    BY <2>3, SkippedBehind
  <2>5. Suspended(r, j) \in Connections /\ Suspended(r, j).asyncAt = j
    BY <2>3, SuspendedFacts
  <2>6. Suspended(r, j).session = r.session
    BY DEF Suspended, Connections
  <2>7. SessionBehind(Suspended(r, j), j - 1)
    BY <2>4, <2>6 DEF SessionBehind
  <2>8. conn' = [conn EXCEPT ![c] = Suspended(r, j)]
    BY <1>1 DEF j
  <2> QED
    BY <2>3, <2>5, <2>7, <2>8
<1>2. CASE conn' = [conn EXCEPT ![c] = Rejected(r)]
  BY <1>2, RejectedFacts
<1>3. CASE conn' = [conn EXCEPT ![c] = Admitted(r)]
  BY <1>3, AdmittedFacts
<1> QED
  BY <1>1, <1>2, <1>3 DEF HandleAsync, Reject

(* The answer to a check moves the connection on. *)
LEMMA AsyncDoneMovesOn ==
    ASSUME Inv, ConnectionsGood, SessionsBehind, NEW c \in Sockets, NEW ok \in BOOLEAN,
           AsyncDone(c, ok)
    PROVE  conn[c].state = "pending" /\ \E q \in Connections : MovesOn(c, q)
<1> DEFINE r == Answered(conn[c], ok)
<1>1. /\ conn[c].state = "pending" /\ conn[c] \in Connections /\ conn[c].asyncAt # 0
      /\ Chain[conn[c].asyncAt] = "SessionChecker" => conn[c].token \in Tokens
  BY DEF AsyncDone, Awaited, Inv, TypeOK, PendingSane
<1>2. r \in Connections /\ r.asyncAt = conn[c].asyncAt /\ r.asyncAt \in 0..Len(Chain)
  BY <1>1, AnsweredFacts DEF Connections
<1>3. ok => SessionBehind(r, r.asyncAt)
  BY <1>1, <1>2, AnsweredBehind DEF SessionsBehind, Pending
<1>4. \/ ok /\ HandleAsync(c, r, r.asyncAt, counter)
      \/ conn' = [conn EXCEPT ![c] = Rejected(r)]
      \/ conn' = [conn EXCEPT ![c] = Dropped(r)]
  BY DEF AsyncDone, Reject
<1> HIDE DEF r
<1>5. CASE ok /\ HandleAsync(c, r, r.asyncAt, counter)
  BY <1>1, <1>2, <1>3, <1>5, HandleAsyncMovesOn DEF MovesOn
<1>6. CASE conn' = [conn EXCEPT ![c] = Rejected(r)]
  BY <1>1, <1>2, <1>6, RejectedFacts DEF MovesOn
<1>7. CASE conn' = [conn EXCEPT ![c] = Dropped(r)]
  BY <1>1, <1>2, <1>7, DroppedFacts DEF MovesOn
<1> QED
  BY <1>1, <1>4, <1>5, <1>6, <1>7

(* handleIncoming moves a connection that was new. *)
LEMMA HandleIncomingMovesOn ==
    ASSUME TypeOK, NEW c \in Sockets, NEW a \in Ips, NEW t \in Cookies, NEW refusing,
           HandleIncoming(c, a, t, refusing)
    PROVE  \E q \in Connections : MovesOn(c, q)
<1> DEFINE r == Fresh(a, t)
           k == Count(counter, a)
<1>1. r \in Connections /\ conn[c].state = "new" /\ 0 \in 0..Len(Chain)
  BY FreshType, ChainFacts DEF HandleIncoming
<1>2. SessionBehind(r, 0)
  <2>1. 1..0 = {}
    OBVIOUS
  <2> QED BY <2>1 DEF SessionBehind
<1>3. \/ HandleAsync(c, r, 0, k)
      \/ conn' = [conn EXCEPT ![c] = Rejected(r)]
  BY DEF HandleIncoming
<1> HIDE DEF r, k
<1>4. CASE HandleAsync(c, r, 0, k)
  <2>1. PICK q \in Connections :
                /\ conn' = [conn EXCEPT ![c] = q]
                /\ q.state = "pending" => SessionBehind(q, q.asyncAt - 1) /\ q.asyncAt > 0
    BY <1>1, <1>2, <1>4, HandleAsyncMovesOn
  <2> QED
    BY <1>1, <2>1 DEF MovesOn
<1>5. CASE conn' = [conn EXCEPT ![c] = Rejected(r)]
  BY <1>1, <1>5, RejectedFacts DEF MovesOn
<1> QED
  BY <1>3, <1>4, <1>5

(* Closed sockets wait for what they waited for. *)
StaysPending(c) ==
    conn'[c].state = "pending" => /\ conn[c].state = "pending"
                                  /\ conn'[c].asyncAt = conn[c].asyncAt
                                  /\ conn'[c].session = conn[c].session

LEMMA CloseAllStays ==
    ASSUME TypeOK, NEW S \in SUBSET Sockets, CloseAll(S), NEW c \in Sockets
    PROVE  StaysPending(c)
<1>1. conn[c] \in Connections /\ conn'[c] \in {conn[c], Closed(conn[c])}
  BY DEF TypeOK, CloseAll
<1> QED
  BY <1>1 DEF Closed, Connections, StaysPending

(* Every callback moves one connection on or leaves all pending ones where *)
(* they are.                                                               *)
LEMMA NextMovesOn ==
    ASSUME Inv, ConnectionsGood, SessionsBehind, [Next]_vars
    PROVE  \/ \E c \in Sockets, q \in Connections : MovesOn(c, q)
           \/ \A c \in Sockets : StaysPending(c)
<1>1. TypeOK
  BY DEF Inv
<1>2. ASSUME NEW c \in Sockets, RefuseUpgrade(c)
      PROVE  \E q \in Connections : MovesOn(c, q)
  <2> DEFINE q == [conn[c] EXCEPT !.state = "gone"]
  <2>1. q \in Connections /\ q.state = "gone" /\ conn' = [conn EXCEPT ![c] = q]
    BY <1>1, <1>2 DEF RefuseUpgrade, TypeOK, Connections
  <2> QED BY <2>1 DEF MovesOn
<1>3. ASSUME NEW c \in Sockets, NEW a \in Ips, NEW t \in Cookies, NEW refusing,
             HandleIncoming(c, a, t, refusing)
      PROVE  \E q \in Connections : MovesOn(c, q)
  BY <1>1, <1>3, HandleIncomingMovesOn
<1>4. ASSUME NEW c \in Sockets, NEW ok \in BOOLEAN, AsyncDone(c, ok)
      PROVE  \E q \in Connections : MovesOn(c, q)
  BY <1>4, AsyncDoneMovesOn
<1>5. ASSUME NEW S \in SUBSET Sockets, CloseAll(S), NEW c \in Sockets
      PROVE  StaysPending(c)
  BY <1>1, <1>5, CloseAllStays
<1>6. {c \in Sockets : conn[c].open} \in SUBSET Sockets
  OBVIOUS
<1>7. CASE UNCHANGED vars
  BY <1>7 DEF vars, StaysPending
<1> QED
  BY <1>2, <1>3, <1>4, <1>5, <1>6, <1>7
  DEF Next, Disconnect, KickInactive, UnsafeStop, OpenSockets

ProgressInv == CheckInv /\ SessionsBehind

LEMMA InitProgress == Init => ProgressInv
BY InitChecked DEF Init, Unused, ProgressInv, SessionsBehind, Pending

LEMMA NextProgress == ProgressInv /\ [Next]_vars => ProgressInv'
<1> SUFFICES ASSUME ProgressInv, [Next]_vars, NEW d \in Pending'
             PROVE  SessionBehind(conn[d], conn[d].asyncAt - 1)'
  BY NextChecked DEF ProgressInv, SessionsBehind
<1>1. /\ Inv /\ ConnectionsGood /\ SessionsBehind /\ conn \in [Sockets -> Connections]
      /\ d \in Sockets /\ conn'[d].state = "pending"
  BY DEF ProgressInv, CheckInv, Inv, TypeOK, Pending
<1>2. StaysPending(d) => SessionBehind(conn[d], conn[d].asyncAt - 1)'
  BY <1>1 DEF StaysPending, SessionsBehind, SessionBehind, Pending
<1>3. ASSUME NEW c \in Sockets, NEW q \in Connections, MovesOn(c, q)
      PROVE  SessionBehind(conn[d], conn[d].asyncAt - 1)'
  <2>1. CASE d = c
    BY <1>1, <1>3, <2>1 DEF MovesOn, SessionBehind
  <2>2. CASE d # c
    BY <1>1, <1>2, <1>3, <2>2 DEF MovesOn, StaysPending
  <2> QED BY <2>1, <2>2
<1> QED
  BY <1>1, <1>2, <1>3, NextMovesOn

(* Whichever processors a chain has, and in whichever order, a connection  *)
(* that comes to its end has a session for the Client to take over: the    *)
(* session check, somewhere in the chain, has found it, or the cookie's    *)
(* session was alive and has been held ever since.                         *)
THEOREM NoEndWithoutSession == Spec => []EndsHaveSession
<1>1. ProgressInv => EndsHaveSession
  <2> SUFFICES ASSUME ProgressInv, NEW c \in Pending
               PROVE  LET r == Answered(conn[c], TRUE)
                      IN  NextAsync(r, r.asyncAt) = {} => r.session # NoSession
    BY DEF EndsHaveSession
  <2> DEFINE r == Answered(conn[c], TRUE)
  <2>1. conn[c] \in Connections
    BY DEF ProgressInv, CheckInv, Inv, TypeOK, Pending
  <2>2. r.asyncAt = conn[c].asyncAt /\ r.asyncAt \in 0..Len(Chain)
    BY <2>1 DEF Answered, Connections
  <2>3. SessionBehind(r, r.asyncAt)
    BY <2>2, AnsweredBehind DEF ProgressInv, CheckInv, SessionsBehind
  <2> QED BY <2>2, <2>3, EndHasSession
<1> QED
  BY <1>1, InitProgress, NextProgress, PTL DEF Spec

(* No callback gives a connection more answers to wait for, and each       *)
(* answer to it leaves fewer: what PendingEnds rests on, besides answers.  *)
THEOREM AnswersMoveOn == Spec => [][AnswersProgress]_vars
<1>1. ASSUME ProgressInv, [Next]_vars
      PROVE  AnswersProgress
  <2>1. /\ Inv /\ ConnectionsGood /\ SessionsBehind /\ conn \in [Sockets -> Connections]
        /\ conn' \in [Sockets -> Connections]
    BY <1>1, NextInv DEF ProgressInv, CheckInv, Inv, TypeOK
  <2>2. /\ \A c \in Sockets : conn[c].asyncAt \in 0..Len(Chain) /\ conn'[c].asyncAt \in 0..Len(Chain)
        /\ Len(Chain) \in Nat
    BY <2>1, ChainFacts DEF Connections
  <2>3. ASSUME NEW c \in Sockets, NEW q \in Connections, MovesOn(c, q)
        PROVE  /\ conn[c].state = "pending" => AnswersLeft(c)' < AnswersLeft(c)
               /\ \A d \in Sockets : conn[d].state # "new" => AnswersLeft(d)' =< AnswersLeft(d)
    <3>1. /\ conn'[c] = q /\ \A d \in Sockets : d # c => conn'[d] = conn[d]
      BY <2>1, <2>3 DEF MovesOn
    <3>2. conn[c].state = "pending" => AnswersLeft(c)' < AnswersLeft(c)
      BY <2>2, <2>3, <3>1 DEF MovesOn, AnswersLeft
    <3>3. conn[c].state \notin {"new", "pending"} => AnswersLeft(c)' = 0
      BY <2>3, <3>1 DEF MovesOn, AnswersLeft
    <3>4. /\ \A d \in Sockets : AnswersLeft(d) \in Nat
          /\ \A d \in Sockets : AnswersLeft(d)' \in Nat
      <4>1. \A n \in 0..Len(Chain) : Len(Chain) + 1 - n \in Nat
        BY <2>2
      <4> QED BY <2>2, <4>1 DEF AnswersLeft
    <3>5. \A d \in Sockets : d # c => AnswersLeft(d)' = AnswersLeft(d)
      BY <3>1 DEF AnswersLeft
    <3> QED BY <3>2, <3>3, <3>4, <3>5
  <2>4. ASSUME NEW d \in Sockets, StaysPending(d)
        PROVE  AnswersLeft(d)' =< AnswersLeft(d)
    BY <2>2, <2>4 DEF StaysPending, AnswersLeft
  <2>5. ASSUME NEW c \in Sockets, NEW ok \in BOOLEAN, AsyncDone(c, ok)
        PROVE  AnswersLeft(c)' < AnswersLeft(c)
    BY <2>1, <2>3, <2>5, AsyncDoneMovesOn
  <2>6. \A c \in Sockets : conn[c].state # "new" => AnswersLeft(c)' =< AnswersLeft(c)
    BY <1>1, <2>1, <2>3, <2>4, NextMovesOn
  <2> QED BY <2>5, <2>6 DEF AnswersProgress
<1> QED
  BY <1>1, InitProgress, NextProgress, PTL DEF Spec

-----------------------------------------------------------------------------
(* The refinement *)

(* ConnectionSlots measures sets as this module does. *)
LEMMA SameCardinality ==
    ASSUME NEW S
    PROVE  Slots!Cardinality(S) = Cardinality(S)
BY DEF Slots!Cardinality, Cardinality

(* What happens to the slots when c becomes r. *)
LEMMA OneConnectionSlots ==
    ASSUME TypeOK, NEW c \in Sockets, NEW r \in Connections, r.state # "new",
           conn' = [conn EXCEPT ![c] = r]
    PROVE  /\ Used' = Used \cup {c}
           /\ r.state = "gone" =>
                  \A a : HeldBy(a)' = HeldBy(a) \ {c}
           /\ r.state \in {"pending", "client"} =>
                  \A a : HeldBy(a)' = IF a = r.ip THEN HeldBy(a) \cup {c}
                                                 ELSE HeldBy(a) \ {c}
<1>1. Used' = Used \cup {c}
  BY DEF TypeOK, Used
<1>2. ASSUME r.state = "gone", NEW a
      PROVE  HeldBy(a)' = HeldBy(a) \ {c}
  BY <1>2 DEF TypeOK, HeldBy, Held
<1>3. ASSUME r.state \in {"pending", "client"}, NEW a
      PROVE  HeldBy(a)' = IF a = r.ip THEN HeldBy(a) \cup {c} ELSE HeldBy(a) \ {c}
  BY <1>3 DEF TypeOK, HeldBy, Held
<1> QED
  BY <1>1, <1>2, <1>3

(* What handleAsync makes of a connection. *)
LEMMA HandleAsyncResult ==
    ASSUME NEW c \in Sockets, NEW r \in Connections, NEW i \in 0..Len(Chain), NEW k,
           HandleAsync(c, r, i, k)
    PROVE  \E q \in Connections :
              /\ q.state \in {"pending", "client", "gone"}
              /\ q.ip = r.ip
              /\ conn' = [conn EXCEPT ![c] = q]
              /\ q.state = "gone" => counter' = Uncount(k, r.ip)
<1> DEFINE j == Min(NextAsync(r, i))
<1>1. CASE /\ NextAsync(r, i) # {}
           /\ conn' = [conn EXCEPT ![c] = Suspended(r, j)]
  <2>1. j \in 1..Len(Chain)
    BY <1>1, NextAsyncFacts, ChainFacts
  <2> QED
    BY <1>1, <2>1, SuspendedFacts
<1>2. CASE Reject(c, r, k)
  BY <1>2, RejectedFacts DEF Reject
<1>3. CASE conn' = [conn EXCEPT ![c] = Admitted(r)]
  BY <1>3, AdmittedFacts
<1> QED
  BY <1>1, <1>2, <1>3 DEF HandleAsync

(* Every callback of the event loop takes one slot for a new connection,   *)
(* turns it away, releases slots, or leaves them as they are.              *)
LEMMA NextSlots ==
    ASSUME Inv, Inv', [Next]_vars
    PROVE  [Slots!SlotsNext]_(Slots!slotVars)
<1>1. ASSUME NEW c \in Sockets, RefuseUpgrade(c) PROVE Slots!TurnAway(c)
  <2>1. c \notin Used /\ Used' = Used \cup {c} /\ \A a : HeldBy(a)' = HeldBy(a)
    BY <1>1 DEF RefuseUpgrade, Inv, TypeOK, Connections, Used, HeldBy, Held
  <2> QED
    BY <2>1 DEF Slots!TurnAway
<1>2. ASSUME NEW c \in Sockets, c \in Used, NEW q \in Connections,
             q.state \in {"pending", "client", "gone"}, q.ip = conn[c].ip,
             conn[c].state = "pending", conn' = [conn EXCEPT ![c] = q]
      PROVE  Slots!Release({c}) \/ UNCHANGED Slots!slotVars
  <2>1. Used' = Used
    BY <1>2 DEF Used, Inv, TypeOK
  <2>2. CASE q.state = "gone"
    <3>1. \A a : HeldBy(a)' = HeldBy(a) \ {c}
      BY <1>2, <2>2, OneConnectionSlots DEF Inv
    <3> QED
      BY <2>1, <3>1 DEF Slots!Release
  <2>3. CASE q.state # "gone"
    <3>1. \A a : HeldBy(a)' = HeldBy(a)
      BY <1>2, <2>3 DEF HeldBy, Held, Inv, TypeOK
    <3> QED
      BY <2>1, <3>1 DEF Slots!slotVars
  <2> QED
    BY <2>2, <2>3
<1>3. ASSUME NEW S \in SUBSET Sockets, CloseAll(S)
      PROVE  Slots!Release(S \cap Clients) \/ UNCHANGED Slots!slotVars
  <2>1. Used' = Used /\ \A a : HeldBy(a)' = HeldBy(a) \ (S \cap Clients)
    BY <1>3, CloseAllSets DEF Inv
  <2> QED
    BY <2>1 DEF Slots!Release, Slots!slotVars
<1>4. ASSUME NEW c \in Sockets, NEW a \in Ips, NEW t \in Cookies, NEW refusing,
             HandleIncoming(c, a, t, refusing)
      PROVE  Slots!Take(c, a) \/ Slots!TurnAway(c)
  <2> DEFINE r == Fresh(a, t)
  <2>1. c \notin Used /\ c \notin Held /\ \A b : c \notin HeldBy(b)
    BY <1>4 DEF HandleIncoming, Used, Held, HeldBy
  <2>2. r \in Connections /\ r.ip = a
    BY FreshType DEF Inv, Fresh
  <2>3. ASSUME NEW q \in Connections, q.state = "gone",
               conn' = [conn EXCEPT ![c] = q]
        PROVE  Slots!TurnAway(c)
    <3>1. Used' = Used \cup {c} /\ \A b : HeldBy(b)' = HeldBy(b) \ {c}
      BY <2>3, OneConnectionSlots DEF Inv
    <3>2. \A b : HeldBy(b)' = HeldBy(b)
      BY <2>1, <3>1
    <3> QED
      BY <2>1, <3>1, <3>2 DEF Slots!TurnAway
  <2>4. ASSUME NEW q \in Connections, q.state \in {"pending", "client"}, q.ip = a,
               conn' = [conn EXCEPT ![c] = q]
        PROVE  Slots!Take(c, a)
    <3>1. /\ Used' = Used \cup {c}
          /\ \A b : HeldBy(b)' = IF b = a THEN HeldBy(b) \cup {c} ELSE HeldBy(b)
      <4>1. /\ Used' = Used \cup {c}
            /\ \A b : HeldBy(b)' = IF b = a THEN HeldBy(b) \cup {c} ELSE HeldBy(b) \ {c}
        <5>1. q.state # "new"
          BY <2>4
        <5> QED
          BY <2>4, <5>1, OneConnectionSlots DEF Inv
      <4> QED
        BY <2>1, <4>1
    <3>2. Cardinality(HeldBy(a)) < MaxConnsPerIp
      <4>1. Cardinality(HeldBy(a)') = Cardinality(HeldBy(a)) + 1
        BY <2>1, <3>1, FiniteParts, FS_AddElement
      <4>2. Cardinality(HeldBy(a)') <= MaxConnsPerIp
        BY DEF Inv, LimitPerIp
      <4>3. Cardinality(HeldBy(a)) \in Nat /\ MaxConnsPerIp \in Nat
        BY FiniteParts, FS_CardinalityType, LimitAssumption
      <4> QED
        BY <4>1, <4>2, <4>3
    <3>3. [b \in Ips |-> HeldBy(b)'] =
              [[b \in Ips |-> HeldBy(b)] EXCEPT ![a] = @ \cup {c}]
      BY <3>1
    <3> QED
      BY <2>1, <3>1, <3>2, <3>3, SameCardinality DEF Slots!Take
  <2>5. CASE HandleAsync(c, r, 0, Count(counter, a))
    <3>1. 0 \in 0..Len(Chain)
      BY ChainFacts
    <3> HIDE DEF r
    <3>2. PICK q \in Connections :
              /\ q.state \in {"pending", "client", "gone"}
              /\ q.ip = r.ip
              /\ conn' = [conn EXCEPT ![c] = q]
      BY <2>2, <2>5, <3>1, HandleAsyncResult
    <3> QED
      BY <2>2, <2>3, <2>4, <3>2
  <2>6. CASE conn' = [conn EXCEPT ![c] = Rejected(r)]
    BY <2>2, <2>3, <2>6, RejectedFacts
  <2> QED
    BY <1>4, <2>5, <2>6 DEF HandleIncoming
<1>5. ASSUME NEW c \in Sockets, NEW ok \in BOOLEAN, AsyncDone(c, ok)
      PROVE  Slots!Release({c}) \/ UNCHANGED Slots!slotVars
  <2> DEFINE r == Answered(conn[c], ok)
  <2>1. /\ conn[c].state = "pending" /\ c \in Used /\ conn[c] \in Connections
        /\ conn[c].asyncAt # 0
        /\ Chain[conn[c].asyncAt] = "SessionChecker" => conn[c].token \in Tokens
    BY <1>5 DEF AsyncDone, Awaited, Inv, TypeOK, PendingSane, Used
  <2>2. /\ r \in Connections /\ r.ip = conn[c].ip
        /\ r.asyncAt \in 0..Len(Chain)
    BY <2>1, AnsweredFacts DEF Connections
  <2>3. \/ HandleAsync(c, r, r.asyncAt, counter)
        \/ conn' = [conn EXCEPT ![c] = Rejected(r)]
        \/ conn' = [conn EXCEPT ![c] = Dropped(r)]
    BY <1>5 DEF AsyncDone, Reject
  <2> HIDE DEF r
  <2>4. \E q \in Connections :
              /\ q.state \in {"pending", "client", "gone"}
              /\ q.ip = r.ip
              /\ conn' = [conn EXCEPT ![c] = q]
    BY <2>2, <2>3, HandleAsyncResult, RejectedFacts, DroppedFacts
  <2> QED
    BY <1>2, <2>1, <2>2, <2>4
<1>6. ASSUME NEW c \in Sockets, Disconnect(c)
      PROVE  Slots!Release({c} \cap Clients) \/ UNCHANGED Slots!slotVars
  BY <1>3, <1>6 DEF Disconnect
<1>7. ASSUME NEW S \in SUBSET Sockets, KickInactive(S)
      PROVE  Slots!Release(S \cap Clients) \/ UNCHANGED Slots!slotVars
  BY <1>3, <1>7 DEF KickInactive
<1>8. ASSUME UnsafeStop
      PROVE  Slots!Release(OpenSockets \cap Clients) \/ UNCHANGED Slots!slotVars
  BY <1>3, <1>8 DEF UnsafeStop, OpenSockets
<1>9. CASE UNCHANGED vars
  BY <1>9 DEF vars, Slots!slotVars, Used, HeldBy, Held
<1>10. Clients \subseteq Sockets
  BY DEF Clients
<1> QED
  BY <1>1, <1>4, <1>5, <1>6, <1>7, <1>8, <1>9, <1>10 DEF Next, Slots!SlotsNext

(* ConnectionManager implements ConnectionSlots: whatever the chain and    *)
(* the order of answers and disconnections, a connection is given a slot   *)
(* of its address once, within the limit, and gives it back.               *)
THEOREM SlotsImplemented == Spec => ImplementsSlots
<1>1. Init => Slots!SlotsInit
  BY DEF Init, Unused, Slots!SlotsInit, Used, HeldBy, Held
<1>2. Inv /\ Inv' /\ [Next]_vars => [Slots!SlotsNext]_(Slots!slotVars)
  BY NextSlots
<1> QED
  BY <1>1, <1>2, InitInv, NextInv, PTL DEF Spec, ImplementsSlots, Slots!SlotsSpec
=============================================================================

-------------------------- MODULE RankSyncProofs --------------------------
(***************************************************************************)
(* Proofs about RankSync: while the server is connected, no change of a    *)
(* rank escapes it, and no rank it has is replaced by an older one.        *)
(***************************************************************************)
EXTENDS RankSync, TLAPS

(* A message that tells the server the content v of rank k, or that it     *)
(* should ask for it; and one that tells it another content.               *)
Tells(m, k, v) ==
    \/ m.type = "changed" /\ m.id = k
    \/ m.type = "rows" /\ k \in DOMAIN m.content /\ m.content[k] = v

Stale(m, k, v) == m.type = "rows" /\ k \in DOMAIN m.content /\ m.content[k] # v

Asked(k) == \E i \in DOMAIN queries : queries[i].type = "select" /\ k \in queries[i].ids

Told(k) ==
    \E i \in DOMAIN stream :
        /\ Tells(stream[i], k, dbRanks[k])
        /\ \A j \in DOMAIN stream : j > i => ~Stale(stream[j], k, dbRanks[k])

Known(k) == ranks[k] = dbRanks[k] /\ \A j \in DOMAIN stream : ~Stale(stream[j], k, dbRanks[k])

(* LISTEN waits in the queue, and the load of all ranks right behind it. *)
Registering ==
    \E i \in DOMAIN queries :
        /\ queries[i] = Listen
        /\ i + 1 \in DOMAIN queries /\ queries[i + 1] = Select(Ranks)

(* What is invariant: until the server listens, both queries wait, in that *)
(* order; from then on, whatever it is told last of a rank is right.       *)
Inv ==
    /\ TypeOK
    /\ ~connected => stream = <<>> /\ listening = FALSE
    /\ connected /\ ~listening => Registering
    /\ listening => \A k \in Ranks : Asked(k) \/ Told(k) \/ Known(k)

(* What the queue holds, one query at a time. *)
LEMMA QueryTypes ==
    /\ Listen \in Queries /\ Listen.type = "listen"
    /\ \A ids \in SUBSET Ranks :
          Select(ids) \in Queries /\ Select(ids).type = "select" /\ Select(ids).ids = ids
    /\ \A q \in Queries : q # Listen =>
          q.type = "select" /\ q.ids \in SUBSET Ranks
<1>1. Listen \in Queries /\ Listen.type = "listen"
  BY DEF Queries, Listen
<1>2. ASSUME NEW ids \in SUBSET Ranks
      PROVE  Select(ids) \in Queries /\ Select(ids).type = "select" /\ Select(ids).ids = ids
  <2>1. Select(ids) \in Queries
    BY DEF Queries
  <2> QED BY <2>1 DEF Select
<1>3. ASSUME NEW q \in Queries, q # Listen
      PROVE  q.type = "select" /\ q.ids \in SUBSET Ranks
  <2>1. PICK ids \in SUBSET Ranks : q = Select(ids)
    BY <1>3 DEF Queries
  <2> QED BY <1>2, <2>1
<1> QED BY <1>1, <1>2, <1>3

(* What the stream holds, one message at a time. *)
LEMMA MessageTypes ==
    ASSUME TypeOK
    PROVE  /\ Listening \in Messages /\ Listening.type = "listening"
           /\ \A k \in Ranks : Changed(k) \in Messages /\ Changed(k).type = "changed"
                               /\ Changed(k).id = k
           /\ \A ids \in SUBSET Ranks :
                 /\ Rows(ids) \in Messages /\ Rows(ids).type = "rows"
                 /\ DOMAIN Rows(ids).content = ids
                 /\ \A k \in ids : Rows(ids).content[k] = dbRanks[k]
           /\ \A m \in Messages :
                 /\ m.type = "changed" => m.id \in Ranks
                 /\ m.type = "rows" => /\ DOMAIN m.content \subseteq Ranks
                                       /\ \A k \in DOMAIN m.content : m.content[k] \in Versions
<1>1. /\ Listening \in Messages /\ Listening.type = "listening"
      /\ \A k \in Ranks : Changed(k) \in Messages /\ Changed(k).type = "changed"
                          /\ Changed(k).id = k
  BY DEF Messages, Listening, Changed
<1>2. ASSUME NEW ids \in SUBSET Ranks
      PROVE  /\ Rows(ids) \in Messages /\ Rows(ids).type = "rows"
             /\ DOMAIN Rows(ids).content = ids
             /\ \A k \in ids : Rows(ids).content[k] = dbRanks[k]
  <2> DEFINE c == [k \in ids |-> dbRanks[k]]
  <2>1. c \in [ids -> Versions]
    BY DEF TypeOK
  <2>2. DOMAIN c = ids /\ \A k \in ids : c[k] = dbRanks[k]
    OBVIOUS
  <2>3. Rows(ids) = [type |-> "rows", content |-> c]
    BY DEF Rows
  <2>4. c \in UNION {[d -> Versions] : d \in SUBSET Ranks}
    BY <2>1
  <2> HIDE DEF c
  <2>5. Rows(ids) \in Messages
    BY <2>3, <2>4 DEF Messages
  <2> QED BY <2>2, <2>3, <2>5
<1>3. ASSUME NEW m \in Messages
      PROVE  /\ m.type = "changed" => m.id \in Ranks
             /\ m.type = "rows" => /\ DOMAIN m.content \subseteq Ranks
                                   /\ \A k \in DOMAIN m.content : m.content[k] \in Versions
  <2>1. CASE m = Listening
    BY <2>1 DEF Listening
  <2>2. CASE \E k \in Ranks : m = Changed(k)
    BY <2>2 DEF Changed
  <2>3. CASE m \in [type : {"rows"}, content : UNION {[ids -> Versions] : ids \in SUBSET Ranks}]
    <3>1. m.type = "rows" /\ m.content \in UNION {[ids -> Versions] : ids \in SUBSET Ranks}
      BY <2>3
    <3>2. PICK ids \in SUBSET Ranks : m.content \in [ids -> Versions]
      BY <3>1
    <3> QED BY <3>1, <3>2
  <2> QED BY <2>1, <2>2, <2>3 DEF Messages
<1> QED BY <1>1, <1>2, <1>3

(* The invariant holds when the server starts. *)
LEMMA InitInv == Init => Inv
<1> SUFFICES ASSUME Init
             PROVE  Inv
  OBVIOUS
<1>1. dbRanks \in [Ranks -> Versions] /\ losses \in 0 .. MaxLosses
  BY MaxVersionAssumption, MaxLossesAssumption DEF Init, Versions
<1>2. connected = FALSE /\ listening = FALSE
  BY DEF Init
<1>3. queries = <<>> /\ stream = <<>>
  BY DEF Init
<1>4. ranks \in [Ranks -> Versions \cup {Unknown}]
  BY DEF Init
<1>5. TypeOK
  <2>1. queries \in Seq(Queries) /\ stream \in Seq(Messages)
    BY <1>3
  <2>2. connected \in BOOLEAN /\ listening \in BOOLEAN
    BY <1>2
  <2> QED BY <1>1, <1>4, <2>1, <2>2 DEF TypeOK
<1> QED BY <1>2, <1>3, <1>5 DEF Inv

(* A change of a rank is told to a server that listens, and any other      *)
(* loads all ranks after it listens.                                       *)
LEMMA ChangeRankStep ==
    ASSUME Inv, NEW k \in Ranks, ChangeRank(k)
    PROVE  Inv'
<1>1. TypeOK /\ dbRanks \in [Ranks -> Versions] /\ stream \in Seq(Messages)
  BY DEF Inv, TypeOK
<1>2. /\ dbRanks[k] < MaxVersion
      /\ dbRanks' = [dbRanks EXCEPT ![k] = dbRanks[k] + 1]
      /\ stream' = IF listening THEN Append(stream, Changed(k)) ELSE stream
      /\ UNCHANGED <<connected, listening, queries, ranks, losses>>
  BY DEF ChangeRank
<1>3. dbRanks' \in [Ranks -> Versions]
  BY <1>1, <1>2, MaxVersionAssumption DEF Versions
<1>4. Changed(k) \in Messages /\ Changed(k).type = "changed" /\ Changed(k).id = k
  BY <1>1, MessageTypes
<1>5. stream' \in Seq(Messages)
  BY <1>1, <1>2, <1>4
<1>6. TypeOK'
  BY <1>1, <1>2, <1>3, <1>5 DEF TypeOK
<1>7. ASSUME listening, NEW d \in Ranks
      PROVE  (Asked(d) \/ Told(d) \/ Known(d))'
  <2>1. stream' = Append(stream, Changed(k))
    BY <1>2, <1>7
  <2>2. /\ DOMAIN stream' = DOMAIN stream \cup {Len(stream) + 1}
        /\ stream'[Len(stream) + 1] = Changed(k)
        /\ \A i \in DOMAIN stream : stream'[i] = stream[i] /\ i \in Nat /\ i =< Len(stream)
        /\ Len(stream) \in Nat
    BY <1>1, <1>4, <2>1
  <2>3. CASE d = k
    <3>1. Tells(stream'[Len(stream) + 1], k, dbRanks'[k])
      BY <1>4, <2>2 DEF Tells
    <3>2. \A j \in DOMAIN stream' : ~(j > Len(stream) + 1)
      BY <2>2
    <3> QED BY <2>2, <2>3, <3>1, <3>2 DEF Told
  <2>4. CASE d # k
    <3>1. dbRanks'[d] = dbRanks[d]
      BY <1>1, <1>2, <2>4
    <3>2. ~Stale(Changed(k), d, dbRanks[d])
      BY <1>4 DEF Stale
    <3>3. Asked(d) \/ Told(d) \/ Known(d)
      BY <1>7 DEF Inv
    <3>4. CASE Asked(d)
      BY <1>2, <3>4 DEF Asked
    <3>5. CASE Told(d)
      BY <2>2, <3>1, <3>2, <3>5 DEF Told
    <3>6. CASE Known(d)
      BY <1>2, <2>2, <3>1, <3>2, <3>6 DEF Known
    <3> QED BY <3>3, <3>4, <3>5, <3>6
  <2> QED BY <2>3, <2>4
<1>8. connected' /\ ~listening' => Registering'
  BY <1>2 DEF Inv, Registering, Listen, Select
<1>9. ~connected' => stream' = <<>> /\ listening' = FALSE
  BY <1>2 DEF Inv
<1> QED BY <1>2, <1>6, <1>7, <1>8, <1>9 DEF Inv

(* A connection registers both queries, in that order. *)
LEMMA ConnectStep ==
    ASSUME Inv, Connect
    PROVE  Inv'
<1>1. TypeOK /\ queries \in Seq(Queries) /\ ~connected /\ stream = <<>> /\ listening = FALSE
  BY DEF Inv, TypeOK, Connect
<1>2. /\ connected' = TRUE
      /\ queries' = queries \o <<Listen, Select(Ranks)>>
      /\ UNCHANGED <<dbRanks, listening, stream, ranks, losses>>
  BY DEF Connect, RegisterNotifs
<1>3. Listen \in Queries /\ Select(Ranks) \in Queries
  BY QueryTypes
<1> HIDE DEF Listen, Select
<1>4. queries' \in Seq(Queries)
  BY <1>1, <1>2, <1>3
<1>5. /\ Len(queries) + 1 \in DOMAIN queries' /\ Len(queries) + 1 + 1 \in DOMAIN queries'
      /\ queries'[Len(queries) + 1] = Listen /\ queries'[Len(queries) + 1 + 1] = Select(Ranks)
  BY <1>1, <1>2, <1>3
<1>6. Registering'
  BY <1>5 DEF Registering, Listen, Select
<1>7. TypeOK'
  BY <1>1, <1>2, <1>4 DEF TypeOK
<1> QED BY <1>1, <1>2, <1>6, <1>7 DEF Inv

(* The database runs a query: its answer is the present content. *)
LEMMA RunStep ==
    ASSUME Inv, Run
    PROVE  Inv'
<1> DEFINE q == Head(queries)
           a == IF q = Listen THEN Listening ELSE Rows(q.ids)
<1>1. /\ TypeOK /\ queries \in Seq(Queries) /\ stream \in Seq(Messages)
      /\ connected /\ queries # <<>>
      /\ \A i \in DOMAIN stream : stream[i].type = "changed"
  BY DEF Inv, TypeOK, Run
<1>2. q \in Queries
  BY <1>1
<1>3. /\ queries' = Tail(queries) /\ stream' = Append(stream, a)
      /\ listening' = IF q = Listen THEN TRUE ELSE listening
      /\ UNCHANGED <<dbRanks, connected, ranks, losses>>
  BY DEF Run
<1>4. q # Listen => q.type = "select" /\ q.ids \in SUBSET Ranks
  BY <1>2, QueryTypes
<1>5. a \in Messages
  BY <1>1, <1>4, MessageTypes
<1>6. \A k \in Ranks : /\ ~Stale(a, k, dbRanks[k])
                       /\ q # Listen /\ k \in q.ids => Tells(a, k, dbRanks[k])
  BY <1>1, <1>4, MessageTypes DEF Stale, Tells
<1> HIDE DEF a
<1>7. /\ DOMAIN stream' = DOMAIN stream \cup {Len(stream) + 1}
      /\ stream'[Len(stream) + 1] = a /\ Len(stream) \in Nat
      /\ \A i \in DOMAIN stream : stream'[i] = stream[i] /\ i \in Nat /\ i =< Len(stream)
  BY <1>1, <1>3, <1>5
<1>8. /\ queries[1] = q /\ queries' \in Seq(Queries)
      /\ \A i \in DOMAIN queries : i \in Nat /\ i >= 1
      /\ \A i \in DOMAIN queries : i # 1 =>
             i - 1 \in DOMAIN queries' /\ queries'[i - 1] = queries[i]
  BY <1>1, <1>3
<1>9. listening' \in BOOLEAN
  BY <1>1, <1>3 DEF TypeOK
<1>10. TypeOK'
  <2>1. stream' \in Seq(Messages)
    BY <1>1, <1>3, <1>5
  <2> QED BY <1>1, <1>3, <1>8, <1>9, <2>1 DEF TypeOK
<1>11. CASE listening
  <2>1. ASSUME NEW k \in Ranks
        PROVE  (Asked(k) \/ Told(k) \/ Known(k))'
    <3>1. Asked(k) \/ Told(k) \/ Known(k)
      BY <1>11 DEF Inv
    <3>2. CASE Asked(k)
      <4>1. PICK i \in DOMAIN queries : queries[i].type = "select" /\ k \in queries[i].ids
        BY <3>2 DEF Asked
      <4>2. CASE i = 1
        <5>1. q # Listen /\ k \in q.ids
          BY <1>8, <4>1, <4>2, QueryTypes
        <5>2. Tells(stream'[Len(stream) + 1], k, dbRanks'[k])
          BY <1>3, <1>6, <1>7, <5>1
        <5>3. \A j \in DOMAIN stream' : ~(j > Len(stream) + 1)
          BY <1>7
        <5> QED BY <1>7, <5>2, <5>3 DEF Told
      <4>3. CASE i # 1
        BY <1>8, <4>1, <4>3 DEF Asked
      <4> QED BY <4>2, <4>3
    <3>3. CASE Told(k)
      BY <1>3, <1>6, <1>7, <3>3 DEF Told
    <3>4. CASE Known(k)
      BY <1>3, <1>6, <1>7, <3>4 DEF Known
    <3> QED BY <3>1, <3>2, <3>3, <3>4
  <2>2. listening'
    BY <1>3, <1>11
  <2> QED BY <1>1, <1>3, <1>10, <2>1, <2>2 DEF Inv
<1>12. CASE ~listening
  <2>1. PICK i \in DOMAIN queries :
          queries[i] = Listen /\ i + 1 \in DOMAIN queries /\ queries[i + 1] = Select(Ranks)
    BY <1>1, <1>12 DEF Inv, Registering
  <2>2. i + 1 # 1 /\ (i + 1) - 1 = i /\ i \in Nat
    BY <1>8, <2>1
  <2>3. i \in DOMAIN queries' /\ queries'[i] = Select(Ranks)
    BY <1>8, <2>1, <2>2
  <2>4. \A k \in Ranks : Asked(k)'
    BY <2>3, QueryTypes DEF Asked
  <2>5. CASE q = Listen
    BY <1>1, <1>3, <1>10, <2>4, <2>5 DEF Inv
  <2>6. CASE q # Listen
    <3>1. i # 1
      BY <1>8, <2>1, <2>6
    <3>2. /\ i - 1 \in DOMAIN queries' /\ queries'[i - 1] = Listen
          /\ (i - 1) + 1 \in DOMAIN queries' /\ queries'[(i - 1) + 1] = Select(Ranks)
      BY <1>8, <2>1, <2>2, <2>3, <3>1
    <3>3. Registering'
      BY <3>2 DEF Registering, Listen, Select
    <3>4. listening' = listening
      BY <1>3, <2>6
    <3>5. connected' /\ ~listening'
      <4>1. connected' = connected
        BY <1>3
      <4> QED BY <1>1, <1>12, <3>4, <4>1, Zenon
    <3> QED BY <1>10, <3>3, <3>5, Zenon DEF Inv
  <2> QED BY <2>5, <2>6
<1> QED BY <1>11, <1>12

(* The server gets a message: it takes what it is told, or asks. *)
LEMMA ReceiveStep ==
    ASSUME Inv, Receive
    PROVE  Inv'
<1> DEFINE m == Head(stream)
<1>1. /\ TypeOK /\ queries \in Seq(Queries) /\ stream \in Seq(Messages) /\ stream # <<>>
      /\ ranks \in [Ranks -> Versions \cup {Unknown}]
  BY DEF Inv, TypeOK, Receive
<1>2. /\ stream' = Tail(stream)
      /\ queries' = IF m.type = "changed" THEN queries \o <<Select({m.id})>> ELSE queries
      /\ ranks' = IF m.type = "rows" THEN UpdatedRanks(m.content) ELSE ranks
      /\ UNCHANGED <<dbRanks, connected, listening, losses>>
  BY DEF Receive, OnRankUpdate
<1>3. m \in Messages /\ stream[1] = m /\ 1 \in DOMAIN stream
  BY <1>1
<1>4. connected
  BY <1>1 DEF Inv
<1>5. /\ m.type = "changed" => m.id \in Ranks
      /\ m.type = "rows" => /\ DOMAIN m.content \subseteq Ranks
                            /\ \A k \in DOMAIN m.content : m.content[k] \in Versions
  BY <1>1, <1>3, MessageTypes
<1>6. m.type = "changed" => Select({m.id}) \in Queries
  BY <1>5, QueryTypes
<1> HIDE DEF m
<1>7. /\ queries' \in Seq(Queries)
      /\ \A i \in DOMAIN queries : i \in DOMAIN queries' /\ queries'[i] = queries[i]
      /\ m.type = "changed" =>
             Len(queries) + 1 \in DOMAIN queries' /\ queries'[Len(queries) + 1] = Select({m.id})
  BY <1>1, <1>2, <1>6
<1>8. /\ stream' \in Seq(Messages)
      /\ \A i \in DOMAIN stream : i \in Nat /\ i >= 1
      /\ \A i \in DOMAIN stream : i # 1 =>
             i - 1 \in DOMAIN stream' /\ stream'[i - 1] = stream[i]
      /\ \A j \in DOMAIN stream' :
             j \in Nat /\ j + 1 \in DOMAIN stream /\ stream'[j] = stream[j + 1] /\ j + 1 > 1
  BY <1>1, <1>2
<1>9. ranks' \in [Ranks -> Versions \cup {Unknown}]
  BY <1>1, <1>2, <1>5 DEF UpdatedRanks
<1>10. TypeOK'
  BY <1>1, <1>2, <1>7, <1>8, <1>9 DEF TypeOK
<1>11. connected' /\ ~listening' => Registering'
  BY <1>2, <1>7 DEF Inv, Registering, Listen, Select
<1>12. ASSUME listening, NEW k \in Ranks
       PROVE  (Asked(k) \/ Told(k) \/ Known(k))'
  <2>1. Asked(k) \/ Told(k) \/ Known(k)
    BY <1>12 DEF Inv
  <2>2. CASE Asked(k)
    BY <1>7, <2>2 DEF Asked
  <2>3. ASSUME Tells(m, k, dbRanks[k]), \A j \in DOMAIN stream : j > 1 => ~Stale(stream[j], k, dbRanks[k])
        PROVE  Asked(k)' \/ Known(k)'
    <3>1. CASE m.type = "changed" /\ m.id = k
      BY <1>7, <3>1, QueryTypes DEF Asked
    <3>2. CASE m.type = "rows" /\ k \in DOMAIN m.content /\ m.content[k] = dbRanks[k]
      <4>1. ranks'[k] = dbRanks'[k]
        BY <1>2, <3>2 DEF UpdatedRanks
      <4>2. \A j \in DOMAIN stream' : ~Stale(stream'[j], k, dbRanks'[k])
        BY <1>2, <1>8, <2>3
      <4> QED BY <4>1, <4>2 DEF Known
    <3> QED BY <2>3, <3>1, <3>2 DEF Tells
  <2>4. CASE Told(k)
    <3>1. PICK i \in DOMAIN stream :
            /\ Tells(stream[i], k, dbRanks[k])
            /\ \A j \in DOMAIN stream : j > i => ~Stale(stream[j], k, dbRanks[k])
      BY <2>4 DEF Told
    <3>2. CASE i = 1
      BY <1>3, <2>3, <3>1, <3>2
    <3>3. CASE i # 1
      <4>1. i - 1 \in DOMAIN stream' /\ Tells(stream'[i - 1], k, dbRanks'[k])
        BY <1>2, <1>8, <3>1, <3>3
      <4>2. \A j \in DOMAIN stream' : j > i - 1 => ~Stale(stream'[j], k, dbRanks'[k])
        BY <1>2, <1>8, <3>1
      <4> QED BY <4>1, <4>2 DEF Told
    <3> QED BY <3>2, <3>3
  <2>5. CASE Known(k)
    <3>1. ~Stale(m, k, dbRanks[k])
      BY <1>3, <2>5 DEF Known
    <3>2. ranks'[k] = dbRanks'[k]
      BY <1>1, <1>2, <2>5, <3>1 DEF Known, UpdatedRanks, Stale
    <3>3. \A j \in DOMAIN stream' : ~Stale(stream'[j], k, dbRanks'[k])
      BY <1>2, <1>8, <2>5 DEF Known
    <3> QED BY <3>2, <3>3 DEF Known
  <2> QED BY <2>1, <2>2, <2>4, <2>5
<1> QED BY <1>2, <1>4, <1>10, <1>11, <1>12 DEF Inv

(* A lost connection stops listening, and will register again. *)
LEMMA LoseStep ==
    ASSUME Inv, Lose
    PROVE  Inv'
<1>1. TypeOK
  BY DEF Inv
<1>2. /\ connected' = FALSE /\ listening' = FALSE
      /\ stream' = <<>> /\ queries' \in {queries, <<>>}
      /\ losses < MaxLosses /\ losses' = losses + 1
      /\ UNCHANGED <<dbRanks, ranks>>
  BY DEF Lose
<1>3. losses' \in 0 .. MaxLosses
  BY <1>1, <1>2, MaxLossesAssumption DEF TypeOK
<1>4. queries' \in Seq(Queries) /\ stream' \in Seq(Messages)
  <2>1. <<>> \in Seq(Queries) /\ <<>> \in Seq(Messages)
    OBVIOUS
  <2> QED BY <1>1, <1>2, <2>1, Zenon DEF TypeOK
<1>5. connected' \in BOOLEAN /\ listening' \in BOOLEAN
  BY <1>2
<1>6. TypeOK'
  BY <1>1, <1>2, <1>3, <1>4, <1>5 DEF TypeOK
<1> QED BY <1>2, <1>6 DEF Inv

(* Every step keeps the invariant. *)
LEMMA NextInv == Inv /\ [Next]_vars => Inv'
<1> SUFFICES ASSUME Inv, [Next]_vars
             PROVE  Inv'
  OBVIOUS
<1>1. CASE UNCHANGED vars
  BY <1>1 DEF vars, Inv, TypeOK, Registering, Asked, Told, Known, Listen, Select
<1> QED
  BY <1>1, ConnectStep, RunStep, ReceiveStep, LoseStep, ChangeRankStep DEF Next

(* The invariant holds always. *)
LEMMA AlwaysInv == Spec => []Inv
BY InitInv, NextInv, PTL DEF Spec

(* Every variable keeps its type. *)
THEOREM TypeCorrect == Spec => []TypeOK
BY AlwaysInv, PTL DEF Inv

(* Server::registerNotifs and the handler of uv_rank_upd: no change of a   *)
(* rank falls between the load of the ranks and the notifications.         *)
THEOREM NoChangeEscapes == Spec => []RanksFollow
<1>1. Inv => RanksFollow
  <2> SUFFICES ASSUME Inv, connected, NEW k \in Ranks
               PROVE  ranks[k] = dbRanks[k] \/ Coming(k)
    BY DEF RanksFollow
  <2>1. CASE ~listening
    <3>1. PICK i \in DOMAIN queries :
            queries[i] = Listen /\ i + 1 \in DOMAIN queries /\ queries[i + 1] = Select(Ranks)
      BY <2>1 DEF Inv, Registering
    <3> QED BY <3>1, QueryTypes DEF Coming
  <2>2. CASE listening
    <3>1. Asked(k) \/ Told(k) \/ Known(k)
      BY <2>2 DEF Inv
    <3> QED BY <3>1 DEF Asked, Told, Known, Tells, Coming
  <2> QED BY <2>1, <2>2
<1> QED BY <1>1, AlwaysInv, PTL
-----------------------------------------------------------------------------
(* No rank the server has is lost, or replaced by an older one. *)
NeverOlder == \A k \in Ranks : ranks[k] # Unknown => ranks'[k] # Unknown /\ ranks'[k] >= ranks[k]

(* One answer is on its way at a time. *)
OneAnswer ==
    \A i, j \in DOMAIN stream : stream[i].type # "changed" /\ stream[j].type # "changed" => i = j

(* What an answer says of k is no older than v. *)
Newer(m, k, v) == m.type = "rows" /\ k \in DOMAIN m.content => m.content[k] >= v

(* What the server has is no newer than what the answer brings, and that   *)
(* no newer than what the database has.                                    *)
InOrder ==
    \A k \in Ranks :
        /\ ranks[k] # Unknown => /\ ranks[k] =< dbRanks[k]
                                 /\ \A i \in DOMAIN stream : Newer(stream[i], k, ranks[k])
        /\ \A i \in DOMAIN stream :
              LET m == stream[i]
              IN  m.type = "rows" /\ k \in DOMAIN m.content => m.content[k] =< dbRanks[k]

OrderInv == Inv /\ OneAnswer /\ InOrder

(* Every step keeps the order, and brings no older rank. *)
LEMMA NextOrder == OrderInv /\ [Next]_vars => OrderInv' /\ (NeverOlder \/ UNCHANGED ranks)
<1> SUFFICES ASSUME OrderInv, [Next]_vars
             PROVE  OneAnswer' /\ InOrder' /\ (NeverOlder \/ UNCHANGED ranks)
  BY NextInv DEF OrderInv
<1>1. /\ TypeOK /\ stream \in Seq(Messages) /\ queries \in Seq(Queries)
      /\ dbRanks \in [Ranks -> Nat] /\ ranks \in [Ranks -> Nat \cup {Unknown}]
      /\ OneAnswer /\ InOrder
  BY DEF OrderInv, Inv, TypeOK, Versions
<1>2. ASSUME NEW k \in Ranks, ChangeRank(k)
      PROVE  OneAnswer' /\ InOrder' /\ UNCHANGED ranks
  <2>1. /\ dbRanks' = [dbRanks EXCEPT ![k] = dbRanks[k] + 1]
        /\ stream' = IF listening THEN Append(stream, Changed(k)) ELSE stream
        /\ UNCHANGED ranks
    BY <1>2 DEF ChangeRank
  <2>2. Changed(k) \in Messages /\ Changed(k).type = "changed"
    BY <1>1, MessageTypes
  <2>3. \A i \in DOMAIN stream' :
            \/ i \in DOMAIN stream /\ stream'[i] = stream[i]
            \/ stream'[i].type = "changed"
    BY <1>1, <2>1, <2>2
  <2>4. \A d \in Ranks : dbRanks'[d] \in Nat /\ dbRanks'[d] >= dbRanks[d]
    BY <1>1, <2>1
  <2>5. OneAnswer'
    BY <1>1, <2>3 DEF OneAnswer
  <2>6. \A i \in DOMAIN stream, d \in Ranks :
            stream[i].type = "rows" /\ d \in DOMAIN stream[i].content => stream[i].content[d] \in Nat
    BY <1>1, MessageTypes DEF Versions
  <2>7. InOrder'
    BY <1>1, <2>1, <2>3, <2>4, <2>6 DEF InOrder, Newer
  <2> QED BY <2>1, <2>5, <2>7
<1>3. CASE Connect
  BY <1>1, <1>3 DEF Connect, OneAnswer, InOrder, Newer
<1>4. CASE Run
  <2> DEFINE q == Head(queries)
             a == IF q = Listen THEN Listening ELSE Rows(q.ids)
  <2>1. /\ stream' = Append(stream, a) /\ queries # <<>>
        /\ \A i \in DOMAIN stream : stream[i].type = "changed"
        /\ UNCHANGED <<dbRanks, ranks>>
    BY <1>4 DEF Run
  <2>2. q # Listen => q.ids \in SUBSET Ranks
    BY <1>1, <2>1, QueryTypes
  <2>3. /\ a \in Messages
        /\ a.type = "rows" => \A k \in DOMAIN a.content : a.content[k] = dbRanks[k]
    BY <1>1, <2>2, MessageTypes
  <2> HIDE DEF a
  <2>4. \A i \in DOMAIN stream' :
            \/ i = Len(stream) + 1 /\ stream'[i] = a
            \/ stream'[i].type = "changed"
    BY <1>1, <2>1, <2>3
  <2>5. OneAnswer'
    BY <2>4 DEF OneAnswer
  <2>6. InOrder'
    BY <1>1, <2>1, <2>3, <2>4 DEF InOrder, Newer
  <2> QED BY <2>1, <2>5, <2>6
<1>5. CASE Receive
  <2> DEFINE m == Head(stream)
  <2>1. /\ stream # <<>> /\ stream' = Tail(stream) /\ UNCHANGED dbRanks
        /\ ranks' = IF m.type = "rows" THEN UpdatedRanks(m.content) ELSE ranks
    BY <1>5 DEF Receive
  <2>2. m \in Messages /\ stream[1] = m /\ 1 \in DOMAIN stream
    BY <1>1, <2>1
  <2>3. \A i \in DOMAIN stream' :
            i + 1 \in DOMAIN stream /\ i + 1 # 1 /\ stream'[i] = stream[i + 1] /\ i \in Nat
    BY <1>1, <2>1
  <2>4. m.type = "rows" => \A k \in DOMAIN m.content : m.content[k] \in Nat
    BY <1>1, <2>2, MessageTypes DEF Versions
  <2> HIDE DEF m
  <2>5. OneAnswer'
    BY <1>1, <2>3 DEF OneAnswer
  <2>6. CASE m.type = "rows"
    <3>1. \A k \in Ranks : ranks'[k] = IF k \in DOMAIN m.content THEN m.content[k] ELSE ranks[k]
      BY <2>1, <2>6 DEF UpdatedRanks
    <3>2. \A k \in Ranks : k \in DOMAIN m.content => /\ m.content[k] =< dbRanks[k]
                                                     /\ ranks[k] # Unknown => m.content[k] >= ranks[k]
      BY <1>1, <2>2, <2>6 DEF InOrder, Newer
    <3>3. \A i \in DOMAIN stream' : stream'[i].type # "rows"
      BY <1>1, <2>2, <2>3, <2>6 DEF OneAnswer
    <3>4. InOrder'
      <4> SUFFICES ASSUME NEW k \in Ranks
                   PROVE  ranks'[k] # Unknown => ranks'[k] =< dbRanks[k]
        BY <2>1, <3>3 DEF InOrder, Newer
      <4>1. CASE k \in DOMAIN m.content
        BY <3>1, <3>2, <4>1
      <4>2. CASE k \notin DOMAIN m.content
        BY <1>1, <3>1, <4>2 DEF InOrder
      <4> QED BY <4>1, <4>2
    <3>5. NeverOlder
      <4> SUFFICES ASSUME NEW k \in Ranks, ranks[k] # Unknown
                   PROVE  ranks'[k] # Unknown /\ ranks'[k] >= ranks[k]
        BY DEF NeverOlder
      <4>1. CASE k \in DOMAIN m.content
        BY <2>4, <2>6, <3>1, <3>2, <4>1, UnknownAssumption
      <4>2. CASE k \notin DOMAIN m.content
        <5>1. ranks'[k] = ranks[k] /\ ranks[k] \in Nat
          BY <1>1, <3>1, <4>2
        <5> QED BY <5>1
      <4> QED BY <4>1, <4>2
    <3> QED BY <2>5, <3>4, <3>5
  <2>7. CASE m.type # "rows"
    BY <1>1, <2>1, <2>3, <2>5, <2>7 DEF InOrder, Newer
  <2> QED BY <2>6, <2>7
<1>6. CASE Lose
  <2>1. stream' = <<>> /\ UNCHANGED <<dbRanks, ranks>>
    BY <1>6 DEF Lose
  <2> QED BY <1>1, <2>1 DEF OneAnswer, InOrder, Newer
<1>7. CASE UNCHANGED vars
  BY <1>1, <1>7 DEF vars, OneAnswer, InOrder, Newer
<1> QED BY <1>2, <1>3, <1>4, <1>5, <1>6, <1>7 DEF Next

(* AuthManager::updateRank takes whatever rows arrive, without looking at  *)
(* how old they are. Still no rank is ever replaced by an older content,   *)
(* or dropped, by the answers to the loads that overlap with changes and   *)
(* with losses of the connection.                                          *)
THEOREM RanksNeverGoBack == Spec => [][NeverOlder]_ranks
<1>1. Init => OrderInv
  BY InitInv DEF Init, OrderInv, OneAnswer, InOrder
<1>2. OrderInv /\ [Next]_vars => OrderInv' /\ [NeverOlder]_ranks
  BY NextOrder
<1> QED BY <1>1, <1>2, PTL DEF Spec
=============================================================================

------------------------- MODULE BansManagerProofs -------------------------
(***************************************************************************)
(* Proofs about BansManager: no change is lost by a stop, and a ban lasts  *)
(* as long as was asked, and ten times that, while its expiry fits a word. *)
(***************************************************************************)
EXTENDS BansManager, TLAPS

(* A ban that expires at e is in force for as long as asked for in a. *)
Outlasts(e, a) ==
    /\ e # NotBanned
    /\ e <= 0 \/ (a.seconds # 0 /\ e >= a.made + a.seconds * 1000)

(* A table of bans keeps every ban that t says is still to be in force,    *)
(* unless its expiry did not fit.                                          *)
Covers(b, t) ==
    \A i \in Ips : Wanted(t[i]) /\ Fits(t[i]) => Outlasts(b[i], t[i])

(* What is invariant: the bans in memory cover what was asked since the    *)
(* start, and those in the file what had been asked at the last stop.      *)
Inv ==
    /\ TypeOK
    /\ FileCurrent
    /\ up => Covers(bans, asked)
    /\ Covers(ReadBanlist, filed)

(* What was asked is a time and a duration, of 63 and of 64 bits. *)
LEMMA RequestFacts ==
    ASSUME NEW a \in [made : Times, seconds : Durations]
    PROVE  /\ a # NotBanned
           /\ a.made \in Nat \ {0} /\ a.made < Half
           /\ a.seconds \in Nat /\ a.seconds < Word
<1>1. a.made \in Times /\ a.seconds \in Durations
  OBVIOUS
<1>2. a # NotBanned
  BY MarkersAssumption
<1>3. Half \in Nat /\ Word \in Nat
  BY HalfAssumption DEF Word
<1>4. a.made \in 1 .. Half - 1 /\ a.seconds \in 0 .. Word - 1
  BY <1>1, TimesAssumption, DurationsAssumption
<1> QED BY <1>2, <1>3, <1>4

(* The expiry of a ban: an i64, which is ten times as far off as was asked *)
(* if it fits, and negative, which is never, if only a u64 could hold it.  *)
LEMMA ExpiryFacts ==
    ASSUME NEW made \in Nat \ {0}, made < Half, NEW seconds \in Nat
    PROVE  LET sum == made + seconds * 10000
           IN  /\ ExpiresOn(made, seconds) \in Int
               /\ ExpiresOn(made, seconds) # NotBanned
               /\ seconds = 0 => ExpiresOn(made, seconds) = 0
               /\ seconds # 0 /\ sum < Half => ExpiresOn(made, seconds) = sum
               /\ Half <= sum /\ sum < Word => ExpiresOn(made, seconds) < 0
<1> DEFINE sum == made + seconds * 10000
<1>1. Word \in Nat \ {0} /\ Half < Word /\ Half \in Nat
  BY HalfAssumption DEF Word
<1>2. sum \in Nat /\ (seconds = 0 => sum < Half)
  OBVIOUS
<1>3. seconds # 0 => ExpiresOn(made, seconds) = Signed(sum % Word)
  BY DEF ExpiresOn
<1>4. seconds = 0 => ExpiresOn(made, seconds) = 0
  BY DEF ExpiresOn
<1> HIDE DEF sum
<1>5. sum % Word \in 0 .. Word - 1 /\ (sum < Word => sum % Word = sum)
  BY <1>1, <1>2
<1>6. /\ Signed(sum % Word) \in Int
      /\ sum % Word < Half => Signed(sum % Word) = sum % Word
      /\ Half <= sum % Word => Signed(sum % Word) < 0
  <2> DEFINE x == sum % Word
  <2>1. x \in 0 .. Word - 1
    BY <1>5
  <2> HIDE DEF x
  <2>2. Signed(x) \in Int /\ (x < Half => Signed(x) = x) /\ (Half <= x => Signed(x) < 0)
    BY <1>1, <2>1 DEF Signed
  <2> QED BY <2>2 DEF x
<1>7. ExpiresOn(made, seconds) \in Int
  BY <1>3, <1>4, <1>5, <1>6
<1>8. ExpiresOn(made, seconds) # NotBanned
  BY <1>7, MarkersAssumption
<1>9. seconds # 0 /\ sum < Half => ExpiresOn(made, seconds) = sum
  BY <1>1, <1>2, <1>3, <1>5, <1>6
<1>10. Half <= sum /\ sum < Word => ExpiresOn(made, seconds) < 0
  BY <1>1, <1>2, <1>3, <1>5, <1>6
<1> QED BY <1>4, <1>7, <1>8, <1>9, <1>10 DEF sum

(* The invariant holds when the server starts for the first time. *)
LEMMA InitInv == Init => Inv
<1> SUFFICES ASSUME Init
             PROVE  Inv
  OBVIOUS
<1>1. NoBans \in BanTables /\ ReadBanlist = NoBans
  BY DEF Init, NoBans, BanTables, ReadBanlist
<1>2. TypeOK
  <2>1. now \in Times
    BY DEF Init
  <2>2. bansChanged \in BOOLEAN /\ up \in BOOLEAN
    BY DEF Init
  <2>3. NoBans \in Requests
    BY DEF NoBans, Requests
  <2> QED BY <1>1, <2>1, <2>2, <2>3 DEF Init, TypeOK
<1>3. FileCurrent
  BY <1>1 DEF Init, FileCurrent
<1>4. \A b : Covers(b, NoBans)
  BY DEF Covers, Wanted, NoBans
<1> QED BY <1>2, <1>3, <1>4 DEF Init, Inv

(* What is read is a table. *)
LEMMA ReadIsTable == TypeOK => ReadBanlist \in BanTables
BY DEF TypeOK, ReadBanlist, NoBans, BanTables

(* As time passes fewer bans are to be in force. *)
LEMMA WantedEarlier ==
    ASSUME TypeOK, now' \in Times, now' > now,
           NEW a \in [made : Times, seconds : Durations] \cup {NotBanned}, Wanted(a)'
    PROVE  Wanted(a)
<1>1. a # NotBanned
  BY DEF Wanted
<1>2. a \in [made : Times, seconds : Durations]
  BY <1>1
<1>3. a.made \in Nat /\ a.seconds \in Nat /\ now \in Int /\ now' \in Int
  BY <1>2, RequestFacts, TimesAssumption DEF TypeOK
<1> QED BY <1>1, <1>3 DEF Wanted

(* Every step keeps the invariant. *)
LEMMA NextInv == Inv /\ [Next]_vars => Inv'
<1> SUFFICES ASSUME Inv, [Next]_vars
             PROVE  Inv'
  OBVIOUS
<1>1. TypeOK /\ FileCurrent /\ Covers(ReadBanlist, filed) /\ (up => Covers(bans, asked))
  BY DEF Inv
<1>2. NoBans \in BanTables /\ ReadBanlist \in BanTables
  BY <1>1, ReadIsTable DEF NoBans, BanTables
<1>3. CASE Tick
  <2>1. /\ UNCHANGED <<up, bans, bansChanged, file, asked, filed>>
        /\ now' \in Times /\ now' > now
    BY <1>3 DEF Tick, history
  <2>2. TypeOK' /\ FileCurrent'
    BY <1>1, <2>1 DEF TypeOK, FileCurrent, ReadBanlist
  <2>3. ASSUME NEW i \in Ips
        PROVE  /\ Wanted(asked[i])' => Wanted(asked[i])
               /\ Wanted(filed[i])' => Wanted(filed[i])
    <3>1. /\ asked[i] \in [made : Times, seconds : Durations] \cup {NotBanned}
          /\ filed[i] \in [made : Times, seconds : Durations] \cup {NotBanned}
      BY <1>1 DEF TypeOK, Requests
    <3> QED BY <1>1, <2>1, <3>1, WantedEarlier DEF Wanted
  <2>4. up' => Covers(bans, asked)'
    BY <1>1, <2>1, <2>3 DEF Covers, Fits, Outlasts
  <2>5. Covers(ReadBanlist, filed)'
    BY <1>1, <2>1, <2>3 DEF Covers, ReadBanlist, Fits, Outlasts
  <2> QED BY <2>2, <2>4, <2>5 DEF Inv
<1>4. CASE IsBanned
  <2>1. UNCHANGED <<now, up, file, asked, filed>> /\ up
    BY <1>4 DEF IsBanned, history
  <2> DEFINE erased == {i \in Ips : Expired(i)}
  <2>2. /\ bans' = [i \in Ips |-> IF i \in erased THEN NotBanned ELSE bans[i]]
        /\ bansChanged' = (bansChanged \/ erased # {})
    BY <1>4 DEF IsBanned, Changed
  <2>3. TypeOK'
    BY <1>1, <2>1, <2>2 DEF TypeOK, BanTables
  <2>4. erased = {} => bans' = bans
    BY <1>1, <2>2 DEF TypeOK, BanTables
  <2>5. FileCurrent'
    BY <1>1, <2>1, <2>2, <2>4 DEF FileCurrent, ReadBanlist
  <2>6. Covers(bans, asked)'
    <3> SUFFICES ASSUME NEW i \in Ips, Wanted(asked[i]), Fits(asked[i])
                 PROVE  Outlasts(bans'[i], asked[i])
      BY <2>1 DEF Covers, Wanted, Fits, Outlasts
    <3>1. Outlasts(bans[i], asked[i])
      BY <1>1, <2>1 DEF Covers
    <3>2. asked[i] \in [made : Times, seconds : Durations]
      BY <1>1 DEF TypeOK, Requests, Wanted
    <3>3. asked[i].made \in Nat /\ asked[i].seconds \in Nat /\ now \in Int
      BY <1>1, <3>2, RequestFacts, TimesAssumption DEF TypeOK
    <3>4. bans[i] \in Int
      BY <1>1, <3>1 DEF TypeOK, BanTables, Outlasts
    <3>5. ~Expired(i)
      BY <3>1, <3>3, <3>4 DEF Expired, Outlasts, Wanted
    <3> QED BY <2>2, <3>1, <3>5
  <2>7. Covers(ReadBanlist, filed)'
    BY <1>1, <2>1 DEF Covers, ReadBanlist, Wanted, Fits, Outlasts
  <2> QED BY <2>3, <2>5, <2>6, <2>7 DEF Inv
<1>5. ASSUME NEW i \in Ips, NEW seconds \in Durations, Ban(i, seconds)
      PROVE  Inv'
  <2> DEFINE e == ExpiresOn(now, seconds)
             a == [made |-> now, seconds |-> seconds]
  <2>1. /\ UNCHANGED <<now, up, file, filed>> /\ up
        /\ bans' = [bans EXCEPT ![i] = e] /\ asked' = [asked EXCEPT ![i] = a]
        /\ bansChanged' = TRUE
    BY <1>5 DEF Ban
  <2>2. a \in [made : Times, seconds : Durations] /\ a.made = now /\ a.seconds = seconds
    BY <1>1 DEF TypeOK
  <2>3. now \in Nat \ {0} /\ now < Half /\ seconds \in Nat
    BY <2>2, RequestFacts
  <2>4. e \in Int
    BY <2>3, ExpiryFacts
  <2>5. Fits(a) => Outlasts(e, a)
    <3>1. CASE now + seconds * 10000 < Half /\ seconds # 0
      <4>1. e = now + seconds * 10000 /\ e # NotBanned
        BY <2>3, <3>1, ExpiryFacts
      <4> QED BY <2>2, <2>3, <3>1, <4>1 DEF Outlasts
    <3>2. CASE seconds = 0
      <4>1. e = 0 /\ e # NotBanned
        BY <2>3, <3>2, ExpiryFacts
      <4> QED BY <4>1 DEF Outlasts
    <3>3. CASE Half <= now + seconds * 10000 /\ now + seconds * 10000 < Word
      <4>1. e < 0 /\ e # NotBanned
        BY <2>3, <3>3, ExpiryFacts
      <4> QED BY <2>4, <4>1 DEF Outlasts
    <3>4. Fits(a) => now + seconds * 10000 < Word
      BY <2>2 DEF Fits
    <3>5. Half \in Nat
      BY HalfAssumption
    <3> HIDE DEF a, e
    <3> QED BY <2>3, <3>1, <3>2, <3>3, <3>4, <3>5
  <2> HIDE DEF e, a
  <2>6. TypeOK' /\ FileCurrent'
    BY <1>1, <2>1, <2>2, <2>4 DEF TypeOK, FileCurrent, BanTables, Requests
  <2>7. Covers(bans, asked)'
    <3> SUFFICES ASSUME NEW j \in Ips, Wanted(asked'[j]), Fits(asked'[j])
                 PROVE  Outlasts(bans'[j], asked'[j])
      BY <2>1 DEF Covers, Wanted, Fits, Outlasts
    <3>1. CASE j = i
      <4>1. bans'[j] = e /\ asked'[j] = a
        BY <1>1, <2>1, <3>1 DEF TypeOK, BanTables, Requests
      <4> QED BY <2>5, <4>1
    <3>2. CASE j # i
      <4>1. bans'[j] = bans[j] /\ asked'[j] = asked[j]
        BY <1>1, <2>1, <3>2 DEF TypeOK, BanTables, Requests
      <4> QED BY <1>1, <2>1, <4>1 DEF Covers
    <3> QED BY <3>1, <3>2
  <2>8. Covers(ReadBanlist, filed)'
    BY <1>1, <2>1 DEF Covers, ReadBanlist, Wanted, Fits, Outlasts
  <2> QED BY <2>6, <2>7, <2>8 DEF Inv
<1>6. ASSUME NEW i \in Ips, Unban(i)
      PROVE  Inv'
  <2>1. /\ UNCHANGED <<now, up, file, filed>> /\ up
        /\ bans' = [bans EXCEPT ![i] = NotBanned] /\ asked' = [asked EXCEPT ![i] = NotBanned]
        /\ bansChanged' = (bansChanged \/ {j \in {i} : bans[j] # NotBanned} # {})
    BY <1>6 DEF Unban, Changed
  <2>2. TypeOK'
    BY <1>1, <2>1 DEF TypeOK, BanTables, Requests
  <2>3. bans[i] = NotBanned => bans' = bans
    BY <1>1, <2>1 DEF TypeOK, BanTables
  <2>4. FileCurrent'
    BY <1>1, <2>1, <2>3 DEF FileCurrent, ReadBanlist
  <2>5. Covers(bans, asked)'
    BY <1>1, <2>1 DEF Covers, Wanted, Fits, Outlasts, TypeOK, BanTables, Requests
  <2>6. Covers(ReadBanlist, filed)'
    BY <1>1, <2>1 DEF Covers, ReadBanlist, Wanted, Fits, Outlasts
  <2> QED BY <2>2, <2>4, <2>5, <2>6 DEF Inv
<1>7. CASE ResetBanlist
  <2>1. /\ UNCHANGED <<now, up, file, filed>> /\ up
        /\ bans' = NoBans /\ asked' = NoBans /\ bansChanged' = TRUE
    BY <1>7 DEF ResetBanlist
  <2>2. TypeOK' /\ FileCurrent'
    BY <1>1, <1>2, <2>1 DEF TypeOK, FileCurrent, NoBans, Requests
  <2>3. Covers(bans, asked)'
    BY <2>1 DEF Covers, Wanted, NoBans
  <2>4. Covers(ReadBanlist, filed)'
    BY <1>1, <2>1 DEF Covers, ReadBanlist, Wanted, Fits, Outlasts
  <2> QED BY <2>2, <2>3, <2>4 DEF Inv
<1>8. CASE Stop
  <2>1. /\ UNCHANGED <<now, bans, asked>> /\ up /\ up' = FALSE /\ filed' = asked
        /\ file' = IF bansChanged THEN bans ELSE file
        /\ bansChanged' = FALSE
    BY <1>8 DEF Stop
  <2>2. TypeOK' /\ FileCurrent'
    <3>1. file' \in BanTables \cup {NoFile}
      BY <1>1, <2>1 DEF TypeOK
    <3>2. up' \in BOOLEAN /\ bansChanged' \in BOOLEAN
      BY <2>1
    <3> QED BY <1>1, <2>1, <3>1, <3>2 DEF TypeOK, FileCurrent
  <2>3. bans # NoFile
    BY <1>1, MarkersAssumption DEF TypeOK, BanTables
  <2>4. ReadBanlist' = bans
    BY <1>1, <2>1, <2>3 DEF ReadBanlist, FileCurrent
  <2>5. Covers(ReadBanlist, filed)'
    BY <1>1, <2>1, <2>4 DEF Covers, Wanted, Fits, Outlasts
  <2> QED BY <2>1, <2>2, <2>5 DEF Inv
<1>9. CASE Crash
  <2>1. UNCHANGED <<now, bans, bansChanged, file, asked, filed>> /\ ~up' /\ up' \in BOOLEAN
    BY <1>9 DEF Crash, history
  <2> QED BY <1>1, <2>1 DEF Inv, TypeOK, FileCurrent, Covers, ReadBanlist, Wanted, Fits, Outlasts
<1>10. CASE Start
  <2>1. /\ UNCHANGED <<now, file, filed>> /\ up' /\ up' \in BOOLEAN
        /\ bans' = ReadBanlist /\ asked' = filed /\ bansChanged' = FALSE
    BY <1>10 DEF Start
  <2>2. ReadBanlist' = ReadBanlist
    BY <2>1 DEF ReadBanlist
  <2>3. TypeOK' /\ FileCurrent'
    BY <1>1, <1>2, <2>1, <2>2 DEF TypeOK, FileCurrent
  <2>4. Covers(bans, asked)' /\ Covers(ReadBanlist, filed)'
    BY <1>1, <2>1, <2>2 DEF Covers, Wanted, Fits, Outlasts
  <2> QED BY <2>3, <2>4 DEF Inv
<1>11. CASE UNCHANGED vars
  BY <1>1, <1>11 DEF vars, Inv, TypeOK, FileCurrent, Covers, ReadBanlist, Wanted, Fits, Outlasts
<1> QED BY <1>3, <1>4, <1>5, <1>6, <1>7, <1>8, <1>9, <1>10, <1>11 DEF Next

(* The invariant holds always. *)
LEMMA AlwaysInv == Spec => []Inv
BY InitInv, NextInv, PTL DEF Spec

(* Every variable keeps its type. *)
THEOREM TypeCorrect == Spec => []TypeOK
BY AlwaysInv, PTL DEF Inv

(* BansManager::writeBanlist, which writes only if bansChanged says so,    *)
(* loses no change.                                                        *)
THEOREM NoChangeIsForgotten == Spec => []FileCurrent
BY AlwaysInv, PTL DEF Inv

(* BansManager::isBanned refuses an address for as long as was asked of    *)
(* ban, also after the server stopped and started again, if the expiry     *)
(* that ban makes of it fits in 64 bits.                                   *)
THEOREM BansLast == Spec => []BannedWhileAsked
<1>1. Inv => BannedWhileAsked
  BY DEF Inv, Covers, BannedWhileAsked, Outlasts
<1> QED BY <1>1, AlwaysInv, PTL
-----------------------------------------------------------------------------
(* A table of bans keeps none that t does not say was asked for, each with *)
(* the expiry that ban gave it.                                            *)
AsMade(b, t) ==
    \A i \in Ips : b[i] # NotBanned =>
        t[i] # NotBanned /\ b[i] = ExpiresOn(t[i].made, t[i].seconds)

(* An address that is banned was asked to be: for ever, or for a tenth of  *)
(* the time to the expiry of the ban. A ban for so long that its expiry    *)
(* would fit a u64, and does not fit an i64, is endless as well.           *)
NoBanOutlasts ==
    \A i \in Ips : up /\ bans[i] # NotBanned =>
        /\ asked[i] # NotBanned
        /\ LET made  == asked[i].made
               asks  == asked[i].seconds * 1000
               until == made + 10 * asks
           IN  /\ asks = 0 => bans[i] = 0
               /\ asks # 0 /\ until < Half => bans[i] > 0 /\ bans[i] - made = 10 * asks
               /\ Half <= until /\ until < Word => bans[i] < 0

LengthInv == Inv /\ (up => AsMade(bans, asked)) /\ AsMade(ReadBanlist, filed)

(* Every step keeps the expiry of the bans. *)
LEMMA NextLength == LengthInv /\ [Next]_vars => LengthInv'
<1> SUFFICES ASSUME LengthInv, [Next]_vars
             PROVE  LengthInv'
  OBVIOUS
<1>1. /\ Inv /\ Inv' /\ TypeOK /\ FileCurrent
      /\ up => AsMade(bans, asked)
      /\ AsMade(ReadBanlist, filed)
  BY NextInv DEF LengthInv, Inv
<1>2. CASE Tick
  BY <1>1, <1>2 DEF Tick, history, LengthInv, AsMade, ReadBanlist
<1>3. CASE IsBanned
  <2>1. /\ UNCHANGED <<now, up, file, asked, filed>> /\ up
        /\ \A i \in Ips : bans'[i] \in {NotBanned, bans[i]}
    BY <1>3 DEF IsBanned, history
  <2> QED BY <1>1, <2>1 DEF LengthInv, AsMade, ReadBanlist
<1>4. ASSUME NEW i \in Ips, NEW seconds \in Durations, Ban(i, seconds)
      PROVE  LengthInv'
  <2> DEFINE a == [made |-> now, seconds |-> seconds]
  <2>1. /\ UNCHANGED <<now, up, file, filed>> /\ up
        /\ bans' = [bans EXCEPT ![i] = ExpiresOn(now, seconds)]
        /\ asked' = [asked EXCEPT ![i] = a]
    BY <1>4 DEF Ban
  <2>2. a # NotBanned /\ a.made = now /\ a.seconds = seconds
    BY <1>1, RequestFacts DEF TypeOK
  <2> HIDE DEF a
  <2>3. AsMade(bans, asked)'
    BY <1>1, <2>1, <2>2 DEF AsMade, TypeOK, BanTables, Requests
  <2>4. AsMade(ReadBanlist, filed)'
    BY <1>1, <2>1 DEF AsMade, ReadBanlist
  <2> QED BY <1>1, <2>3, <2>4 DEF LengthInv
<1>5. ASSUME NEW i \in Ips, Unban(i)
      PROVE  LengthInv'
  <2>1. /\ UNCHANGED <<now, up, file, filed>> /\ up
        /\ bans' = [bans EXCEPT ![i] = NotBanned]
        /\ asked' = [asked EXCEPT ![i] = NotBanned]
    BY <1>5 DEF Unban
  <2> QED BY <1>1, <2>1 DEF LengthInv, AsMade, ReadBanlist, TypeOK, BanTables, Requests
<1>6. CASE ResetBanlist
  <2>1. UNCHANGED <<now, up, file, filed>> /\ bans' = NoBans
    BY <1>6 DEF ResetBanlist
  <2> QED BY <1>1, <2>1 DEF LengthInv, AsMade, ReadBanlist, NoBans
<1>7. CASE Stop
  <2>1. /\ UNCHANGED <<now, bans, asked>> /\ up /\ ~up' /\ filed' = asked
        /\ file' = IF bansChanged THEN bans ELSE file
    BY <1>7 DEF Stop
  <2>2. bans # NoFile
    BY <1>1, MarkersAssumption DEF TypeOK, BanTables
  <2>3. ReadBanlist' = bans
    BY <1>1, <2>1, <2>2 DEF ReadBanlist, FileCurrent
  <2> QED BY <1>1, <2>1, <2>3 DEF LengthInv, AsMade
<1>8. CASE Crash
  BY <1>1, <1>8 DEF Crash, history, LengthInv, AsMade, ReadBanlist
<1>9. CASE Start
  BY <1>1, <1>9 DEF Start, LengthInv, AsMade, ReadBanlist
<1>10. CASE UNCHANGED vars
  BY <1>1, <1>10 DEF vars, LengthInv, AsMade, ReadBanlist
<1> QED BY <1>2, <1>3, <1>4, <1>5, <1>6, <1>7, <1>8, <1>9, <1>10 DEF Next

(* What BansManager::ban gets wrong with the unit of its parameter is the  *)
(* length: isBanned refuses no address whose ban was not asked for, over   *)
(* any stops and starts; a ban whose expiry fits an i64 lasts ten times as *)
(* long as was asked, never more, and is endless only if asked to be; one  *)
(* whose expiry only a u64 could hold is endless too.                      *)
THEOREM BansAreBounded == Spec => []NoBanOutlasts
<1>1. Init => LengthInv
  BY InitInv DEF Init, LengthInv, AsMade, NoBans, ReadBanlist
<1>2. LengthInv => NoBanOutlasts
  <2> SUFFICES ASSUME LengthInv, NEW i \in Ips, up, bans[i] # NotBanned
               PROVE  /\ asked[i] # NotBanned
                      /\ LET made  == asked[i].made
                             asks  == asked[i].seconds * 1000
                             until == made + 10 * asks
                         IN  /\ asks = 0 => bans[i] = 0
                             /\ asks # 0 /\ until < Half =>
                                    bans[i] > 0 /\ bans[i] - made = 10 * asks
                             /\ Half <= until /\ until < Word => bans[i] < 0
    BY DEF NoBanOutlasts
  <2> DEFINE made    == asked[i].made
             seconds == asked[i].seconds
  <2>1. asked[i] # NotBanned /\ bans[i] = ExpiresOn(made, seconds)
    BY DEF LengthInv, AsMade
  <2>2. asked[i] \in [made : Times, seconds : Durations]
    BY <2>1 DEF LengthInv, Inv, TypeOK, Requests
  <2>3. made \in Nat \ {0} /\ made < Half /\ seconds \in Nat
    BY <2>2, RequestFacts
  <2> HIDE DEF made, seconds
  <2>4. /\ bans[i] \in Int
        /\ seconds = 0 => bans[i] = 0
        /\ seconds # 0 /\ made + seconds * 10000 < Half => bans[i] = made + seconds * 10000
        /\ Half <= made + seconds * 10000 /\ made + seconds * 10000 < Word => bans[i] < 0
    BY <2>1, <2>3, ExpiryFacts
  <2>5. /\ seconds * 1000 = 0 <=> seconds = 0
        /\ made + 10 * (seconds * 1000) = made + seconds * 10000
    BY <2>3
  <2>6. seconds # 0 /\ bans[i] = made + seconds * 10000 =>
            bans[i] > 0 /\ bans[i] - made = 10 * (seconds * 1000)
    BY <2>3
  <2> QED BY <2>1, <2>4, <2>5, <2>6 DEF made, seconds
<1> QED BY <1>1, <1>2, NextLength, PTL DEF Spec
-----------------------------------------------------------------------------
(* The most that a u64 can ask for is no ban at all: seconds * 10000 wraps *)
(* in BansManager::ban, and the expiry is ten seconds before the ban is    *)
(* made, so that the next question erases it.                              *)
THEOREM LongestBanEndsAtOnce ==
    ASSUME NEW made \in Times, made > 10000
    PROVE  /\ ExpiresOn(made, Word - 1) = made - 10000
           /\ 0 < made - 10000 /\ made - 10000 < made
<1>1. made \in Nat /\ made < Half /\ Half \in Nat \ {0}
  BY TimesAssumption, HalfAssumption
<1>2. Word \in Nat /\ Word > 1 /\ Half < Word
  BY <1>1 DEF Word
<1>3. made + (Word - 1) * 10000 = (made - 10000) + 10000 * Word
  BY <1>1, <1>2
<1>4. made - 10000 \in Nat /\ made - 10000 < Half /\ made - 10000 < Word
  BY <1>1, <1>2
<1>5. ASSUME NEW a \in Nat, NEW w \in Nat \ {0}, a < w
      PROVE  (a + 10000 * w) % w = a
  BY <1>5
<1>6. (made + (Word - 1) * 10000) % Word = made - 10000
  BY <1>2, <1>3, <1>4, <1>5
<1> QED BY <1>1, <1>2, <1>4, <1>6 DEF ExpiresOn, Signed
=============================================================================

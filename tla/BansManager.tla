---------------------------- MODULE BansManager ----------------------------
(***************************************************************************)
(* BansManager: the bans of addresses, kept in memory, read from bans.json *)
(* when the server starts and written to it, if they changed, when the     *)
(* server stops. A ban ends some time after it was made, or never.         *)
(***************************************************************************)
EXTENDS Integers

CONSTANTS
    Ips,
    Durations,  \* the seconds bans are asked for, a u64; 0 is for ever
    Half,       \* 2^63: an i64 is less, and a u64 less than twice as much
    Times,      \* bound: the milliseconds at which the clock is looked at
    NotBanned,
    NoFile      \* there is no bans.json

Word == 2 * Half

ASSUME HalfAssumption == Half \in Nat \ {0}

ASSUME DurationsAssumption == Durations \subseteq 0 .. Word - 1

ASSUME TimesAssumption == Times \subseteq 1 .. Half - 1

ASSUME MarkersAssumption ==
    /\ NotBanned \notin Int \cup [made : Times, seconds : Durations]
    /\ NoFile \notin [Ips -> Int \cup {NotBanned}]

VARIABLES
    now,          \* jsDateNow, in milliseconds
    up,           \* whether the server runs
    bans,         \* bans[i]: expiresOn of the ban of i
    bansChanged,
    file,         \* bans.json
    asked,        \* history: asked[i]: when and for how long i was last banned
    filed         \* history: asked, as of the last time the server stopped

history == <<asked, filed>>
vars == <<now, up, bans, bansChanged, file, asked, filed>>

BanTables == [Ips -> Int \cup {NotBanned}]

Requests == [Ips -> [made : Times, seconds : Durations] \cup {NotBanned}]

NoBans == [i \in Ips |-> NotBanned]

TypeOK ==
    /\ now \in Times
    /\ up \in BOOLEAN
    /\ bans \in BanTables
    /\ bansChanged \in BOOLEAN
    /\ file \in BanTables \cup {NoFile}
    /\ asked \in Requests
    /\ filed \in Requests

-----------------------------------------------------------------------------
(* What an i64 makes of the bits of x, a u64. *)
Signed(x) == IF x < Half THEN x ELSE x - Word

(* The code multiplies the seconds by 10000 to get milliseconds, in a u64  *)
(* that wraps, and keeps the sum in an i64.                                *)
ExpiresOn(made, seconds) ==
    IF seconds > 0 THEN Signed((made + seconds * 10000) % Word) ELSE 0

(* What clearExpiredBans erases: a ban without end has an expiry of 0, or  *)
(* a negative one. The variant takes these for times.                      *)
ExpiredOrEndless(i) == bans[i] # NotBanned /\ now >= bans[i]

Expired(i) == bans[i] # NotBanned /\ now >= bans[i] /\ bans[i] > 0

(* bansChanged once some bans are erased. The variant forgets to set it. *)
ChangedByNone(erased) == bansChanged

Changed(erased) == bansChanged \/ erased # {}

(* Read bans.json, if there is one. The variant does not look whether. *)
ReadUnchecked == file

ReadBanlist == IF file = NoFile THEN NoBans ELSE file

-----------------------------------------------------------------------------
Tick ==
    /\ \E t \in Times : t > now /\ now' = t
    /\ UNCHANGED <<up, bans, bansChanged, file, history>>

(* isBanned: BanChecker asks it of every connection. *)
IsBanned ==
    LET erased == {i \in Ips : Expired(i)}
    IN  /\ up
        /\ bans' = [i \in Ips |-> IF i \in erased THEN NotBanned ELSE bans[i]]
        /\ bansChanged' = Changed(erased)
        /\ UNCHANGED <<now, up, file, history>>

Ban(i, seconds) ==
    /\ up
    /\ bans' = [bans EXCEPT ![i] = ExpiresOn(now, seconds)]
    /\ bansChanged' = TRUE
    /\ asked' = [asked EXCEPT ![i] = [made |-> now, seconds |-> seconds]]
    /\ UNCHANGED <<now, up, file, filed>>

Unban(i) ==
    /\ up
    /\ bans' = [bans EXCEPT ![i] = NotBanned]
    /\ bansChanged' = Changed({j \in {i} : bans[j] # NotBanned})
    /\ asked' = [asked EXCEPT ![i] = NotBanned]
    /\ UNCHANGED <<now, up, file, filed>>

ResetBanlist ==
    /\ up
    /\ bans' = NoBans
    /\ bansChanged' = TRUE
    /\ asked' = NoBans
    /\ UNCHANGED <<now, up, file, filed>>

(* The server stops: the destructor writes what changed. *)
Stop ==
    /\ up
    /\ up' = FALSE
    /\ file' = IF bansChanged THEN bans ELSE file
    /\ bansChanged' = FALSE
    /\ filed' = asked
    /\ UNCHANGED <<now, bans, asked>>

(* The process ends without destructors, or with a bans.json that does not *)
(* open for them, which they do not look at: what changed is lost.         *)
Crash ==
    /\ up
    /\ up' = FALSE
    /\ UNCHANGED <<now, bans, bansChanged, file, history>>

Start ==
    /\ ~up
    /\ up' = TRUE
    /\ bans' = ReadBanlist
    /\ bansChanged' = FALSE
    /\ asked' = filed
    /\ UNCHANGED <<now, file, filed>>

Init ==
    /\ now \in Times
    /\ up = TRUE
    /\ bans = NoBans
    /\ bansChanged = FALSE
    /\ file = NoFile
    /\ asked = NoBans
    /\ filed = NoBans

Next ==
    \/ Tick \/ IsBanned \/ ResetBanlist \/ Stop \/ Crash \/ Start
    \/ \E i \in Ips : Unban(i) \/ \E seconds \in Durations : Ban(i, seconds)

Spec == Init /\ [][Next]_vars

-----------------------------------------------------------------------------
(* Whether the ban that was asked for as in a is to be in force. *)
Wanted(a) == a # NotBanned /\ (a.seconds = 0 \/ now < a.made + a.seconds * 1000)

(* Whether the sum that ban makes of it fits in a u64. *)
Fits(a) == a.made + a.seconds * 10000 < Word

(* Whether isBanned finds address i banned, now. *)
Refused(i) == bans[i] # NotBanned /\ ~Expired(i)

(* While the server runs, bans.json is up to date unless bansChanged says  *)
(* that it is not: a stop loses no change.                                 *)
FileCurrent == up /\ ~bansChanged => bans = ReadBanlist

(* An address stays banned for as long as was asked, at the least, over    *)
(* any number of stops and starts, unless the expiry of the ban overflows  *)
(* a u64.  A crash undoes what was asked since the server last stopped,    *)
(* bans and unbans, and nothing that was asked before.                     *)
BannedWhileAsked ==
    \A i \in Ips : up /\ Wanted(asked[i]) /\ Fits(asked[i]) => bans[i] # NotBanned

(* An address that isBanned finds banned was asked to be: the parameter of *)
(* BansManager::ban is called "seconds" (BansManager.hpp:37).              *)
BannedOnlyWhileAsked == \A i \in Ips : up /\ Refused(i) => Wanted(asked[i])
=============================================================================

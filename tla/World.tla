------------------------------- MODULE World -------------------------------
(***************************************************************************)
(* One world: its players, the chunks it has in memory, their files, and   *)
(* the requests for the image of a chunk, some of which wait for a worker  *)
(* thread that encodes it.                                                 *)
(*                                                                         *)
(* A chunk is painted in memory (Chunk::data), encoded into a cache        *)
(* (pngCache) and saved to a file; two flags say which of the copies are   *)
(* behind.  Chunks leave memory when they are old, when there are too many *)
(* of them or when the world is left by its last player, unless they are   *)
(* locked (canUnload), and are read back from their file.                  *)
(*                                                                         *)
(* Main-thread callbacks are atomic.  The worker thread reads the pixels   *)
(* of a chunk one at a time, between the steps of the main thread.         *)
(***************************************************************************)
EXTENDS Integers, FiniteSets

CONSTANTS
    Players,      \* clients that may be in the world
    Requests,     \* HTTP requests for the image of a chunk, each used once
    Chunks,       \* positions of chunks within the border
    Pixels,       \* pixels of a chunk, each in the area of the protection
    Colors,       \* colors of pixels
    Bg,           \* the background color of the world
    NoFile,       \* there is no such file
    NoImage,      \* the answer "204 No Content", or no answer yet
    MaxChunks,    \* the chunks a world keeps before it unloads (64)
    Stored,       \* what the files may be when the server starts
    OpenFailures  \* where opening a chunk file may fail: "view", "load"

ASSUME ColorsAssumption == Bg \in Colors

ASSUME PositionsAssumption == IsFiniteSet(Chunks) /\ IsFiniteSet(Pixels)

ASSUME MaxChunksAssumption == MaxChunks \in Nat \ {0}

ASSUME OpenFailuresAssumption == OpenFailures \subseteq {"view", "load"}

(* What an image holds: the pixels, and the protection as the "woPp" chunk *)
(* of the file keeps it.  Absent and zero both mean unprotected.           *)
Contents == [pixel : [Pixels -> Colors], prot : {"absent", "zero", "one"}]

Blank == [pixel |-> [p \in Pixels |-> Bg], prot |-> "absent"]

(* The image a file shows: the background, if there is no file. *)
Image(f) == IF f = NoFile THEN Blank ELSE f

Empty(d) == d.pixel = Blank.pixel /\ d.prot # "one"

(* The two spellings of no protection are the same to a player. *)
Normal(d) == [d EXCEPT !.prot = IF @ = "zero" THEN "absent" ELSE @]

(* What a player sees of contents d. *)
Look(d) == [image |-> d.pixel, protected |-> d.prot = "one"]

Looks == [image : [Pixels -> Colors], protected : BOOLEAN]

ASSUME MarkersAssumption == NoFile \notin Contents \cup Looks /\ NoImage \notin Contents

ASSUME StoredAssumption == Stored \subseteq Contents \cup {NoFile}

VARIABLES
    loaded,   \* the world is in WorldManager::worlds
    players,  \* World::players
    chunks,   \* the keys of World::chunks
    mem,      \* mem[c]: the Chunk at c, if c is in chunks
    png,      \* png[c]: the file of chunk c
    pxr,      \* pxr[c]: the old cluster file that chunk c is yet to be converted from
    task,     \* task[c]: the encoding of chunk c by the worker
    ongoing,  \* the keys of ongoingChunkRequests
    request,  \* request[r]: the request r
    painted   \* history: what was painted and protected at c since ever

memory == <<chunks, mem>>
files == <<png, pxr>>
vars == <<loaded, players, chunks, mem, png, pxr, task, ongoing, request, painted>>

ChunkStates ==
    [data : Contents, cache : Contents, canUnload : BOOLEAN,
     pngCacheOutdated : BOOLEAN, pngFileOutdated : BOOLEAN]

Tasks ==
    [stage : {"none", "encoding", "encoded"}, left : SUBSET Pixels, out : Contents]

RequestStates ==
    [state : {"idle", "waiting", "answered", "cancelled"},
     chunk : Chunks, image : Contents \cup {NoImage}]

TypeOK ==
    /\ loaded \in BOOLEAN
    /\ players \in SUBSET Players
    /\ chunks \in SUBSET Chunks
    /\ mem \in [Chunks -> ChunkStates]
    /\ png \in [Chunks -> Contents \cup {NoFile}]
    /\ pxr \in [Chunks -> Contents \cup {NoFile}]
    /\ task \in [Chunks -> Tasks]
    /\ ongoing \in SUBSET Chunks
    /\ request \in [Requests -> RequestStates]
    /\ painted \in [Chunks -> Contents]

-----------------------------------------------------------------------------
(* Chunk *)

NoChunk ==
    [data |-> Blank, cache |-> Blank, canUnload |-> FALSE,
     pngCacheOutdated |-> FALSE, pngFileOutdated |-> FALSE]

(* The constructor, when the file holds f.  A file that does not open is   *)
(* the same as no file: a blank image, whose cache has never been made.    *)
Constructed(f) ==
    IF f = NoFile
    THEN [data |-> Blank, cache |-> Blank, canUnload |-> TRUE,
          pngCacheOutdated |-> TRUE, pngFileOutdated |-> FALSE]
    ELSE [data |-> f, cache |-> f, canUnload |-> TRUE,
          pngCacheOutdated |-> FALSE, pngFileOutdated |-> FALSE]

(* setPixel and setProtectionGid. The first variant forgets that the file  *)
(* is behind, the second that the cache is.                                *)
WithPixelUnsaved(k, p, v) ==
    IF k.data.pixel[p] = v THEN k
    ELSE [k EXCEPT !.data.pixel[p] = v, !.pngCacheOutdated = TRUE]

WithProtectionCached(k, on) ==
    [k EXCEPT !.data.prot = IF on THEN "one" ELSE "zero", !.pngFileOutdated = TRUE]

Edited(k, d) ==
    [k EXCEPT !.data = d, !.pngFileOutdated = TRUE, !.pngCacheOutdated = TRUE]

WithPixel(k, p, v) ==
    IF k.data.pixel[p] = v THEN k ELSE Edited(k, [k.data EXCEPT !.pixel[p] = v])

WithProtection(k, on) ==
    Edited(k, [k.data EXCEPT !.prot = IF on THEN "one" ELSE "zero"])

(* The file after save: encoded afresh, or a copy of the cache. The        *)
(* variant takes the flag the wrong way around.                            *)
SavedFileSwapped(k, f) ==
    IF ~k.pngFileOutdated THEN f
    ELSE IF k.pngCacheOutdated THEN k.cache ELSE k.data

SavedFile(k, f) ==
    IF ~k.pngFileOutdated THEN f
    ELSE IF k.pngCacheOutdated THEN k.data ELSE k.cache

(* isChunkEmpty normalizes a protection that is all zero. *)
Tidied(k) ==
    IF k.data.prot = "zero" THEN Edited(k, [k.data EXCEPT !.prot = "absent"]) ELSE k

(* The file after the destructor: an empty chunk has none. *)
FileLeft(k, f) ==
    IF Empty(k.data) THEN NoFile ELSE SavedFile(Tidied(k), f)

-----------------------------------------------------------------------------
(* The chunks of the world *)

(* shouldUnload(true) *)
UnlockedIn(m) == {d \in chunks : m[d].canUnload}

Unlocked == UnlockedIn(mem)

(* Forgets the chunks in S of a memory m, running their destructors. *)
Unload(S, m) ==
    /\ chunks' = chunks \ S
    /\ mem' = [d \in Chunks |-> IF d \in S THEN NoChunk ELSE m[d]]
    /\ png' = [d \in Chunks |-> IF d \in S THEN FileLeft(m[d], png[d]) ELSE png[d]]
    /\ UNCHANGED pxr

(* maybeConvertChunk: the cluster file is removed and its image written. *)
Converted(c) == IF pxr[c] # NoFile THEN pxr[c] ELSE png[c]

(* getChunk, up to the search: the chunk in memory or a new one, whose     *)
(* file does not open if fails.                                            *)
Found(c, fails) ==
    IF c \in chunks THEN mem[c]
    ELSE Constructed(IF fails THEN NoFile ELSE Converted(c))

(* What isChunkOnDisk answers; the variant takes a file for granted. *)
OnDiskAssumed(c) == IF pxr[c] # NoFile THEN "pxr" ELSE "png"

OnDisk(c) ==
    IF pxr[c] # NoFile THEN "pxr" ELSE IF png[c] # NoFile THEN "png" ELSE "none"

(* The chunks getChunk unloads: with too many in memory, every other one   *)
(* that is not locked. The variant unloads the locked ones as well.        *)
CrowdedLocked(c) ==
    IF c \notin chunks /\ Cardinality(chunks) + 1 > MaxChunks THEN chunks ELSE {}

Crowded(c) ==
    IF c \notin chunks /\ Cardinality(chunks) + 1 > MaxChunks THEN Unlocked ELSE {}

(* getChunk, with what the caller makes of the chunk it gets. *)
Keep(c, k) ==
    LET out == Crowded(c)
    IN  /\ chunks' = (chunks \ out) \cup {c}
        /\ mem' = [d \in Chunks |-> IF d = c THEN k
                                    ELSE IF d \in out THEN NoChunk ELSE mem[d]]
        /\ png' = [d \in Chunks |->
                      IF d = c THEN (IF c \in chunks THEN png[c] ELSE Converted(c))
                      ELSE IF d \in out THEN FileLeft(mem[d], png[d]) ELSE png[d]]
        /\ pxr' = IF c \in chunks THEN pxr ELSE [pxr EXCEPT ![c] = NoFile]

MayFail(where) == IF where \in OpenFailures THEN BOOLEAN ELSE {FALSE}

-----------------------------------------------------------------------------
(* Players *)

(* A client is admitted: getOrLoadWorld, and playerJoined. *)
PlayerJoined(p) ==
    /\ p \notin players
    /\ loaded' = TRUE
    /\ players' = players \cup {p}
    /\ UNCHANGED <<memory, files, task, ongoing, request, painted>>

(* tryUnloadWorld, in a world whose players are P and whose memory is m *)
(* from now on. The variant does not wait for the locked chunks.        *)
TryUnloadWorldAnyway(P, m) ==
    IF P = {}
    THEN Unload(UnlockedIn(m), m) /\ loaded' = FALSE
    ELSE mem' = m /\ UNCHANGED <<chunks, files, loaded>>

TryUnloadWorld(P, m) ==
    IF P = {}
    THEN Unload(UnlockedIn(m), m) /\ loaded' = (chunks \ UnlockedIn(m) # {})
    ELSE mem' = m /\ UNCHANGED <<chunks, files, loaded>>

PlayerLeft(p) ==
    /\ p \in players
    /\ players' = players \ {p}
    /\ TryUnloadWorld(players \ {p}, mem)
    /\ UNCHANGED <<task, ongoing, request, painted>>

(* paint: the chunk is loaded even if it turns out to be protected. *)
Paint(p, c, px, v, fails) ==
    LET k == Found(c, fails)
        allowed == k.data.prot # "one"
    IN  /\ p \in players
        /\ Keep(c, IF allowed THEN WithPixel(k, px, v) ELSE k)
        /\ painted' = IF allowed THEN [painted EXCEPT ![c].pixel[px] = v] ELSE painted
        /\ UNCHANGED <<loaded, players, task, ongoing, request>>

(* setAreaProtection *)
SetAreaProtection(c, on, fails) ==
    /\ loaded
    /\ Keep(c, WithProtection(Found(c, fails), on))
    /\ painted' = [painted EXCEPT ![c].prot = IF on THEN "one" ELSE "absent"]
    /\ UNCHANGED <<loaded, players, task, ongoing, request>>

-----------------------------------------------------------------------------
(* Images of chunks *)

NoTask == [stage |-> "none", left |-> {}, out |-> Blank]

Answer(r, i) == request' = [request EXCEPT ![r].state = "answered", ![r].image = i]

(* sendChunk without an answer from the files: a cluster is to be          *)
(* converted, or the file did not open.                                    *)
SendFromMemory(r, c, fails) ==
    LET k == Found(c, fails)
    IN  \/ /\ ~k.pngCacheOutdated
           /\ Keep(c, k)
           /\ Answer(r, k.cache)
           /\ UNCHANGED <<task, ongoing>>
        \/ /\ k.pngCacheOutdated
           /\ request' = [request EXCEPT ![r].state = "waiting"]
           /\ IF c \in ongoing
              THEN Keep(c, k) /\ UNCHANGED <<task, ongoing>>
              ELSE /\ Keep(c, [k EXCEPT !.canUnload = FALSE])
                   /\ ongoing' = ongoing \cup {c}
                   /\ task' = [task EXCEPT ![c] =
                          [stage |-> "encoding", left |-> Pixels, out |-> Blank]]

(* sendChunk *)
SendChunk(r, viewFails, loadFails) ==
    LET c == request[r].chunk
    IN  /\ loaded
        /\ request[r].state = "idle"
        /\ \/ /\ OnDisk(c) = "none"
              /\ Answer(r, NoImage)
              /\ UNCHANGED <<memory, files, task, ongoing>>
           \/ /\ OnDisk(c) = "png" /\ ~viewFails
              /\ Answer(r, png[c])
              /\ UNCHANGED <<memory, files, task, ongoing>>
           \/ /\ OnDisk(c) = "pxr" \/ (OnDisk(c) = "png" /\ viewFails)
              /\ SendFromMemory(r, c, loadFails)
        /\ UNCHANGED <<loaded, players, painted>>

(* The peer of a request that waits goes away. The variant is the one the  *)
(* code warns of, which forgets the task of the request.                   *)
CancelRequestErasing(r) ==
    /\ request[r].state = "waiting"
    /\ request' = [request EXCEPT ![r].state = "cancelled"]
    /\ ongoing' = ongoing \ {request[r].chunk}
    /\ UNCHANGED <<loaded, players, memory, files, task, painted>>

CancelRequest(r) ==
    /\ request[r].state = "waiting"
    /\ request' = [request EXCEPT ![r].state = "cancelled"]
    /\ UNCHANGED <<loaded, players, memory, files, task, ongoing, painted>>

(* The worker thread in updatePngCache: it reads the next pixel, and at    *)
(* the end the protection, and has the cache written.                      *)
EncodePixel(c, p) ==
    /\ task[c].stage = "encoding"
    /\ p \in task[c].left
    /\ task' = [task EXCEPT ![c].left = @ \ {p},
                            ![c].out.pixel[p] = mem[c].data.pixel[p]]
    /\ UNCHANGED <<loaded, players, memory, files, ongoing, request, painted>>

EncodeEnd(c) ==
    /\ task[c].stage = "encoding"
    /\ task[c].left = {}
    /\ mem' = [mem EXCEPT ![c].cache =
                  [task[c].out EXCEPT !.prot = mem[c].data.prot]]
    /\ task' = [task EXCEPT ![c].stage = "encoded"]
    /\ UNCHANGED <<loaded, players, chunks, files, ongoing, request, painted>>

(* The callback of sendChunk in the main thread, with its call of          *)
(* tryUnloadWorld: preventUnloading(false) and unsetCacheOutdatedFlag.     *)
(* The variant answers only one of the requests on the list.               *)
WaitersFirst(c) ==
    LET all == {r \in Requests : request[r].state = "waiting" /\ request[r].chunk = c}
    IN  IF all = {} THEN {} ELSE {CHOOSE r \in all : TRUE}

Waiters(c) == {r \in Requests : request[r].state = "waiting" /\ request[r].chunk = c}

Unpinned(k) == [k EXCEPT !.canUnload = TRUE, !.pngCacheOutdated = FALSE]

SendEncoded(c) ==
    /\ task[c].stage = "encoded"
    /\ task' = [task EXCEPT ![c] = NoTask]
    /\ ongoing' = ongoing \ {c}
    /\ request' = [r \in Requests |->
           IF r \in Waiters(c)
           THEN [request[r] EXCEPT !.state = "answered", !.image = mem[c].cache]
           ELSE request[r]]
    /\ TryUnloadWorld(players, [mem EXCEPT ![c] = Unpinned(mem[c])])
    /\ UNCHANGED <<players, painted>>

-----------------------------------------------------------------------------
(* The timers of the server *)

(* unloadOldChunks, for the chunks in S that are old, or for every chunk. *)
UnloadOldChunks(S) ==
    /\ loaded
    /\ S # {}
    /\ Unload(S, mem)
    /\ UNCHANGED <<loaded, players, task, ongoing, request, painted>>

Saved(k) == [k EXCEPT !.pngFileOutdated = FALSE]

(* WorldManager::saveAll *)
SaveAll ==
    /\ loaded
    /\ png' = [d \in Chunks |->
                  IF d \in chunks THEN SavedFile(mem[d], png[d]) ELSE png[d]]
    /\ mem' = [d \in Chunks |-> IF d \in chunks THEN Saved(mem[d]) ELSE mem[d]]
    /\ UNCHANGED <<loaded, players, chunks, pxr, task, ongoing, request, painted>>

-----------------------------------------------------------------------------
(* What chunk c looks like to a player: memory before the cluster file     *)
(* before the image file before the background.                            *)
Shown(c) == IF c \in chunks THEN mem[c].data ELSE Image(Converted(c))

Init ==
    /\ loaded = FALSE
    /\ players = {}
    /\ chunks = {}
    /\ mem = [d \in Chunks |-> NoChunk]
    /\ png \in [Chunks -> Stored]
    /\ pxr \in [Chunks -> Stored]
    /\ \A d \in Chunks : png[d] = NoFile \/ pxr[d] = NoFile
    /\ task = [d \in Chunks |-> NoTask]
    /\ ongoing = {}
    /\ request \in [Requests -> {[state |-> "idle", chunk |-> d, image |-> NoImage] :
                                     d \in Chunks}]
    /\ painted = [d \in Chunks |-> Normal(Shown(d))]

Next ==
    \/ \E p \in Players : PlayerJoined(p) \/ PlayerLeft(p)
    \/ \E p \in Players, c \in Chunks, px \in Pixels, v \in Colors,
          fails \in MayFail("load") : Paint(p, c, px, v, fails)
    \/ \E c \in Chunks, on \in BOOLEAN, fails \in MayFail("load") :
          SetAreaProtection(c, on, fails)
    \/ \E r \in Requests, viewFails \in MayFail("view"),
          loadFails \in MayFail("load") : SendChunk(r, viewFails, loadFails)
    \/ \E r \in Requests : CancelRequest(r)
    \/ \E c \in Chunks, p \in Pixels : EncodePixel(c, p)
    \/ \E c \in Chunks : EncodeEnd(c) \/ SendEncoded(c)
    \/ \E S \in SUBSET Unlocked : UnloadOldChunks(S)
    \/ SaveAll

Spec == Init /\ [][Next]_vars

(* Chunk c is read in as its file has it, its first cache being what was   *)
(* read, and does not change while a worker reads it. Nothing in the code  *)
(* makes sure of either: what the program promises when both are so.       *)
Quiet(c) ==
    /\ c \in chunks' \ chunks => mem'[c].cache = Image(Converted(c))
    /\ c \in ongoing => mem'[c].data = mem[c].data

QuietSpec == Init /\ [][Next /\ \A c \in Chunks : Quiet(c)]_vars

(* The worker threads run, and so do the callbacks queued for the main     *)
(* thread.                                                                 *)
FairSpec ==
    /\ Spec
    /\ \A c \in Chunks : WF_vars(\/ \E p \in Pixels : EncodePixel(c, p)
                                 \/ EncodeEnd(c) \/ SendEncoded(c))

-----------------------------------------------------------------------------
(* Nothing that was painted or protected is lost while its chunk goes to   *)
(* and from memory, unless a file does not open: the next player to see    *)
(* the chunk sees it.                                                      *)
NoLostPaint == \A c \in Chunks : Normal(Shown(c)) = painted[c]

(* A cache that is not marked as outdated is the encoding of the pixels    *)
(* and the protection in memory: save copies it, and viewers are sent it.  *)
CacheCoherent ==
    \A c \in chunks : ~mem[c].pngCacheOutdated => mem[c].cache = mem[c].data

(* A chunk in memory that is not marked as newer than its file can be      *)
(* dropped without a save: the file holds it, or it was never painted.     *)
FileCoherent ==
    \A c \in chunks : ~mem[c].pngFileOutdated => mem[c].data = Image(png[c])

(* The chunks yet to be converted. *)
OldClusters == {c \in Chunks : pxr[c] # NoFile}

Store == INSTANCE ChunkStore WITH
             Images <- [Pixels -> Colors], Lost <- NoFile,
             shown <- [c \in Chunks |-> Look(Shown(c))],
             kept <- [c \in Chunks |-> Look(Image(Converted(c)))],
             old <- OldClusters

(* Files and memory are a store of whole chunks: nothing but a player      *)
(* changes what is shown of a chunk, and its files hold what they held or, *)
(* after a step that writes them, all that is shown, never an older image. *)
ImplementsStore == Store!UseSpec

(* A chunk the worker is encoding stays in memory, locked, and its cache   *)
(* is not read by the main thread: one task per chunk, for the time the    *)
(* chunk is in ongoingChunkRequests.                                       *)
TaskLocksChunk ==
    \A c \in Chunks :
        /\ task[c].stage # "none" <=> c \in ongoing
        /\ c \in ongoing => /\ c \in chunks
                            /\ ~mem[c].canUnload
                            /\ mem[c].pngCacheOutdated
        /\ c \in chunks \ ongoing => mem[c].canUnload

(* The world is in memory for as long as it has a player or the worker has *)
(* one of its chunks, and has no chunk when it is not.                     *)
LoadedWhileNeeded ==
    /\ loaded = (players # {} \/ ongoing # {})
    /\ ~loaded => chunks = {}

(* A request that waits is on the list of a task that is yet to end. *)
WaitersHaveTask ==
    \A r \in Requests : request[r].state = "waiting" => request[r].chunk \in ongoing

(* Every request that waits for the encoding of a chunk is answered or is  *)
(* cancelled by its peer.                                                  *)
WaitingEnds ==
    \A r \in Requests : request[r].state = "waiting" ~> request[r].state # "waiting"

(* "204 No Content" says that the chunk doesn't exist: nobody has painted  *)
(* or protected it.                                                        *)
AbsentIsBlank ==
    [][\A r \in Requests :
          request[r].state = "idle" /\ request'[r].state = "answered"
              /\ request'[r].image = NoImage
          => painted[request[r].chunk] = Blank]_vars
=============================================================================

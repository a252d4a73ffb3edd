---------------------------- MODULE WorldProofs ----------------------------
(***************************************************************************)
(* Proofs about World: type correctness, what keeps the worker thread away *)
(* from chunks that are gone, and that no paint is lost while chunk files  *)
(* are loaded and no chunk changes under the worker that encodes it.       *)
(***************************************************************************)
EXTENDS World, TLAPS

(* What a file can be. *)
Files == Contents \cup {NoFile}

(* The image of a new chunk is a content. *)
LEMMA BlankType == Blank \in Contents /\ Blank \in Files
<1>1. [p \in Pixels |-> Bg] \in [Pixels -> Colors]
  BY ColorsAssumption
<1>2. Blank \in Contents
  BY <1>1 DEF Blank, Contents
<1> QED BY <1>2 DEF Files

(* The markers of absence are no contents. *)
LEMMA NoFileType == NoFile \in Files /\ \A f \in Files : f # NoFile => f \in Contents
BY DEF Files

(* A chunk that is not there has the type of a chunk. *)
LEMMA NoChunkType == NoChunk \in ChunkStates
BY BlankType, Zenon DEF NoChunk, ChunkStates

(* The constructor makes an unlocked chunk, of the file it reads. *)
LEMMA ConstructedType ==
    ASSUME NEW f \in Files
    PROVE  /\ Constructed(f) \in ChunkStates
           /\ Constructed(f).canUnload
<1> DEFINE new == [data |-> Blank, cache |-> Blank, canUnload |-> TRUE,
                   pngCacheOutdated |-> TRUE, pngFileOutdated |-> FALSE]
           old == [data |-> f, cache |-> f, canUnload |-> TRUE,
                   pngCacheOutdated |-> FALSE, pngFileOutdated |-> FALSE]
<1>1. new \in ChunkStates
  BY BlankType, Zenon DEF ChunkStates
<1>2. f # NoFile => old \in ChunkStates
  BY NoFileType, Zenon DEF ChunkStates
<1>3. Constructed(f) = IF f = NoFile THEN new ELSE old
  BY Zenon DEF Constructed
<1>4. new.canUnload /\ old.canUnload
  OBVIOUS
<1> HIDE DEF new, old
<1> QED BY <1>1, <1>2, <1>3, <1>4

(* A content with another pixel or another protection is a content. *)
LEMMA ContentsEdit ==
    ASSUME NEW d \in Contents
    PROVE  /\ \A p \in Pixels, v \in Colors : [d EXCEPT !.pixel[p] = v] \in Contents
           /\ \A t \in {"absent", "zero", "one"} : [d EXCEPT !.prot = t] \in Contents
BY DEF Contents

(* A chunk whose image changes has the type of a chunk, is as locked as it *)
(* was, and its cache is behind.                                           *)
LEMMA EditedType ==
    ASSUME NEW k \in ChunkStates, NEW d \in Contents
    PROVE  /\ Edited(k, d) \in ChunkStates
           /\ Edited(k, d).canUnload = k.canUnload
           /\ Edited(k, d).pngCacheOutdated
           /\ Edited(k, d).pngFileOutdated
           /\ Edited(k, d).data = d
<1>1. Edited(k, d) \in ChunkStates
  BY Zenon DEF Edited, ChunkStates
<1> QED BY <1>1 DEF Edited, ChunkStates

(* Painting a chunk leaves it as locked as it was. *)
LEMMA WithPixelType ==
    ASSUME NEW k \in ChunkStates, NEW p \in Pixels, NEW v \in Colors
    PROVE  /\ WithPixel(k, p, v) \in ChunkStates
           /\ WithPixel(k, p, v).canUnload = k.canUnload
           /\ k.pngCacheOutdated => WithPixel(k, p, v).pngCacheOutdated
<1>1. k.data \in Contents
  BY DEF ChunkStates
<1>2. [k.data EXCEPT !.pixel[p] = v] \in Contents
  BY <1>1, ContentsEdit
<1> QED BY <1>2, EditedType, Zenon DEF WithPixel

(* So does protecting it. *)
LEMMA WithProtectionType ==
    ASSUME NEW k \in ChunkStates, NEW on \in BOOLEAN
    PROVE  /\ WithProtection(k, on) \in ChunkStates
           /\ WithProtection(k, on).canUnload = k.canUnload
           /\ k.pngCacheOutdated => WithProtection(k, on).pngCacheOutdated
<1>1. k.data \in Contents
  BY DEF ChunkStates
<1>2. (IF on THEN "one" ELSE "zero") \in {"absent", "zero", "one"}
  OBVIOUS
<1>3. [k.data EXCEPT !.prot = IF on THEN "one" ELSE "zero"] \in Contents
  BY <1>1, <1>2, ContentsEdit, Zenon
<1> QED BY <1>3, EditedType, Zenon DEF WithProtection

(* What the destructor leaves is a file, as what it found was. *)
LEMMA FileLeftType ==
    ASSUME NEW k \in ChunkStates, NEW f \in Files
    PROVE  SavedFile(k, f) \in Files /\ FileLeft(k, f) \in Files
<1>1. \A j \in ChunkStates : SavedFile(j, f) \in Files
  BY DEF SavedFile, ChunkStates, Files
<1>2. k.data \in Contents
  BY DEF ChunkStates
<1>3. [k.data EXCEPT !.prot = "absent"] \in Contents
  BY <1>2, ContentsEdit
<1>4. Tidied(k) \in ChunkStates
  BY <1>3, EditedType, Zenon DEF Tidied
<1> QED BY <1>1, <1>4, NoFileType, Zenon DEF FileLeft

-----------------------------------------------------------------------------
(* The chunk variables have their types. *)
MemoryTypes ==
    /\ chunks \in SUBSET Chunks
    /\ mem \in [Chunks -> ChunkStates]
    /\ png \in [Chunks -> Files]
    /\ pxr \in [Chunks -> Files]

(* A chunk that is found has its type; one that is new is unlocked. *)
LEMMA FoundType ==
    ASSUME MemoryTypes, NEW c \in Chunks, NEW fails \in BOOLEAN
    PROVE  /\ Found(c, fails) \in ChunkStates
           /\ c \notin chunks => Found(c, fails).canUnload
           /\ Converted(c) \in Files
<1>1. Converted(c) \in Files
  BY DEF MemoryTypes, Converted
<1>2. (IF fails THEN NoFile ELSE Converted(c)) \in Files
  BY <1>1, NoFileType
<1>3. CASE c \in chunks
  BY <1>1, <1>3 DEF Found, MemoryTypes
<1>4. CASE c \notin chunks
  BY <1>1, <1>2, <1>4, ConstructedType DEF Found
<1> QED BY <1>3, <1>4

(* Getting a chunk keeps the types; of the others only unlocked ones go. *)
LEMMA KeepFacts ==
    ASSUME MemoryTypes, NEW c \in Chunks, NEW k \in ChunkStates, Keep(c, k)
    PROVE  /\ MemoryTypes'
           /\ mem'[c] = k
           /\ c \in chunks'
           /\ chunks' \subseteq chunks \cup {c}
           /\ \A d \in chunks : ~mem[d].canUnload => d \in chunks'
           /\ \A d \in chunks' \ {c} : mem'[d] = mem[d] /\ png'[d] = png[d]
<1> DEFINE out == Crowded(c)
<1>1. out \subseteq chunks /\ \A d \in out : mem[d].canUnload
  BY DEF Crowded, Unlocked, UnlockedIn
<1>2. /\ chunks' = (chunks \ out) \cup {c}
      /\ mem' = [d \in Chunks |-> IF d = c THEN k
                                  ELSE IF d \in out THEN NoChunk ELSE mem[d]]
      /\ png' = [d \in Chunks |->
                    IF d = c THEN (IF c \in chunks THEN png[c] ELSE Converted(c))
                    ELSE IF d \in out THEN FileLeft(mem[d], png[d]) ELSE png[d]]
      /\ pxr' = IF c \in chunks THEN pxr ELSE [pxr EXCEPT ![c] = NoFile]
  BY Zenon DEF Keep
<1> HIDE DEF out
<1>3. chunks' \subseteq Chunks
  BY <1>2 DEF MemoryTypes
<1>4. mem' \in [Chunks -> ChunkStates]
  BY <1>2, NoChunkType DEF MemoryTypes
<1>5. \A d \in Chunks : FileLeft(mem[d], png[d]) \in Files
  BY FileLeftType DEF MemoryTypes
<1>6. Converted(c) \in Files
  BY FoundType
<1>7. png' \in [Chunks -> Files]
  BY <1>2, <1>5, <1>6 DEF MemoryTypes
<1>8. pxr' \in [Chunks -> Files]
  BY <1>2, NoFileType DEF MemoryTypes
<1>9. MemoryTypes'
  BY <1>3, <1>4, <1>7, <1>8 DEF MemoryTypes
<1>10. \A d \in chunks' \ {c} : mem'[d] = mem[d] /\ png'[d] = png[d]
  BY <1>1, <1>2 DEF MemoryTypes
<1>11. \A d \in chunks : ~mem[d].canUnload => d \in chunks'
  BY <1>1, <1>2
<1> QED BY <1>2, <1>9, <1>10, <1>11

(* Forgetting unlocked chunks keeps the types. *)
LEMMA UnloadFacts ==
    ASSUME MemoryTypes, NEW S \in SUBSET chunks, NEW m \in [Chunks -> ChunkStates],
           Unload(S, m)
    PROVE  /\ MemoryTypes'
           /\ chunks' = chunks \ S
           /\ \A d \in chunks' : mem'[d] = m[d] /\ png'[d] = png[d]
           /\ pxr' = pxr
<1>1. \A d \in Chunks : FileLeft(m[d], png[d]) \in Files
  BY FileLeftType DEF MemoryTypes
<1>2. mem' \in [Chunks -> ChunkStates]
  BY NoChunkType DEF Unload, MemoryTypes
<1>3. png' \in [Chunks -> Files]
  BY <1>1 DEF Unload, MemoryTypes
<1>4. chunks' \subseteq Chunks /\ pxr' \in [Chunks -> Files]
  BY DEF Unload, MemoryTypes
<1>5. MemoryTypes'
  BY <1>2, <1>3, <1>4 DEF MemoryTypes
<1> QED BY <1>5 DEF Unload, MemoryTypes

-----------------------------------------------------------------------------
(* What is invariant of a world: the types, the locks of the worker, and   *)
(* who keeps the world in memory.                                          *)
Inv == TypeOK /\ TaskLocksChunk /\ LoadedWhileNeeded /\ WaitersHaveTask

(* The types of the variables that no chunk is kept in. *)
OtherTypes ==
    /\ loaded \in BOOLEAN
    /\ players \in SUBSET Players
    /\ task \in [Chunks -> Tasks]
    /\ ongoing \in SUBSET Chunks
    /\ request \in [Requests -> RequestStates]
    /\ painted \in [Chunks -> Contents]

(* The types, in two parts. *)
LEMMA TypeParts == TypeOK <=> (MemoryTypes /\ OtherTypes)
BY DEF TypeOK, MemoryTypes, OtherTypes, Files

(* The same, after a step. *)
LEMMA TypePartsNext == TypeOK' <=> (MemoryTypes' /\ OtherTypes')
BY DEF TypeOK, MemoryTypes, OtherTypes, Files

(* Getting a chunk and changing its image leaves the locks as they were. *)
LEMMA KeepLocks ==
    ASSUME Inv, NEW c \in Chunks, NEW k \in ChunkStates, Keep(c, k),
           UNCHANGED <<task, ongoing>>,
           c \in chunks => /\ k.canUnload = mem[c].canUnload
                           /\ mem[c].pngCacheOutdated => k.pngCacheOutdated,
           c \notin chunks => k.canUnload
    PROVE  MemoryTypes' /\ TaskLocksChunk'
<1>1. MemoryTypes
  BY TypeParts DEF Inv
<1>2. /\ MemoryTypes'
      /\ mem'[c] = k
      /\ c \in chunks'
      /\ chunks' \subseteq chunks \cup {c}
      /\ \A d \in chunks : ~mem[d].canUnload => d \in chunks'
      /\ \A d \in chunks' \ {c} : mem'[d] = mem[d]
  BY <1>1, KeepFacts
<1>3. TaskLocksChunk
  BY DEF Inv
<1> QED BY <1>2, <1>3 DEF TaskLocksChunk

(* Unloading unlocked chunks leaves the locks as they were. *)
LEMMA UnloadLocks ==
    ASSUME Inv, NEW S \in SUBSET Unlocked, Unload(S, mem), UNCHANGED <<task, ongoing>>
    PROVE  MemoryTypes' /\ TaskLocksChunk'
<1>1. MemoryTypes /\ mem \in [Chunks -> ChunkStates]
  BY TypeParts DEF Inv, TypeOK
<1>2. S \in SUBSET chunks /\ \A d \in S : mem[d].canUnload
  BY DEF Unlocked, UnlockedIn
<1>3. /\ MemoryTypes'
      /\ chunks' = chunks \ S
      /\ \A d \in chunks' : mem'[d] = mem[d]
  BY <1>1, <1>2, UnloadFacts
<1>4. TaskLocksChunk
  BY DEF Inv
<1> QED BY <1>2, <1>3, <1>4 DEF TaskLocksChunk

(* tryUnloadWorld, of a memory in which the chunks of O are locked: with   *)
(* no players, those are what remains, and what keeps the world in memory. *)
LEMMA TryUnloadFacts ==
    ASSUME MemoryTypes, NEW P, NEW m \in [Chunks -> ChunkStates], TryUnloadWorld(P, m),
           NEW O \in SUBSET chunks, \A d \in chunks : m[d].canUnload = (d \notin O),
           loaded \in BOOLEAN
    PROVE  /\ MemoryTypes'
           /\ \A d \in chunks' : mem'[d] = m[d]
           /\ P = {} => chunks' = O /\ loaded' = (O # {})
           /\ P # {} => chunks' = chunks /\ loaded' = loaded
<1>1. CASE P = {}
  <2>1. UnlockedIn(m) \in SUBSET chunks /\ chunks \ UnlockedIn(m) = O
    BY DEF UnlockedIn
  <2>2. Unload(UnlockedIn(m), m) /\ loaded' = (chunks \ UnlockedIn(m) # {})
    BY <1>1 DEF TryUnloadWorld
  <2> QED BY <1>1, <2>1, <2>2, UnloadFacts
<1>2. CASE P # {}
  <2>1. mem' = m /\ UNCHANGED <<chunks, png, pxr, loaded>>
    BY <1>2 DEF TryUnloadWorld, files
  <2> QED BY <1>2, <2>1 DEF MemoryTypes
<1> QED BY <1>1, <1>2

-----------------------------------------------------------------------------
(* Joining and leaving keep the invariant. *)
LEMMA PlayersStep ==
    ASSUME Inv, NEW p \in Players, PlayerJoined(p) \/ PlayerLeft(p)
    PROVE  Inv'
<1>1. MemoryTypes /\ OtherTypes /\ TaskLocksChunk /\ LoadedWhileNeeded /\ WaitersHaveTask
  BY TypeParts DEF Inv
<1>2. CASE PlayerJoined(p)
  <2>1. MemoryTypes' /\ OtherTypes'
    BY <1>1, <1>2 DEF PlayerJoined, MemoryTypes, OtherTypes, memory, files
  <2>2. TaskLocksChunk' /\ LoadedWhileNeeded' /\ WaitersHaveTask'
    BY <1>1, <1>2 DEF PlayerJoined, memory, files, TaskLocksChunk,
       LoadedWhileNeeded, WaitersHaveTask
  <2> QED BY <2>1, <2>2, TypePartsNext DEF Inv
<1>3. CASE PlayerLeft(p)
  <2>1. /\ p \in players /\ players' = players \ {p}
        /\ TryUnloadWorld(players', mem)
        /\ UNCHANGED <<task, ongoing, request, painted>>
    BY <1>3 DEF PlayerLeft
  <2>2. /\ mem \in [Chunks -> ChunkStates]
        /\ ongoing \in SUBSET chunks
        /\ \A d \in chunks : mem[d].canUnload = (d \notin ongoing)
        /\ loaded \in BOOLEAN
    BY <1>1 DEF MemoryTypes, OtherTypes, TaskLocksChunk, ChunkStates
  <2>3. /\ MemoryTypes'
        /\ \A d \in chunks' : mem'[d] = mem[d]
        /\ players' = {} => chunks' = ongoing /\ loaded' = (ongoing # {})
        /\ players' # {} => chunks' = chunks /\ loaded' = loaded
    BY <1>1, <2>1, <2>2, TryUnloadFacts
  <2>4. OtherTypes'
    BY <1>1, <2>1, <2>3 DEF OtherTypes
  <2>5. TaskLocksChunk'
    BY <1>1, <2>1, <2>2, <2>3 DEF TaskLocksChunk
  <2>6. LoadedWhileNeeded'
    BY <1>1, <2>1, <2>3 DEF LoadedWhileNeeded
  <2>7. WaitersHaveTask'
    BY <1>1, <2>1 DEF WaitersHaveTask
  <2> QED BY <2>3, <2>4, <2>5, <2>6, <2>7, TypePartsNext DEF Inv
<1> QED BY <1>2, <1>3

(* Painting and protecting keep the invariant. *)
LEMMA EditStep ==
    ASSUME Inv, NEW c \in Chunks, NEW fails \in BOOLEAN,
           \/ \E p \in Players, px \in Pixels, v \in Colors : Paint(p, c, px, v, fails)
           \/ \E on \in BOOLEAN : SetAreaProtection(c, on, fails)
    PROVE  Inv'
<1>1. MemoryTypes /\ OtherTypes /\ TaskLocksChunk /\ LoadedWhileNeeded /\ WaitersHaveTask
  BY TypeParts DEF Inv
<1> DEFINE f == Found(c, fails)
<1>2. f \in ChunkStates /\ (c \notin chunks => f.canUnload) /\ (c \in chunks => f = mem[c])
  BY <1>1, FoundType DEF Found
<1> HIDE DEF f
<1>3. /\ loaded
      /\ UNCHANGED <<loaded, players, task, ongoing, request>>
      /\ painted' \in [Chunks -> Contents]
      /\ \E k \in ChunkStates :
            /\ Keep(c, k)
            /\ k.canUnload = f.canUnload
            /\ f.pngCacheOutdated => k.pngCacheOutdated
  <2>1. CASE \E p \in Players, px \in Pixels, v \in Colors : Paint(p, c, px, v, fails)
    <3>1. PICK p \in Players, px \in Pixels, v \in Colors : Paint(p, c, px, v, fails)
      BY <2>1
    <3>2. /\ p \in players
          /\ Keep(c, IF f.data.prot # "one" THEN WithPixel(f, px, v) ELSE f)
          /\ painted' = IF f.data.prot # "one"
                        THEN [painted EXCEPT ![c].pixel[px] = v] ELSE painted
          /\ UNCHANGED <<loaded, players, task, ongoing, request>>
      BY <3>1 DEF Paint, f
    <3>3. painted' \in [Chunks -> Contents]
      BY <1>1, <3>2 DEF OtherTypes, Contents
    <3>4. loaded
      BY <1>1, <3>2 DEF LoadedWhileNeeded
    <3>5. CASE f.data.prot # "one"
      BY <1>2, <3>2, <3>3, <3>4, <3>5, WithPixelType
    <3>6. CASE ~(f.data.prot # "one")
      BY <1>2, <3>2, <3>3, <3>4, <3>6
    <3> QED BY <3>5, <3>6
  <2>2. CASE \E on \in BOOLEAN : SetAreaProtection(c, on, fails)
    <3>1. PICK on \in BOOLEAN : SetAreaProtection(c, on, fails)
      BY <2>2
    <3>2. /\ loaded
          /\ Keep(c, WithProtection(f, on))
          /\ painted' = [painted EXCEPT ![c].prot = IF on THEN "one" ELSE "absent"]
          /\ UNCHANGED <<loaded, players, task, ongoing, request>>
      BY <3>1 DEF SetAreaProtection, f
    <3>3. painted' \in [Chunks -> Contents]
      BY <1>1, <3>2 DEF OtherTypes, Contents
    <3> QED BY <1>2, <3>2, <3>3, WithProtectionType
  <2> QED BY <2>1, <2>2
<1>4. PICK k \in ChunkStates :
         /\ Keep(c, k)
         /\ k.canUnload = f.canUnload
         /\ f.pngCacheOutdated => k.pngCacheOutdated
  BY <1>3
<1>5. MemoryTypes' /\ TaskLocksChunk'
  BY <1>2, <1>3, <1>4, KeepLocks
<1>6. OtherTypes' /\ LoadedWhileNeeded' /\ WaitersHaveTask'
  BY <1>1, <1>3 DEF OtherTypes, LoadedWhileNeeded, WaitersHaveTask
<1> QED BY <1>5, <1>6, TypePartsNext DEF Inv

(* A request that is answered or put to wait has the type of a request. *)
LEMMA RequestType ==
    ASSUME NEW q \in RequestStates, NEW i \in Contents \cup {NoImage},
           NEW st \in {"idle", "waiting", "answered", "cancelled"}
    PROVE  /\ [q EXCEPT !.state = st, !.image = i] \in RequestStates
           /\ [q EXCEPT !.state = st] \in RequestStates
           /\ [q EXCEPT !.state = st, !.image = i].state = st
           /\ [q EXCEPT !.state = st].state = st
           /\ [q EXCEPT !.state = st, !.image = i].chunk = q.chunk
           /\ [q EXCEPT !.state = st].chunk = q.chunk
BY DEF RequestStates

(* An answer ends the wait of its request and of no other. *)
LEMMA AnswerFacts ==
    ASSUME NEW r \in Requests, NEW i \in Contents \cup {NoImage}, Answer(r, i),
           request \in [Requests -> RequestStates], WaitersHaveTask,
           ongoing \subseteq ongoing'
    PROVE  request' \in [Requests -> RequestStates] /\ WaitersHaveTask'
<1> DEFINE q == [request[r] EXCEPT !.state = "answered", !.image = i]
<1>0. /\ request[r] \in RequestStates
      /\ "answered" \in {"idle", "waiting", "answered", "cancelled"}
  OBVIOUS
<1>1. q \in RequestStates /\ q.state = "answered"
  <2>1. q \in RequestStates
    BY <1>0, RequestType, Zenon
  <2> QED BY <1>0, <2>1 DEF RequestStates
<1>2. request' = [request EXCEPT ![r] = q]
  BY DEF Answer
<1> HIDE DEF q
<1> QED BY <1>1, <1>2 DEF WaitersHaveTask

(* A request with another state has the type of a request. *)
LEMMA StateFacts ==
    ASSUME NEW r \in Requests, NEW st \in {"idle", "waiting", "answered", "cancelled"},
           request \in [Requests -> RequestStates],
           request' = [request EXCEPT ![r].state = st]
    PROVE  request' \in [Requests -> RequestStates]
<1> DEFINE q == [request[r] EXCEPT !.state = st]
<1>1. request[r] \in RequestStates
  OBVIOUS
<1>2. q \in RequestStates
  BY <1>1, RequestType, Zenon
<1>3. request' = [request EXCEPT ![r] = q]
  OBVIOUS
<1> HIDE DEF q
<1> QED BY <1>2, <1>3

(* A lock put on a chunk is seen, and changes nothing else. *)
LEMMA LockedType ==
    ASSUME NEW k \in ChunkStates
    PROVE  /\ [k EXCEPT !.canUnload = FALSE] \in ChunkStates
           /\ ~[k EXCEPT !.canUnload = FALSE].canUnload
           /\ [k EXCEPT !.canUnload = FALSE].pngCacheOutdated = k.pngCacheOutdated
<1>1. [k EXCEPT !.canUnload = FALSE] \in ChunkStates
  BY Zenon DEF ChunkStates
<1> QED BY <1>1 DEF ChunkStates

(* A request for an image keeps the invariant. *)
LEMMA SendChunkStep ==
    ASSUME Inv, NEW r \in Requests, NEW viewFails \in BOOLEAN, NEW loadFails \in BOOLEAN,
           SendChunk(r, viewFails, loadFails)
    PROVE  Inv'
<1>1. MemoryTypes /\ OtherTypes /\ TaskLocksChunk /\ LoadedWhileNeeded /\ WaitersHaveTask
  BY TypeParts DEF Inv
<1> DEFINE c == request[r].chunk
           k == Found(c, loadFails)
<1>2. c \in Chunks /\ request \in [Requests -> RequestStates]
  BY <1>1 DEF OtherTypes, RequestStates
<1> HIDE DEF c
<1>3. k \in ChunkStates /\ (c \notin chunks => k.canUnload) /\ (c \in chunks => k = mem[c])
  BY <1>1, <1>2, FoundType DEF Found
<1>4. loaded /\ UNCHANGED <<loaded, players, painted>>
  BY DEF SendChunk, c
<1>5. ASSUME NEW i \in Contents \cup {NoImage}, Answer(r, i),
             UNCHANGED <<memory, files, task, ongoing>>
      PROVE  Inv'
  <2>1. request' \in [Requests -> RequestStates] /\ WaitersHaveTask'
    BY <1>1, <1>2, <1>5, AnswerFacts
  <2>2. MemoryTypes' /\ OtherTypes'
    BY <1>1, <1>4, <1>5, <2>1 DEF MemoryTypes, OtherTypes, memory, files
  <2>3. TaskLocksChunk' /\ LoadedWhileNeeded'
    BY <1>1, <1>4, <1>5 DEF TaskLocksChunk, LoadedWhileNeeded, memory, files
  <2> QED BY <2>1, <2>2, <2>3, TypePartsNext DEF Inv
<1>6. CASE SendFromMemory(r, c, loadFails)
  <2> HIDE DEF k
  <2>1. CASE /\ ~k.pngCacheOutdated
             /\ Keep(c, k)
             /\ Answer(r, k.cache)
             /\ UNCHANGED <<task, ongoing>>
    <3>1. k.cache \in Contents \cup {NoImage}
      BY <1>3 DEF ChunkStates
    <3>2. request' \in [Requests -> RequestStates] /\ WaitersHaveTask'
      BY <1>1, <1>2, <2>1, <3>1, AnswerFacts
    <3>3. MemoryTypes' /\ TaskLocksChunk'
      BY <1>2, <1>3, <2>1, KeepLocks
    <3>4. OtherTypes' /\ LoadedWhileNeeded'
      BY <1>1, <1>4, <2>1, <3>2 DEF OtherTypes, LoadedWhileNeeded
    <3> QED BY <3>2, <3>3, <3>4, TypePartsNext DEF Inv
  <2>2. CASE /\ k.pngCacheOutdated
             /\ request' = [request EXCEPT ![r].state = "waiting"]
             /\ c \in ongoing
             /\ Keep(c, k)
             /\ UNCHANGED <<task, ongoing>>
    <3>1. request' \in [Requests -> RequestStates]
      BY <1>2, <2>2, StateFacts
    <3>2. WaitersHaveTask'
      BY <1>1, <1>2, <2>2 DEF WaitersHaveTask, RequestStates, c
    <3>3. MemoryTypes' /\ TaskLocksChunk'
      BY <1>2, <1>3, <2>2, KeepLocks
    <3>4. OtherTypes' /\ LoadedWhileNeeded'
      BY <1>1, <1>4, <2>2, <3>1 DEF OtherTypes, LoadedWhileNeeded
    <3> QED BY <3>1, <3>2, <3>3, <3>4, TypePartsNext DEF Inv
  <2>3. CASE /\ k.pngCacheOutdated
             /\ request' = [request EXCEPT ![r].state = "waiting"]
             /\ c \notin ongoing
             /\ Keep(c, [k EXCEPT !.canUnload = FALSE])
             /\ ongoing' = ongoing \cup {c}
             /\ task' = [task EXCEPT ![c] =
                            [stage |-> "encoding", left |-> Pixels, out |-> Blank]]
    <3> DEFINE j == [k EXCEPT !.canUnload = FALSE]
    <3>1. j \in ChunkStates /\ ~j.canUnload /\ j.pngCacheOutdated
      BY <1>3, <2>3, LockedType
    <3> HIDE DEF j
    <3>2. /\ MemoryTypes'
          /\ mem'[c] = j
          /\ c \in chunks'
          /\ chunks' \subseteq chunks \cup {c}
          /\ \A d \in chunks : ~mem[d].canUnload => d \in chunks'
          /\ \A d \in chunks' \ {c} : mem'[d] = mem[d]
      BY <1>1, <1>2, <2>3, <3>1, KeepFacts DEF j
    <3>3. [stage |-> "encoding", left |-> Pixels, out |-> Blank] \in Tasks
      BY BlankType, Zenon DEF Tasks
    <3>4. task' \in [Chunks -> Tasks] /\ ongoing' \in SUBSET Chunks
      BY <1>1, <1>2, <2>3, <3>3 DEF OtherTypes
    <3>5. TaskLocksChunk'
      <4> SUFFICES ASSUME NEW d \in Chunks
                   PROVE  /\ task'[d].stage # "none" <=> d \in ongoing'
                          /\ d \in ongoing' => /\ d \in chunks'
                                               /\ ~mem'[d].canUnload
                                               /\ mem'[d].pngCacheOutdated
                          /\ d \in chunks' \ ongoing' => mem'[d].canUnload
        BY DEF TaskLocksChunk
      <4>1. CASE d = c
        <5>1. task'[d].stage = "encoding"
          BY <1>1, <1>2, <2>3, <4>1 DEF OtherTypes
        <5> QED BY <2>3, <3>1, <3>2, <4>1, <5>1
      <4>2. CASE d # c
        <5>1. task'[d] = task[d]
          BY <1>1, <1>2, <2>3, <4>2 DEF OtherTypes
        <5> QED BY <1>1, <2>3, <3>2, <4>2, <5>1 DEF TaskLocksChunk
      <4> QED BY <4>1, <4>2
    <3>6. request' \in [Requests -> RequestStates]
      BY <1>2, <2>3, StateFacts
    <3>7. WaitersHaveTask'
      BY <1>1, <1>2, <2>3 DEF WaitersHaveTask, RequestStates, c
    <3>8. OtherTypes' /\ LoadedWhileNeeded'
      BY <1>1, <1>4, <2>3, <3>4, <3>6 DEF OtherTypes, LoadedWhileNeeded
    <3> QED BY <3>2, <3>5, <3>7, <3>8, TypePartsNext DEF Inv
  <2> QED BY <1>6, <2>1, <2>2, <2>3 DEF SendFromMemory, k
<1>7. png[c] # NoFile => png[c] \in Contents
  BY <1>1, <1>2 DEF MemoryTypes, Files
<1>8. \/ Answer(r, NoImage) /\ UNCHANGED <<memory, files, task, ongoing>>
      \/ png[c] # NoFile /\ Answer(r, png[c]) /\ UNCHANGED <<memory, files, task, ongoing>>
      \/ SendFromMemory(r, c, loadFails)
  BY DEF SendChunk, OnDisk, c
<1> QED BY <1>5, <1>6, <1>7, <1>8

(* A peer that goes away keeps the invariant. *)
LEMMA CancelStep ==
    ASSUME Inv, NEW r \in Requests, CancelRequest(r)
    PROVE  Inv'
<1>1. MemoryTypes /\ OtherTypes /\ TaskLocksChunk /\ LoadedWhileNeeded /\ WaitersHaveTask
  BY TypeParts DEF Inv
<1>2. request' \in [Requests -> RequestStates]
  BY <1>1, StateFacts DEF CancelRequest, OtherTypes
<1>3. WaitersHaveTask'
  BY <1>1 DEF CancelRequest, WaitersHaveTask, OtherTypes, RequestStates
<1>4. MemoryTypes' /\ OtherTypes'
  BY <1>1, <1>2 DEF CancelRequest, MemoryTypes, OtherTypes, memory, files
<1>5. TaskLocksChunk' /\ LoadedWhileNeeded'
  BY <1>1 DEF CancelRequest, TaskLocksChunk, LoadedWhileNeeded, memory, files
<1> QED BY <1>3, <1>4, <1>5, TypePartsNext DEF Inv

(* The worker keeps the invariant: it writes only the cache of its chunk. *)
LEMMA EncodePixelStep ==
    ASSUME Inv, NEW c \in Chunks, NEW p \in Pixels, EncodePixel(c, p)
    PROVE  Inv'
<1>1. MemoryTypes /\ OtherTypes /\ TaskLocksChunk /\ LoadedWhileNeeded /\ WaitersHaveTask
  BY TypeParts DEF Inv
<1> DEFINE o == [task[c].out EXCEPT !.pixel[p] = mem[c].data.pixel[p]]
           t == [task[c] EXCEPT !.left = task[c].left \ {p}, !.out = o]
<1>2. task[c] \in Tasks /\ task[c].out \in Contents /\ mem[c].data.pixel[p] \in Colors
  BY <1>1 DEF OtherTypes, MemoryTypes, Tasks, ChunkStates, Contents
<1>3. o \in Contents
  BY <1>2, ContentsEdit
<1>4. task' = [task EXCEPT ![c] = t]
  BY DEF EncodePixel
<1> HIDE DEF o
<1>5. t \in Tasks /\ t.stage = task[c].stage
  BY <1>2, <1>3 DEF Tasks
<1> HIDE DEF t
<1>6. MemoryTypes' /\ OtherTypes'
  BY <1>1, <1>4, <1>5 DEF EncodePixel, MemoryTypes, OtherTypes, memory, files
<1>7. TaskLocksChunk'
  BY <1>1, <1>4, <1>5 DEF EncodePixel, TaskLocksChunk, OtherTypes, memory
<1>8. LoadedWhileNeeded' /\ WaitersHaveTask'
  BY <1>1 DEF EncodePixel, LoadedWhileNeeded, WaitersHaveTask, memory
<1> QED BY <1>6, <1>7, <1>8, TypePartsNext DEF Inv

(* The end of an encoding keeps the invariant. *)
LEMMA EncodeEndStep ==
    ASSUME Inv, NEW c \in Chunks, EncodeEnd(c)
    PROVE  Inv'
<1>1. MemoryTypes /\ OtherTypes /\ TaskLocksChunk /\ LoadedWhileNeeded /\ WaitersHaveTask
  BY TypeParts DEF Inv
<1> DEFINE o == [task[c].out EXCEPT !.prot = mem[c].data.prot]
           t == [task[c] EXCEPT !.stage = "encoded"]
           k == [mem[c] EXCEPT !.cache = o]
<1>2. /\ task[c] \in Tasks /\ task[c].out \in Contents /\ mem[c] \in ChunkStates
      /\ mem[c].data.prot \in {"absent", "zero", "one"}
  BY <1>1 DEF OtherTypes, MemoryTypes, Tasks, ChunkStates, Contents
<1>3. o \in Contents
  BY <1>2, ContentsEdit
<1>4. task' = [task EXCEPT ![c] = t] /\ mem' = [mem EXCEPT ![c] = k]
  BY DEF EncodeEnd
<1> HIDE DEF o
<1>5. t \in Tasks /\ t.stage = "encoded"
  BY <1>2 DEF Tasks
<1>6. /\ k \in ChunkStates
      /\ k.canUnload = mem[c].canUnload
      /\ k.pngCacheOutdated = mem[c].pngCacheOutdated
  BY <1>2, <1>3 DEF ChunkStates
<1>7. task[c].stage # "none"
  BY DEF EncodeEnd
<1> HIDE DEF t, k
<1>8. MemoryTypes' /\ OtherTypes'
  BY <1>1, <1>4, <1>5, <1>6 DEF EncodeEnd, MemoryTypes, OtherTypes, files
<1>9. TaskLocksChunk'
  BY <1>1, <1>4, <1>5, <1>6, <1>7 DEF EncodeEnd, TaskLocksChunk, OtherTypes, MemoryTypes
<1>10. LoadedWhileNeeded' /\ WaitersHaveTask'
  BY <1>1 DEF EncodeEnd, LoadedWhileNeeded, WaitersHaveTask
<1> QED BY <1>8, <1>9, <1>10, TypePartsNext DEF Inv

(* The callback keeps the invariant: the chunk is unlocked as its task and *)
(* its list of requests go.                                                *)
LEMMA SendEncodedStep ==
    ASSUME Inv, NEW c \in Chunks, SendEncoded(c)
    PROVE  Inv'
<1>1. MemoryTypes /\ OtherTypes /\ TaskLocksChunk /\ LoadedWhileNeeded /\ WaitersHaveTask
  BY TypeParts DEF Inv
<1> DEFINE u == Unpinned(mem[c])
           m == [mem EXCEPT ![c] = u]
           O == ongoing \ {c}
<1>2. /\ task[c].stage = "encoded"
      /\ task' = [task EXCEPT ![c] = NoTask]
      /\ ongoing' = O
      /\ request' = [r \in Requests |->
             IF r \in Waiters(c)
             THEN [request[r] EXCEPT !.state = "answered", !.image = mem[c].cache]
             ELSE request[r]]
      /\ TryUnloadWorld(players, m)
      /\ UNCHANGED <<players, painted>>
  BY DEF SendEncoded
<1>3. mem[c] \in ChunkStates /\ mem[c].cache \in Contents \cup {NoImage}
  BY <1>1 DEF MemoryTypes, ChunkStates
<1>4. u \in ChunkStates /\ u.canUnload
  <2>1. u \in ChunkStates
    BY <1>3, Zenon DEF Unpinned, ChunkStates
  <2> QED BY <1>3, <2>1 DEF Unpinned, ChunkStates
<1> HIDE DEF u
<1>5. m \in [Chunks -> ChunkStates] /\ m[c] = u /\ \A d \in Chunks \ {c} : m[d] = mem[d]
  BY <1>1, <1>4 DEF MemoryTypes
<1> HIDE DEF m
<1>6. c \in ongoing /\ loaded \in BOOLEAN /\ ongoing \subseteq chunks
  BY <1>1, <1>2 DEF TaskLocksChunk, OtherTypes
<1>7. O \in SUBSET chunks /\ \A d \in chunks : m[d].canUnload = (d \notin O)
  <2>1. O \in SUBSET chunks
    BY <1>6
  <2> SUFFICES ASSUME NEW d \in chunks
               PROVE  m[d].canUnload = (d \notin O)
    BY <2>1
  <2>2. d \in Chunks
    BY <1>1 DEF MemoryTypes
  <2>3. CASE d = c
    BY <1>4, <1>5, <2>3
  <2>4. CASE d # c
    <3>1. m[d] = mem[d] /\ mem[d].canUnload \in BOOLEAN
      BY <1>1, <1>5, <2>2, <2>4 DEF MemoryTypes, ChunkStates
    <3> QED BY <1>1, <2>2, <2>4, <3>1 DEF TaskLocksChunk
  <2> QED BY <2>3, <2>4
<1>8. /\ MemoryTypes'
      /\ \A d \in chunks' : mem'[d] = m[d]
      /\ players = {} => chunks' = O /\ loaded' = (O # {})
      /\ players # {} => chunks' = chunks /\ loaded' = loaded
  BY <1>1, <1>2, <1>5, <1>6, <1>7, TryUnloadFacts
<1>9. NoTask \in Tasks /\ NoTask.stage = "none"
  <2>1. NoTask \in Tasks
    BY BlankType, Zenon DEF NoTask, Tasks
  <2> QED BY <2>1 DEF NoTask
<1>10. task' \in [Chunks -> Tasks]
  BY <1>1, <1>2, <1>9 DEF OtherTypes
<1>11. request' \in [Requests -> RequestStates]
  <2>1. /\ request \in [Requests -> RequestStates]
        /\ "answered" \in {"idle", "waiting", "answered", "cancelled"}
    BY <1>1 DEF OtherTypes
  <2>2. \A r \in Requests :
           [request[r] EXCEPT !.state = "answered", !.image = mem[c].cache]
              \in RequestStates
    <3> SUFFICES ASSUME NEW r \in Requests
                 PROVE  [request[r] EXCEPT !.state = "answered", !.image = mem[c].cache]
                            \in RequestStates
      OBVIOUS
    <3>1. request[r] \in RequestStates
      BY <2>1
    <3> QED BY <1>3, <2>1, <3>1, RequestType, Zenon
  <2> QED BY <1>2, <2>1, <2>2
<1>12. OtherTypes'
  BY <1>1, <1>2, <1>6, <1>8, <1>10, <1>11 DEF OtherTypes
<1>13. TaskLocksChunk'
  <2> SUFFICES ASSUME NEW d \in Chunks
               PROVE  /\ task'[d].stage # "none" <=> d \in ongoing'
                      /\ d \in ongoing' => /\ d \in chunks'
                                           /\ ~mem'[d].canUnload
                                           /\ mem'[d].pngCacheOutdated
                      /\ d \in chunks' \ ongoing' => mem'[d].canUnload
    BY DEF TaskLocksChunk
  <2>1. CASE d = c
    <3>1. task'[d] = NoTask
      BY <1>1, <1>2, <2>1 DEF OtherTypes
    <3>2. d \notin ongoing' /\ task'[d].stage = "none"
      BY <1>2, <1>9, <2>1, <3>1
    <3>3. d \in chunks' => mem'[d] = u
      BY <1>5, <1>8, <2>1
    <3> QED BY <1>4, <3>2, <3>3, Zenon
  <2>2. CASE d # c
    <3>1. task'[d] = task[d]
      BY <1>1, <1>2, <2>2 DEF OtherTypes
    <3>2. d \in chunks' => mem'[d] = mem[d]
      BY <1>5, <1>8, <2>2
    <3>3. d \in ongoing' => d \in chunks'
      BY <1>2, <1>7, <1>8
    <3>4. d \in chunks' => d \in chunks
      BY <1>7, <1>8
    <3>5. d \in ongoing' <=> d \in ongoing
      BY <1>2, <2>2
    <3> QED BY <1>1, <3>1, <3>2, <3>3, <3>4, <3>5, Zenon DEF TaskLocksChunk
  <2> QED BY <2>1, <2>2
<1>14. LoadedWhileNeeded'
  BY <1>1, <1>2, <1>8 DEF LoadedWhileNeeded
<1>15. WaitersHaveTask'
  <2> SUFFICES ASSUME NEW r \in Requests, request'[r].state = "waiting"
               PROVE  request'[r].chunk \in ongoing'
    BY DEF WaitersHaveTask
  <2>1. request[r] \in RequestStates
    BY <1>1 DEF OtherTypes
  <2>2. r \notin Waiters(c)
    <3> SUFFICES ASSUME r \in Waiters(c)
                 PROVE  FALSE
      OBVIOUS
    <3>1. request'[r] = [request[r] EXCEPT !.state = "answered", !.image = mem[c].cache]
      BY <1>2
    <3>2. request'[r].state = "answered"
      BY <2>1, <3>1 DEF RequestStates
    <3> QED BY <3>2
  <2>3. request'[r] = request[r]
    BY <1>2, <2>2
  <2> QED BY <1>1, <1>2, <2>2, <2>3 DEF WaitersHaveTask, Waiters
<1> QED BY <1>8, <1>12, <1>13, <1>14, <1>15, TypePartsNext DEF Inv

(* Unloading what is old or all that is not locked keeps the invariant. *)
LEMMA UnloadOldStep ==
    ASSUME Inv, NEW S \in SUBSET Unlocked, UnloadOldChunks(S)
    PROVE  Inv'
<1>1. OtherTypes /\ LoadedWhileNeeded /\ WaitersHaveTask
  BY TypeParts DEF Inv
<1>2. Unload(S, mem) /\ loaded
      /\ UNCHANGED <<loaded, players, task, ongoing, request, painted>>
  BY DEF UnloadOldChunks
<1>3. MemoryTypes' /\ TaskLocksChunk'
  BY <1>2, UnloadLocks
<1>4. OtherTypes' /\ LoadedWhileNeeded' /\ WaitersHaveTask'
  BY <1>1, <1>2 DEF OtherTypes, LoadedWhileNeeded, WaitersHaveTask
<1> QED BY <1>3, <1>4, TypePartsNext DEF Inv

(* A chunk that is saved keeps its type, its lock and its cache. *)
LEMMA SavedType ==
    ASSUME NEW k \in ChunkStates
    PROVE  /\ Saved(k) \in ChunkStates
           /\ Saved(k).canUnload = k.canUnload
           /\ Saved(k).pngCacheOutdated = k.pngCacheOutdated
<1>1. Saved(k) \in ChunkStates
  BY Zenon DEF Saved, ChunkStates
<1> QED BY <1>1 DEF Saved, ChunkStates

(* Saving keeps the invariant. *)
LEMMA SaveStep ==
    ASSUME Inv, SaveAll
    PROVE  Inv'
<1>1. MemoryTypes /\ OtherTypes /\ TaskLocksChunk /\ LoadedWhileNeeded /\ WaitersHaveTask
  BY TypeParts DEF Inv
<1>2. \A d \in Chunks : /\ mem[d] \in ChunkStates
                        /\ SavedFile(mem[d], png[d]) \in Files
                        /\ Saved(mem[d]) \in ChunkStates
                        /\ Saved(mem[d]).canUnload = mem[d].canUnload
                        /\ Saved(mem[d]).pngCacheOutdated = mem[d].pngCacheOutdated
  BY <1>1, FileLeftType, SavedType DEF MemoryTypes
<1>3. MemoryTypes' /\ OtherTypes'
  BY <1>1, <1>2 DEF SaveAll, MemoryTypes, OtherTypes
<1>4. \A d \in Chunks : /\ mem'[d].canUnload = mem[d].canUnload
                        /\ mem'[d].pngCacheOutdated = mem[d].pngCacheOutdated
  BY <1>2 DEF SaveAll
<1>5. TaskLocksChunk' /\ LoadedWhileNeeded' /\ WaitersHaveTask'
  BY <1>1, <1>4 DEF SaveAll, TaskLocksChunk, LoadedWhileNeeded, WaitersHaveTask
<1> QED BY <1>3, <1>5, TypePartsNext DEF Inv

-----------------------------------------------------------------------------
(* What a player sees of a chunk that is not in memory is a content. *)
LEMMA ShownType ==
    ASSUME MemoryTypes, NEW c \in Chunks
    PROVE  Shown(c) \in Contents /\ Normal(Shown(c)) \in Contents
<1>1. Converted(c) \in Files
  BY DEF MemoryTypes, Converted
<1>2. Shown(c) \in Contents
  BY <1>1, BlankType DEF Shown, Image, MemoryTypes, ChunkStates, Files
<1>3. \A d \in Contents : Normal(d) \in Contents
  BY DEF Normal, Contents
<1> QED BY <1>2, <1>3

(* The invariant holds when the server starts. *)
LEMMA InitInv == Init => Inv
<1> SUFFICES ASSUME Init
             PROVE  Inv
  OBVIOUS
<1>1. MemoryTypes
  BY NoChunkType, StoredAssumption DEF Init, MemoryTypes, Files
<1>2. NoTask \in Tasks /\ NoTask.stage = "none"
  <2>1. NoTask \in Tasks
    BY BlankType, Zenon DEF NoTask, Tasks
  <2> QED BY <2>1 DEF NoTask
<1>3. request \in [Requests -> RequestStates] /\ \A r \in Requests : request[r].state = "idle"
  <2>1. \A d \in Chunks : [state |-> "idle", chunk |-> d, image |-> NoImage] \in RequestStates
    BY DEF RequestStates
  <2> QED BY <2>1 DEF Init
<1>4. painted \in [Chunks -> Contents]
  BY <1>1, ShownType DEF Init
<1>5. OtherTypes
  BY <1>2, <1>3, <1>4 DEF Init, OtherTypes
<1>6. TaskLocksChunk /\ LoadedWhileNeeded /\ WaitersHaveTask
  BY <1>2, <1>3 DEF Init, TaskLocksChunk, LoadedWhileNeeded, WaitersHaveTask
<1> QED BY <1>1, <1>5, <1>6, TypeParts DEF Inv

(* Every step keeps the invariant. *)
LEMMA NextInv == Inv /\ [Next]_vars => Inv'
<1> SUFFICES ASSUME Inv, [Next]_vars
             PROVE  Inv'
  OBVIOUS
<1>1. \A w \in {"view", "load"} : MayFail(w) \subseteq BOOLEAN
  BY DEF MayFail
<1>2. CASE \E p \in Players : PlayerJoined(p) \/ PlayerLeft(p)
  BY <1>2, PlayersStep
<1>3. CASE \E p \in Players, c \in Chunks, px \in Pixels, v \in Colors,
              fails \in MayFail("load") : Paint(p, c, px, v, fails)
  BY <1>1, <1>3, EditStep
<1>4. CASE \E c \in Chunks, on \in BOOLEAN, fails \in MayFail("load") :
              SetAreaProtection(c, on, fails)
  BY <1>1, <1>4, EditStep
<1>5. CASE \E r \in Requests, viewFails \in MayFail("view"),
              loadFails \in MayFail("load") : SendChunk(r, viewFails, loadFails)
  BY <1>1, <1>5, SendChunkStep
<1>6. CASE \E r \in Requests : CancelRequest(r)
  BY <1>6, CancelStep
<1>7. CASE \E c \in Chunks, p \in Pixels : EncodePixel(c, p)
  BY <1>7, EncodePixelStep
<1>8. CASE \E c \in Chunks : EncodeEnd(c) \/ SendEncoded(c)
  BY <1>8, EncodeEndStep, SendEncodedStep
<1>9. CASE \E S \in SUBSET Unlocked : UnloadOldChunks(S)
  BY <1>9, UnloadOldStep
<1>10. CASE SaveAll
  BY <1>10, SaveStep
<1>11. CASE UNCHANGED vars
  <2>1. UNCHANGED <<loaded, players, chunks, mem, png, pxr, task, ongoing, request, painted>>
    BY <1>11 DEF vars
  <2>2. MemoryTypes' /\ OtherTypes'
    BY <2>1, TypeParts DEF Inv, MemoryTypes, OtherTypes
  <2>3. TaskLocksChunk' /\ LoadedWhileNeeded' /\ WaitersHaveTask'
    BY <2>1 DEF Inv, TaskLocksChunk, LoadedWhileNeeded, WaitersHaveTask
  <2> QED BY <2>2, <2>3, TypePartsNext DEF Inv
<1> QED BY <1>2, <1>3, <1>4, <1>5, <1>6, <1>7, <1>8, <1>9, <1>10, <1>11 DEF Next

(* The invariant holds always. *)
LEMMA AlwaysInv == Spec => []Inv
BY InitInv, NextInv, PTL DEF Spec

(* Every variable has its type in every reachable state. *)
THEOREM TypeCorrect == Spec => []TypeOK
<1>1. Inv => TypeOK
  BY DEF Inv
<1> QED BY <1>1, AlwaysInv, PTL

(* However the calls of players, requests, timers and workers interleave,  *)
(* the chunk a worker encodes stays in memory and locked until the         *)
(* callback, and its cache is not read meanwhile.                          *)
THEOREM ChunksLockedWhileEncoded == Spec => []TaskLocksChunk
<1>1. Inv => TaskLocksChunk
  BY DEF Inv
<1> QED BY <1>1, AlwaysInv, PTL

(* A world leaves memory exactly when it has neither players nor tasks, so *)
(* a callback never finds its world gone.                                  *)
THEOREM WorldStaysWhileNeeded == Spec => []LoadedWhileNeeded
<1>1. Inv => LoadedWhileNeeded
  BY DEF Inv
<1> QED BY <1>1, AlwaysInv, PTL

(* No waiting request is left without the task that answers it. *)
THEOREM WaitersAreServed == Spec => []WaitersHaveTask
<1>1. Inv => WaitersHaveTask
  BY DEF Inv
<1> QED BY <1>1, AlwaysInv, PTL

-----------------------------------------------------------------------------
(* No paint of a chunk is lost while it is read in as its file has it and  *)
(* does not change under a worker, whatever happens to the others.         *)

(* The flags of chunk k say which of its cache and its file f are behind. *)
Coherent(k, f) ==
    /\ ~k.pngCacheOutdated => k.cache = k.data
    /\ ~k.pngFileOutdated => k.data = Image(f)

(* What the worker has read of chunk k in its task t, and the cache it     *)
(* makes of it, is what is in memory.                                      *)
Follows(t, k) ==
    /\ t.stage = "encoding" =>
          \A p \in Pixels : p \notin t.left => t.out.pixel[p] = k.data.pixel[p]
    /\ t.stage = "encoded" => k.cache = k.data

TasksFollow(Q) == \A c \in Q : Follows(task[c], mem[c])

ShownIn(Q) == \A c \in Q : Normal(Shown(c)) = painted[c]

(* What is invariant about the chunks in Q. *)

PaintInv(Q) ==
    /\ Inv
    /\ \A c \in chunks : pxr[c] = NoFile
    /\ \A c \in chunks \cap Q : Coherent(mem[c], png[c])
    /\ ShownIn(Q)
    /\ TasksFollow(Q)

(* Normal contents differ only where the contents do. *)
LEMMA NormalEdit ==
    ASSUME NEW d \in Contents
    PROVE  /\ Normal([d EXCEPT !.prot = "one"]) = [Normal(d) EXCEPT !.prot = "one"]
           /\ Normal([d EXCEPT !.prot = "zero"]) = [Normal(d) EXCEPT !.prot = "absent"]
           /\ d.prot = "zero" => Normal(d) = [d EXCEPT !.prot = "absent"]
           /\ d.prot # "zero" => Normal(d) = d
           /\ Normal(d).pixel = d.pixel
BY DEF Normal, Contents

(* A pixel is the same in both. *)
LEMMA NormalPixel ==
    ASSUME NEW d \in Contents, NEW p \in Pixels, NEW v \in Colors
    PROVE  Normal([d EXCEPT !.pixel[p] = v]) = [Normal(d) EXCEPT !.pixel[p] = v]
BY DEF Normal, Contents

(* An empty chunk looks like one that was never painted. *)
LEMMA EmptyNormal ==
    ASSUME NEW d \in Contents, Empty(d)
    PROVE  Normal(d) = Blank /\ Normal(Blank) = Blank
<1>1. d.pixel = Blank.pixel /\ d.prot # "one"
  BY DEF Empty
<1>2. Blank.prot = "absent" /\ Blank \in Contents
  BY BlankType DEF Blank
<1>3. Normal(Blank) = Blank
  BY <1>2, NormalEdit
<1>4. Normal(d) = [pixel |-> d.pixel, prot |-> "absent"]
  BY <1>1 DEF Normal, Contents
<1>5. Blank = [pixel |-> Blank.pixel, prot |-> "absent"]
  BY DEF Blank
<1> QED BY <1>1, <1>3, <1>4, <1>5

(* A coherent chunk can be saved or dropped: its file shows its image. *)
LEMMA SavedShows ==
    ASSUME NEW k \in ChunkStates, NEW f \in Files, Coherent(k, f)
    PROVE  Image(SavedFile(k, f)) = k.data
<1>1. k.data \in Contents /\ k.data # NoFile
  BY MarkersAssumption DEF ChunkStates
<1> QED BY <1>1 DEF Coherent, SavedFile, Image

(* What the destructor leaves looks the same to a player. *)
LEMMA DroppedShows ==
    ASSUME NEW k \in ChunkStates, NEW f \in Files, Coherent(k, f)
    PROVE  Normal(Image(FileLeft(k, f))) = Normal(k.data)
<1> DEFINE d == [k.data EXCEPT !.prot = "absent"]
<1>1. k.data \in Contents
  BY DEF ChunkStates
<1>2. CASE Empty(k.data)
  BY <1>1, <1>2, EmptyNormal DEF FileLeft, Image
<1>3. CASE ~Empty(k.data) /\ k.data.prot = "zero"
  <2>1. d \in Contents
    BY <1>1, ContentsEdit
  <2>2. Tidied(k) = Edited(k, d)
    BY <1>3 DEF Tidied
  <2>3. d = Normal(k.data)
    BY <1>1, <1>3, NormalEdit
  <2>4. d.prot = "absent"
    BY <1>1 DEF Contents
  <2> HIDE DEF d
  <2>5. SavedFile(Tidied(k), f) = d
    BY <2>1, <2>2, EditedType DEF SavedFile
  <2>6. d # NoFile
    BY <2>1, MarkersAssumption
  <2>7. Normal(d) = d
    BY <2>1, <2>4, NormalEdit
  <2> QED BY <1>3, <2>3, <2>5, <2>6, <2>7 DEF FileLeft, Image
<1>4. CASE ~Empty(k.data) /\ k.data.prot # "zero"
  <2>1. FileLeft(k, f) = SavedFile(k, f)
    BY <1>4 DEF FileLeft, Tidied
  <2> QED BY <2>1, SavedShows
<1> QED BY <1>2, <1>3, <1>4

(* The load of chunk c brought what its file shows, if it was loaded. *)
Loaded(c, fails) ==
    c \notin chunks => Found(c, fails).cache = Image(Converted(c))

(* A chunk that is found so shows what it showed before. *)
LEMMA FoundShows ==
    ASSUME NEW Q \in SUBSET Chunks, PaintInv(Q), NEW c \in Q, NEW fails \in BOOLEAN,
           Loaded(c, fails)
    PROVE  /\ Found(c, fails) \in ChunkStates
           /\ Found(c, fails).data = Shown(c)
           /\ Coherent(Found(c, fails), IF c \in chunks THEN png[c] ELSE Converted(c))
           /\ Normal(Found(c, fails).data) = painted[c]
<1>1. MemoryTypes /\ ShownIn(Q) /\ \A d \in chunks \cap Q : Coherent(mem[d], png[d])
  BY TypeParts DEF PaintInv, Inv
<1>2. Found(c, fails) \in ChunkStates /\ Converted(c) \in Files
  BY <1>1, FoundType
<1>3. CASE c \in chunks
  BY <1>1, <1>2, <1>3 DEF Found, Shown, ShownIn
<1>4. CASE c \notin chunks
  <2> DEFINE f == IF fails THEN NoFile ELSE Converted(c)
  <2>1. Found(c, fails) = Constructed(f) /\ Shown(c) = Image(Converted(c))
    BY <1>4 DEF Found, Shown
  <2>2. Constructed(f).cache = Image(Converted(c)) /\ f \in Files
    BY <1>2, <1>4, <2>1, NoFileType DEF Loaded
  <2> HIDE DEF f
  <2>3. Constructed(f).data = Constructed(f).cache
    BY DEF Constructed
  <2>4. /\ Constructed(f).data = Image(Converted(c))
        /\ Coherent(Constructed(f), Converted(c))
    BY <2>2, <2>3 DEF Coherent
  <2> QED BY <1>1, <1>2, <1>4, <2>1, <2>4 DEF ShownIn
<1> QED BY <1>3, <1>4

(* The part of PaintInv that is about chunks and their files. *)
PaintKept(Q) ==
    /\ \A c \in chunks : pxr[c] = NoFile
    /\ \A c \in chunks \cap Q : Coherent(mem[c], png[c])
    /\ ShownIn(Q)

(* Getting a chunk, and leaving it coherent, loses no paint. *)
LEMMA KeepShows ==
    ASSUME NEW Q \in SUBSET Chunks, PaintInv(Q), NEW c \in Chunks,
           NEW k \in ChunkStates, Keep(c, k),
           c \in Q => /\ Coherent(k, IF c \in chunks THEN png[c] ELSE Converted(c))
                      /\ painted'[c] = Normal(k.data),
           \A d \in Chunks \ {c} : painted'[d] = painted[d]
    PROVE  PaintKept(Q)'
<1>1. /\ MemoryTypes /\ ShownIn(Q)
      /\ \A d \in chunks : pxr[d] = NoFile /\ (d \in Q => Coherent(mem[d], png[d]))
  BY TypeParts DEF PaintInv, Inv
<1>2. /\ mem'[c] = k /\ c \in chunks' /\ chunks' \subseteq chunks \cup {c}
      /\ \A d \in chunks' \ {c} : mem'[d] = mem[d] /\ png'[d] = png[d]
  BY <1>1, KeepFacts
<1> DEFINE out == Crowded(c)
<1>3. out \subseteq chunks /\ c \notin out /\ out \subseteq Chunks
  BY <1>1 DEF Crowded, Unlocked, UnlockedIn, MemoryTypes
<1>4. /\ chunks' = (chunks \ out) \cup {c}
      /\ png' = [d \in Chunks |->
                    IF d = c THEN (IF c \in chunks THEN png[c] ELSE Converted(c))
                    ELSE IF d \in out THEN FileLeft(mem[d], png[d]) ELSE png[d]]
      /\ pxr' = IF c \in chunks THEN pxr ELSE [pxr EXCEPT ![c] = NoFile]
  BY Zenon DEF Keep
<1> HIDE DEF out
<1>5. png'[c] = IF c \in chunks THEN png[c] ELSE Converted(c)
  BY <1>4
<1>6. pxr'[c] = NoFile /\ \A d \in Chunks \ {c} : pxr'[d] = pxr[d]
  BY <1>1, <1>4 DEF MemoryTypes
<1>7. \A d \in chunks' : pxr'[d] = NoFile
  BY <1>1, <1>2, <1>6 DEF MemoryTypes
<1>8. \A d \in chunks' \cap Q : Coherent(mem'[d], png'[d])
  BY <1>1, <1>2, <1>5
<1>9. ASSUME NEW d \in Q
      PROVE  Normal(Shown(d)') = painted'[d]
  <2>1. CASE d = c
    BY <1>2, <2>1 DEF Shown
  <2>2. CASE d # c /\ d \in chunks'
    <3>1. Shown(d)' = Shown(d)
      BY <1>2, <2>2 DEF Shown
    <3> QED BY <1>1, <2>2, <3>1 DEF ShownIn
  <2>3. CASE d # c /\ d \in out
    <3>1. d \notin chunks' /\ d \in chunks
      BY <1>3, <1>4, <2>3
    <3>2. pxr'[d] = NoFile /\ png'[d] = FileLeft(mem[d], png[d])
      BY <1>1, <1>4, <1>6, <2>3, <3>1
    <3>3. Shown(d)' = Image(FileLeft(mem[d], png[d]))
      BY <3>1, <3>2 DEF Shown, Converted, Image
    <3>4. Normal(Shown(d)') = Normal(mem[d].data)
      BY <1>1, <3>1, <3>3, DroppedShows DEF MemoryTypes
    <3> QED BY <1>1, <2>3, <3>1, <3>4 DEF ShownIn, Shown
  <2>4. CASE d # c /\ d \notin chunks' /\ d \notin out
    <3>1. d \notin chunks
      BY <1>4, <2>4
    <3>2. pxr'[d] = pxr[d] /\ png'[d] = png[d]
      BY <1>4, <1>6, <2>4
    <3>3. Shown(d)' = Shown(d)
      BY <2>4, <3>1, <3>2 DEF Shown, Converted, Image
    <3> QED BY <1>1, <2>4, <3>3 DEF ShownIn
  <2> QED BY <2>1, <2>2, <2>3, <2>4
<1>10. ShownIn(Q)'
  BY <1>9 DEF ShownIn, Normal
<1> QED BY <1>7, <1>8, <1>10 DEF PaintKept

(* Forgetting chunks of a coherent memory of the same images loses no      *)
(* paint.                                                                  *)
LEMMA UnloadShows ==
    ASSUME NEW Q \in SUBSET Chunks, PaintInv(Q), NEW S \in SUBSET chunks,
           NEW m \in [Chunks -> ChunkStates],
           \A d \in chunks \cap Q : m[d].data = mem[d].data /\ Coherent(m[d], png[d]),
           Unload(S, m), UNCHANGED painted
    PROVE  PaintKept(Q)'
<1>1. /\ MemoryTypes /\ ShownIn(Q)
      /\ \A d \in chunks : pxr[d] = NoFile
  BY TypeParts DEF PaintInv, Inv, MemoryTypes
<1>2. /\ chunks' = chunks \ S /\ pxr' = pxr
      /\ \A d \in chunks' : mem'[d] = m[d] /\ png'[d] = png[d]
  BY <1>1, UnloadFacts
<1>3. \A d \in chunks' : pxr'[d] = NoFile /\ (d \in Q => Coherent(mem'[d], png'[d]))
  BY <1>1, <1>2
<1>4. \A d \in Chunks :
         png'[d] = IF d \in S THEN FileLeft(m[d], png[d]) ELSE png[d]
  BY DEF Unload
<1>5. ASSUME NEW d \in Q
      PROVE  Normal(Shown(d)') = painted'[d]
  <2>1. CASE d \in S
    <3>1. d \notin chunks' /\ d \in chunks /\ pxr'[d] = NoFile
      BY <1>1, <1>2, <2>1
    <3>2. Shown(d)' = Image(FileLeft(m[d], png[d]))
      BY <1>4, <2>1, <3>1 DEF Shown, Converted, Image
    <3>3. Normal(Shown(d)') = Normal(m[d].data)
      BY <1>1, <3>1, <3>2, DroppedShows DEF MemoryTypes
    <3> QED BY <1>1, <3>1, <3>3 DEF ShownIn, Shown
  <2>2. CASE d \notin S /\ d \in chunks
    <3>1. d \in chunks' /\ mem'[d] = m[d]
      BY <1>2, <2>2
    <3>2. Shown(d)' = Shown(d)
      BY <2>2, <3>1 DEF Shown
    <3> QED BY <1>1, <3>2 DEF ShownIn
  <2>3. CASE d \notin S /\ d \notin chunks
    <3>1. d \notin chunks' /\ pxr'[d] = pxr[d] /\ png'[d] = png[d]
      BY <1>2, <1>4, <2>3
    <3>2. Shown(d)' = Shown(d)
      BY <2>3, <3>1 DEF Shown, Converted, Image
    <3> QED BY <1>1, <3>2 DEF ShownIn
  <2> QED BY <2>1, <2>2, <2>3
<1>6. ShownIn(Q)'
  BY <1>5 DEF ShownIn, Normal
<1> QED BY <1>3, <1>6 DEF PaintKept

(* Saving loses no paint. *)
LEMMA SaveShows ==
    ASSUME NEW Q \in SUBSET Chunks, PaintInv(Q), SaveAll
    PROVE  PaintKept(Q)'
<1>1. /\ MemoryTypes /\ ShownIn(Q)
      /\ \A d \in chunks : pxr[d] = NoFile /\ (d \in Q => Coherent(mem[d], png[d]))
  BY TypeParts DEF PaintInv, Inv
<1>2. ASSUME NEW d \in chunks \cap Q
      PROVE  /\ mem'[d] = Saved(mem[d])
             /\ png'[d] = SavedFile(mem[d], png[d])
             /\ mem'[d].data = mem[d].data
             /\ Coherent(mem'[d], png'[d])
  <2>1. d \in Chunks /\ mem[d] \in ChunkStates /\ png[d] \in Files
    BY <1>1 DEF MemoryTypes
  <2>2. mem'[d] = Saved(mem[d]) /\ png'[d] = SavedFile(mem[d], png[d])
    BY <2>1 DEF SaveAll
  <2>3. /\ Saved(mem[d]).data = mem[d].data
        /\ Saved(mem[d]).cache = mem[d].cache
        /\ Saved(mem[d]).pngCacheOutdated = mem[d].pngCacheOutdated
    BY <2>1 DEF Saved, ChunkStates
  <2>4. Image(SavedFile(mem[d], png[d])) = mem[d].data
    BY <1>1, <2>1, SavedShows
  <2> QED BY <1>1, <2>2, <2>3, <2>4 DEF Coherent
<1>3. UNCHANGED <<chunks, pxr, painted>> /\ \A d \in Chunks \ chunks : png'[d] = png[d]
  BY DEF SaveAll
<1>4. ASSUME NEW d \in Q
      PROVE  Shown(d)' = Shown(d)
  BY <1>2, <1>3 DEF Shown, Converted, Image
<1>5. ShownIn(Q)'
  BY <1>1, <1>3, <1>4 DEF ShownIn, Normal
<1> QED BY <1>1, <1>2, <1>3, <1>5 DEF PaintKept

-----------------------------------------------------------------------------
(* An edit of a coherent chunk leaves it coherent: both copies are behind. *)
LEMMA EditedCoherent ==
    ASSUME NEW k \in ChunkStates, NEW d \in Contents, NEW f
    PROVE  Coherent(Edited(k, d), f)
BY EditedType DEF Coherent

(* Painting a pixel changes that pixel, for the next player to see. *)
LEMMA PaintShows ==
    ASSUME NEW Q \in SUBSET Chunks, PaintInv(Q), NEW c \in Q, NEW p \in Players,
           NEW px \in Pixels, NEW v \in Colors, NEW fails \in BOOLEAN,
           Paint(p, c, px, v, fails), Loaded(c, fails)
    PROVE  PaintKept(Q)'
<1> DEFINE k == Found(c, fails)
           f == IF c \in chunks THEN png[c] ELSE Converted(c)
           d == [k.data EXCEPT !.pixel[px] = v]
<1>1. k \in ChunkStates /\ Coherent(k, f) /\ Normal(k.data) = painted[c]
  BY FoundShows
<1>2. /\ Keep(c, IF k.data.prot # "one" THEN WithPixel(k, px, v) ELSE k)
      /\ painted' = IF k.data.prot # "one"
                    THEN [painted EXCEPT ![c].pixel[px] = v] ELSE painted
  BY DEF Paint
<1> HIDE DEF k, f
<1>3. painted \in [Chunks -> Contents] /\ k.data \in Contents
  BY <1>1 DEF PaintInv, Inv, TypeOK, ChunkStates
<1>4. CASE k.data.prot # "one" /\ k.data.pixel[px] # v
  <2>1. d \in Contents /\ Normal(d) = [painted[c] EXCEPT !.pixel[px] = v]
    <3>1. d \in Contents
      BY <1>3, ContentsEdit
    <3>2. Normal(d) = [Normal(k.data) EXCEPT !.pixel[px] = v]
      <4>1. \A e \in Contents : Normal([e EXCEPT !.pixel[px] = v])
                                = [Normal(e) EXCEPT !.pixel[px] = v]
        BY NormalPixel
      <4> QED BY <1>3, <4>1
    <3> QED BY <1>1, <3>1, <3>2
  <2>2. WithPixel(k, px, v) = Edited(k, d)
    BY <1>4 DEF WithPixel
  <2>3. /\ painted'[c] = [painted[c] EXCEPT !.pixel[px] = v]
        /\ \A e \in Chunks \ {c} : painted'[e] = painted[e]
    BY <1>2, <1>3, <1>4
  <2> HIDE DEF d
  <2>4. /\ Edited(k, d) \in ChunkStates /\ Edited(k, d).data = d
        /\ Coherent(Edited(k, d), f)
    BY <1>1, <2>1, EditedType, EditedCoherent
  <2>5. Keep(c, Edited(k, d))
    BY <1>2, <1>4, <2>2
  <2>6. painted'[c] = Normal(Edited(k, d).data)
    BY <2>1, <2>3, <2>4
  <2> QED BY <2>3, <2>4, <2>5, <2>6, KeepShows DEF f
<1>5. CASE ~(k.data.prot # "one" /\ k.data.pixel[px] # v)
  <2>1. Keep(c, k)
    BY <1>2, <1>5 DEF WithPixel
  <2>2. painted' = painted
    <3>1. CASE k.data.prot = "one"
      BY <1>2, <3>1
    <3>2. CASE k.data.pixel[px] = v
      <4>1. painted[c].pixel[px] = v
        BY <1>1, <1>3, <3>2, NormalEdit
      <4>2. [painted EXCEPT ![c].pixel[px] = v] = painted
        BY <1>3, <4>1 DEF Contents
      <4> QED BY <1>2, <4>2
    <3> QED BY <1>5, <3>1, <3>2
  <2> QED BY <1>1, <2>1, <2>2, KeepShows DEF f
<1> QED BY <1>4, <1>5

(* Protecting an area protects it, for the next player to see. *)
LEMMA ProtectionShows ==
    ASSUME NEW Q \in SUBSET Chunks, PaintInv(Q), NEW c \in Q, NEW on \in BOOLEAN,
           NEW fails \in BOOLEAN, SetAreaProtection(c, on, fails), Loaded(c, fails)
    PROVE  PaintKept(Q)'
<1> DEFINE k == Found(c, fails)
           f == IF c \in chunks THEN png[c] ELSE Converted(c)
           d == [k.data EXCEPT !.prot = IF on THEN "one" ELSE "zero"]
           n == [painted[c] EXCEPT !.prot = IF on THEN "one" ELSE "absent"]
<1>1. k \in ChunkStates /\ Coherent(k, f) /\ Normal(k.data) = painted[c]
  BY FoundShows
<1>2. /\ Keep(c, WithProtection(k, on))
      /\ painted' = [painted EXCEPT ![c].prot = IF on THEN "one" ELSE "absent"]
  BY DEF SetAreaProtection
<1> HIDE DEF k, f
<1>3. painted \in [Chunks -> Contents] /\ k.data \in Contents
  BY <1>1 DEF PaintInv, Inv, TypeOK, ChunkStates
<1>4. d \in Contents /\ Normal(d) = n
  <2>1. CASE on
    BY <1>1, <1>3, <2>1, ContentsEdit, NormalEdit
  <2>2. CASE ~on
    BY <1>1, <1>3, <2>2, ContentsEdit, NormalEdit
  <2> QED BY <2>1, <2>2
<1>5. painted'[c] = n /\ \A e \in Chunks \ {c} : painted'[e] = painted[e]
  BY <1>2, <1>3
<1>6. Keep(c, Edited(k, d))
  BY <1>2 DEF WithProtection
<1> HIDE DEF d, n
<1>7. /\ Edited(k, d) \in ChunkStates /\ Edited(k, d).data = d
      /\ Coherent(Edited(k, d), f)
  BY <1>1, <1>4, EditedType, EditedCoherent
<1> QED BY <1>4, <1>5, <1>6, <1>7, KeepShows DEF f

-----------------------------------------------------------------------------
(* The chunks a worker encodes. *)

(* Getting a chunk leaves the caches of locked chunks alone. *)
LEMMA KeepCaches ==
    ASSUME Inv, NEW c \in Chunks, NEW k \in ChunkStates, Keep(c, k),
           c \in chunks => k.cache = mem[c].cache
    PROVE  \A d \in ongoing : mem'[d].cache = mem[d].cache
<1>1. MemoryTypes /\ TaskLocksChunk
  BY TypeParts DEF Inv
<1>2. /\ mem'[c] = k
      /\ \A d \in chunks : ~mem[d].canUnload => d \in chunks'
      /\ \A d \in chunks' \ {c} : mem'[d] = mem[d]
  BY <1>1, KeepFacts
<1>3. \A d \in ongoing : d \in chunks /\ ~mem[d].canUnload
  BY DEF Inv, TypeOK, TaskLocksChunk
<1> QED BY <1>2, <1>3

(* So does unloading chunks that are not locked. *)
LEMMA UnloadCaches ==
    ASSUME Inv, NEW S \in SUBSET Unlocked, Unload(S, mem)
    PROVE  \A d \in ongoing : mem'[d] = mem[d]
<1>1. \A d \in ongoing : d \in Chunks /\ d \notin S
  BY DEF Inv, TypeOK, TaskLocksChunk, Unlocked, UnlockedIn
<1> QED BY <1>1 DEF Unload

(* A worker follows a chunk whose image and cache stay as they are. *)
LEMMA FollowsKept ==
    ASSUME NEW Q \in SUBSET Chunks, PaintInv(Q), UNCHANGED <<task, ongoing>>,
           \A c \in Q : c \in ongoing => /\ mem'[c].data = mem[c].data
                                         /\ mem'[c].cache = mem[c].cache
    PROVE  TasksFollow(Q)'
<1>1. \A c \in Chunks : c \notin ongoing => task'[c].stage = "none"
  BY DEF PaintInv, Inv, TypeOK, Tasks, TaskLocksChunk
<1>2. \A c \in Q : Follows(task[c], mem[c])
  BY DEF PaintInv, TasksFollow
<1>3. ASSUME NEW c \in Q
      PROVE  Follows(task'[c], mem'[c])
  <2>1. CASE c \in ongoing
    BY <1>2, <2>1 DEF Follows
  <2>2. CASE c \notin ongoing
    BY <1>1, <2>2 DEF Follows
  <2> QED BY <2>1, <2>2
<1> QED BY <1>3 DEF TasksFollow

(* Painting and protecting leave every cache alone. *)
LEMMA EditCaches ==
    ASSUME Inv, NEW c \in Chunks, NEW fails \in BOOLEAN,
           \/ \E p \in Players, px \in Pixels, v \in Colors : Paint(p, c, px, v, fails)
           \/ \E on \in BOOLEAN : SetAreaProtection(c, on, fails)
    PROVE  /\ \A d \in ongoing : mem'[d].cache = mem[d].cache
           /\ UNCHANGED <<task, ongoing>>
           /\ \A d \in Chunks \ {c} : painted'[d] = painted[d]
           /\ \E k \in ChunkStates : Keep(c, k) /\ k.cache = Found(c, fails).cache
<1> DEFINE f == Found(c, fails)
<1>1. f \in ChunkStates /\ (c \in chunks => f = mem[c]) /\ painted \in [Chunks -> Contents]
  BY TypeParts, FoundType DEF Found, Inv, TypeOK
<1> HIDE DEF f
<1>2. \A d \in Contents : Edited(f, d) \in ChunkStates /\ Edited(f, d).cache = f.cache
  <2>1. ASSUME NEW d \in Contents
        PROVE  Edited(f, d).cache = f.cache
    BY <1>1 DEF Edited, ChunkStates
  <2> QED BY <1>1, <2>1, EditedType
<1>3. f.data \in Contents
  BY <1>1 DEF ChunkStates
<1>4. /\ UNCHANGED <<task, ongoing>>
      /\ \A d \in Chunks \ {c} : painted'[d] = painted[d]
      /\ \E k \in ChunkStates : Keep(c, k) /\ k.cache = f.cache
  <2>1. CASE \E p \in Players, px \in Pixels, v \in Colors : Paint(p, c, px, v, fails)
    <3>1. PICK p \in Players, px \in Pixels, v \in Colors : Paint(p, c, px, v, fails)
      BY <2>1
    <3>2. /\ Keep(c, IF f.data.prot # "one" THEN WithPixel(f, px, v) ELSE f)
          /\ UNCHANGED <<task, ongoing>>
          /\ painted' = IF f.data.prot # "one" THEN [painted EXCEPT ![c].pixel[px] = v]
                        ELSE painted
      BY <3>1 DEF Paint, f
    <3>3. [f.data EXCEPT !.pixel[px] = v] \in Contents
      BY <1>3, ContentsEdit
    <3>4. WithPixel(f, px, v) \in ChunkStates /\ WithPixel(f, px, v).cache = f.cache
      BY <1>1, <1>2, <3>3, Zenon DEF WithPixel
    <3>5. \A d \in Chunks \ {c} : painted'[d] = painted[d]
      BY <1>1, <3>2
    <3>6. CASE f.data.prot # "one"
      BY <3>2, <3>4, <3>5, <3>6
    <3>7. CASE ~(f.data.prot # "one")
      BY <1>1, <3>2, <3>5, <3>7
    <3> QED BY <3>6, <3>7
  <2>2. CASE \E on \in BOOLEAN : SetAreaProtection(c, on, fails)
    <3>1. PICK on \in BOOLEAN : SetAreaProtection(c, on, fails)
      BY <2>2
    <3>2. /\ Keep(c, WithProtection(f, on)) /\ UNCHANGED <<task, ongoing>>
          /\ painted' = [painted EXCEPT ![c].prot = IF on THEN "one" ELSE "absent"]
      BY <3>1 DEF SetAreaProtection, f
    <3>3. (IF on THEN "one" ELSE "zero") \in {"absent", "zero", "one"}
      OBVIOUS
    <3>4. [f.data EXCEPT !.prot = IF on THEN "one" ELSE "zero"] \in Contents
      BY <1>3, <3>3, ContentsEdit, Zenon
    <3>5. WithProtection(f, on) \in ChunkStates /\ WithProtection(f, on).cache = f.cache
      BY <1>2, <3>4, Zenon DEF WithProtection
    <3>6. \A d \in Chunks \ {c} : painted'[d] = painted[d]
      BY <1>1, <3>2
    <3> QED BY <3>2, <3>5, <3>6
  <2> QED BY <2>1, <2>2
<1>5. PICK k \in ChunkStates : Keep(c, k) /\ k.cache = f.cache
  BY <1>4
<1>6. \A d \in ongoing : mem'[d].cache = mem[d].cache
  BY <1>1, <1>5, KeepCaches
<1> QED BY <1>4, <1>6 DEF f

(* A chunk that is read in quietly is loaded. *)
LEMMA QuietLoads ==
    ASSUME Inv, NEW c \in Chunks, NEW fails \in BOOLEAN, NEW k \in ChunkStates, Keep(c, k),
           k.cache = Found(c, fails).cache, Quiet(c)
    PROVE  Loaded(c, fails)
<1>1. mem'[c] = k /\ c \in chunks'
  BY TypeParts, KeepFacts DEF Inv
<1> QED BY <1>1 DEF Quiet, Loaded

(* So no paint is lost by painting, of the chunk or of another. *)
LEMMA EditShows ==
    ASSUME NEW Q \in SUBSET Chunks, PaintInv(Q), \A d \in Q : Quiet(d),
           NEW c \in Chunks, NEW fails \in BOOLEAN,
           \/ \E p \in Players, px \in Pixels, v \in Colors : Paint(p, c, px, v, fails)
           \/ \E on \in BOOLEAN : SetAreaProtection(c, on, fails)
    PROVE  PaintKept(Q)' /\ TasksFollow(Q)'
<1>1. Inv
  BY DEF PaintInv
<1>2. /\ \A d \in ongoing : mem'[d].cache = mem[d].cache
      /\ UNCHANGED <<task, ongoing>>
      /\ \A d \in Chunks \ {c} : painted'[d] = painted[d]
  BY <1>1, EditCaches
<1>3. PICK k \in ChunkStates : Keep(c, k) /\ k.cache = Found(c, fails).cache
  BY <1>1, EditCaches
<1>4. TasksFollow(Q)'
  BY <1>2, FollowsKept DEF Quiet
<1>5. CASE c \in Q
  <2>1. Loaded(c, fails)
    BY <1>1, <1>3, <1>5, QuietLoads
  <2>2. PaintKept(Q)'
    BY <1>5, <2>1, PaintShows, ProtectionShows
  <2> QED BY <1>4, <2>2
<1>6. CASE c \notin Q
  BY <1>2, <1>3, <1>4, <1>6, KeepShows
<1> QED BY <1>5, <1>6

(* A request loses no paint, and a task it starts has read nothing yet. *)
LEMMA SendShows ==
    ASSUME NEW Q \in SUBSET Chunks, PaintInv(Q), \A d \in Q : Quiet(d), NEW r \in Requests,
           NEW viewFails \in BOOLEAN, NEW fails \in BOOLEAN,
           SendChunk(r, viewFails, fails)
    PROVE  PaintKept(Q)' /\ TasksFollow(Q)'
<1> DEFINE c == request[r].chunk
           k == Found(c, fails)
           f == IF c \in chunks THEN png[c] ELSE Converted(c)
           locked == [k EXCEPT !.canUnload = FALSE]
           start == [stage |-> "encoding", left |-> Pixels, out |-> Blank]
<1>1. Inv /\ MemoryTypes /\ c \in Chunks /\ painted' = painted /\ TasksFollow(Q)
  <2>1. request[r] \in RequestStates
    BY DEF PaintInv, Inv, TypeOK
  <2> QED BY <2>1, TypeParts DEF PaintInv, Inv, RequestStates, SendChunk
<1>2. CASE UNCHANGED <<memory, files, task, ongoing>>
  <2>1. \A d \in Chunks : Shown(d)' = Shown(d)
    BY <1>2 DEF Shown, Converted, Image, memory, files
  <2>2. ShownIn(Q)'
    BY <1>1, <2>1 DEF PaintInv, ShownIn, Normal
  <2> QED BY <1>2, <2>2 DEF PaintInv, PaintKept, TasksFollow, Follows, memory, files
<1>3. k \in ChunkStates /\ (c \in chunks => k = mem[c])
  BY <1>1, FoundType DEF Found
<1>4. /\ locked \in ChunkStates /\ locked.data = k.data /\ locked.cache = k.cache
      /\ locked.pngCacheOutdated = k.pngCacheOutdated
      /\ locked.pngFileOutdated = k.pngFileOutdated
  BY <1>3 DEF ChunkStates
<1>5. c \in Q /\ Loaded(c, fails) =>
          Coherent(k, f) /\ Coherent(locked, f) /\ Normal(k.data) = painted[c]
  BY <1>4, FoundShows DEF Coherent
<1>6. CASE SendFromMemory(r, c, fails)
  <2>1. \/ Keep(c, k) /\ UNCHANGED <<task, ongoing>>
        \/ /\ c \notin ongoing
           /\ Keep(c, locked)
           /\ ongoing' = ongoing \cup {c}
           /\ task' = [task EXCEPT ![c] = start]
    BY <1>6, Zenon DEF SendFromMemory
  <2>2. c \in Q => Loaded(c, fails)
    BY <1>1, <1>3, <1>4, <2>1, QuietLoads
  <2> HIDE DEF k, c, f, locked
  <2>3. CASE Keep(c, k) /\ UNCHANGED <<task, ongoing>>
    <3>1. PaintKept(Q)'
      BY <1>1, <1>3, <1>5, <2>2, <2>3, KeepShows DEF f
    <3>2. \A d \in ongoing : mem'[d].cache = mem[d].cache
      BY <1>1, <1>3, <2>3, KeepCaches
    <3> QED BY <2>3, <3>1, <3>2, FollowsKept DEF Quiet
  <2>4. CASE /\ c \notin ongoing
             /\ Keep(c, locked)
             /\ ongoing' = ongoing \cup {c}
             /\ task' = [task EXCEPT ![c] = start]
    <3>1. PaintKept(Q)'
      BY <1>1, <1>4, <1>5, <2>2, <2>4, KeepShows DEF f
    <3>2. \A d \in ongoing : mem'[d].cache = mem[d].cache
      BY <1>1, <1>3, <1>4, <2>4, KeepCaches
    <3>3. task \in [Chunks -> Tasks]
      BY <1>1 DEF Inv, TypeOK
    <3>4. ASSUME NEW d \in Q
          PROVE  Follows(task'[d], mem'[d])
      <4>1. CASE d = c
        <5>1. task'[d] = start
          BY <2>4, <3>3, <4>1
        <5> QED BY <5>1 DEF Follows
      <4>2. CASE d # c /\ d \in ongoing
        <5>1. task'[d] = task[d] /\ Follows(task[d], mem[d])
          BY <1>1, <2>4, <3>3, <4>2 DEF TasksFollow
        <5> QED BY <3>2, <4>2, <5>1 DEF Follows, Quiet
      <4>3. CASE d # c /\ d \notin ongoing
        <5>1. task'[d] = task[d] /\ task[d].stage = "none"
          BY <1>1, <2>4, <3>3, <4>3 DEF Inv, TaskLocksChunk, Tasks
        <5> QED BY <5>1 DEF Follows
      <4> QED BY <4>1, <4>2, <4>3
    <3> QED BY <3>1, <3>4 DEF TasksFollow
  <2> QED BY <2>1, <2>3, <2>4
<1>7. \/ UNCHANGED <<memory, files, task, ongoing>>
      \/ SendFromMemory(r, c, fails)
  BY DEF SendChunk
<1> QED BY <1>2, <1>6, <1>7

(* Reading one more pixel follows the image in memory. *)
LEMMA EncodePixelShows ==
    ASSUME NEW Q \in SUBSET Chunks, PaintInv(Q), NEW c \in Chunks, NEW p \in Pixels, EncodePixel(c, p)
    PROVE  PaintKept(Q)' /\ TasksFollow(Q)'
<1>1. /\ task \in [Chunks -> Tasks] /\ TasksFollow(Q)
      /\ task[c] \in Tasks
      /\ \A d \in Chunks : Shown(d)' = Shown(d)
      /\ UNCHANGED <<chunks, mem, png, pxr, painted>>
  BY DEF PaintInv, Inv, TypeOK, EncodePixel, memory, files, Shown, Converted, Image
<1>2. PaintKept(Q)'
  BY <1>1 DEF PaintInv, PaintKept, ShownIn, Normal
<1> DEFINE t == [task[c] EXCEPT !.left = @ \ {p}, !.out.pixel[p] = mem[c].data.pixel[p]]
<1>3. task' = [task EXCEPT ![c] = t]
  BY <1>1 DEF EncodePixel
<1>4. /\ t.stage = task[c].stage /\ t.left = task[c].left \ {p}
      /\ \A q \in Pixels : t.out.pixel[q] = IF q = p THEN mem[c].data.pixel[p]
                                            ELSE task[c].out.pixel[q]
  BY <1>1 DEF Tasks, Contents
<1> HIDE DEF t
<1>5. c \in Q => Follows(t, mem[c])
  <2>1. (c \in Q => Follows(task[c], mem[c])) /\ task[c].stage = "encoding"
    BY <1>1 DEF TasksFollow, EncodePixel
  <2> QED BY <1>4, <2>1 DEF Follows
<1>6. TasksFollow(Q)'
  BY <1>1, <1>3, <1>5 DEF TasksFollow, Follows
<1> QED BY <1>2, <1>6

(* A cache made of all the pixels and the protection is the image. *)
LEMMA EncodeEndShows ==
    ASSUME NEW Q \in SUBSET Chunks, PaintInv(Q), NEW c \in Chunks, EncodeEnd(c)
    PROVE  PaintKept(Q)' /\ TasksFollow(Q)'
<1> DEFINE i == [task[c].out EXCEPT !.prot = mem[c].data.prot]
           k == [mem[c] EXCEPT !.cache = i]
<1>1. /\ Inv /\ ShownIn(Q) /\ TasksFollow(Q)
      /\ mem \in [Chunks -> ChunkStates] /\ task \in [Chunks -> Tasks]
      /\ mem[c] \in ChunkStates /\ task[c] \in Tasks /\ chunks \subseteq Chunks
      /\ \A d \in chunks : pxr[d] = NoFile /\ (d \in Q => Coherent(mem[d], png[d]))
  BY DEF PaintInv, Inv, TypeOK
<1>2. /\ task[c].stage = "encoding" /\ task[c].left = {}
      /\ mem' = [mem EXCEPT ![c] = k]
      /\ task' = [task EXCEPT ![c].stage = "encoded"]
      /\ UNCHANGED <<chunks, png, pxr, painted>>
  BY <1>1 DEF EncodeEnd, files
<1>3. c \in Q => i = mem[c].data
  <2>1. mem[c].data \in Contents /\ task[c].out \in Contents
    BY <1>1 DEF ChunkStates, Tasks
  <2>2. c \in Q => \A p \in Pixels : task[c].out.pixel[p] = mem[c].data.pixel[p]
    BY <1>1, <1>2 DEF TasksFollow, Follows
  <2> QED BY <2>1, <2>2 DEF Contents
<1>4. k.data = mem[c].data /\ (c \in Q => k.cache = mem[c].data)
      /\ k.pngCacheOutdated = mem[c].pngCacheOutdated
      /\ k.pngFileOutdated = mem[c].pngFileOutdated
  BY <1>1, <1>3 DEF ChunkStates
<1> HIDE DEF i, k
<1>5. \A d \in Chunks : mem'[d] = IF d = c THEN k ELSE mem[d]
  BY <1>1, <1>2
<1>6. \A d \in chunks \cap Q : Coherent(mem'[d], png[d])
  BY <1>1, <1>4, <1>5 DEF Coherent
<1>7. \A d \in Chunks : Shown(d)' = Shown(d)
  BY <1>1, <1>2, <1>4, <1>5 DEF Shown, Converted, Image
<1>8. ShownIn(Q)'
  BY <1>1, <1>2, <1>7 DEF ShownIn, Normal
<1>9. PaintKept(Q)'
  BY <1>1, <1>2, <1>6, <1>8 DEF PaintKept
<1>10. ASSUME NEW d \in Q
       PROVE  Follows(task'[d], mem'[d])
  <2>1. CASE d = c
    <3>1. task'[d].stage = "encoded"
      BY <1>1, <1>2, <2>1 DEF Tasks
    <3> QED BY <1>4, <1>5, <2>1, <3>1 DEF Follows
  <2>2. CASE d # c
    BY <1>1, <1>2, <1>5, <2>2 DEF TasksFollow
  <2> QED BY <2>1, <2>2
<1> QED BY <1>9, <1>10 DEF TasksFollow

(* The callback unlocks a chunk whose cache is its image. *)
LEMMA SendEncodedShows ==
    ASSUME NEW Q \in SUBSET Chunks, PaintInv(Q), \A d \in Q : Quiet(d), NEW c \in Chunks, SendEncoded(c)
    PROVE  PaintKept(Q)' /\ TasksFollow(Q)'
<1> DEFINE k == Unpinned(mem[c])
           m == [mem EXCEPT ![c] = k]
<1>1. /\ Inv /\ MemoryTypes /\ ShownIn(Q) /\ TasksFollow(Q) /\ TaskLocksChunk
      /\ mem \in [Chunks -> ChunkStates] /\ task \in [Chunks -> Tasks]
      /\ mem[c] \in ChunkStates /\ chunks \subseteq Chunks
      /\ \A d \in chunks : pxr[d] = NoFile /\ (d \in Q => Coherent(mem[d], png[d]))
  BY TypeParts DEF PaintInv, Inv, TypeOK
<1>2. /\ task[c].stage = "encoded" /\ task' = [task EXCEPT ![c] = NoTask]
      /\ TryUnloadWorld(players, m) /\ UNCHANGED painted
  BY DEF SendEncoded
<1>3. k \in ChunkStates /\ k.data = mem[c].data /\ k.cache = mem[c].cache
      /\ k.pngFileOutdated = mem[c].pngFileOutdated /\ ~k.pngCacheOutdated
  BY <1>1 DEF Unpinned, ChunkStates
<1>4. c \in Q => mem[c].cache = mem[c].data
  BY <1>1, <1>2 DEF TasksFollow, Follows
<1> HIDE DEF k
<1>5. /\ m \in [Chunks -> ChunkStates]
      /\ \A d \in Chunks : m[d] = IF d = c THEN k ELSE mem[d]
  BY <1>1, <1>3
<1> HIDE DEF m
<1>6. \A d \in chunks \cap Q : m[d].data = mem[d].data /\ Coherent(m[d], png[d])
  BY <1>1, <1>3, <1>4, <1>5 DEF Coherent
<1>7. PaintKept(Q)'
  <2>1. CASE players = {}
    <3>1. Unload(UnlockedIn(m), m) /\ UnlockedIn(m) \in SUBSET chunks
      BY <1>2, <2>1 DEF TryUnloadWorld, UnlockedIn
    <3> QED BY <1>2, <1>5, <1>6, <3>1, UnloadShows
  <2>2. CASE players # {}
    <3>1. mem' = m /\ UNCHANGED <<chunks, png, pxr, painted>>
      BY <1>2, <2>2 DEF TryUnloadWorld, files
    <3>2. \A d \in Q : Shown(d)' = Shown(d)
      BY <1>6, <3>1 DEF Shown, Converted, Image
    <3>3. ShownIn(Q)'
      BY <1>1, <3>1, <3>2 DEF ShownIn, Normal
    <3> QED BY <1>1, <1>6, <3>1, <3>3 DEF PaintKept
  <2> QED BY <2>1, <2>2
<1>8. \A d \in ongoing \ {c} : mem'[d] = mem[d]
  <2>1. \A d \in ongoing \ {c} : d \in Chunks /\ d \in chunks /\ ~m[d].canUnload /\ m[d] = mem[d]
    BY <1>1, <1>5 DEF TaskLocksChunk, Inv, TypeOK
  <2> QED BY <1>2, <1>5, <2>1 DEF TryUnloadWorld, Unload, UnlockedIn
<1>9. ASSUME NEW d \in Q
      PROVE  Follows(task'[d], mem'[d])
  <2>1. CASE d = c
    <3>1. task'[d].stage = "none"
      BY <1>1, <1>2, <2>1 DEF NoTask
    <3> QED BY <3>1 DEF Follows
  <2>2. CASE d # c /\ d \in ongoing
    BY <1>1, <1>2, <1>8, <2>2 DEF TasksFollow
  <2>3. CASE d # c /\ d \notin ongoing
    <3>1. task'[d].stage = "none"
      BY <1>1, <1>2, <2>3 DEF TaskLocksChunk, Tasks
    <3> QED BY <3>1 DEF Follows
  <2> QED BY <2>1, <2>2, <2>3
<1> QED BY <1>7, <1>9 DEF TasksFollow

-----------------------------------------------------------------------------
(* No step loses paint of quiet chunks. *)
LEMMA PaintNext ==
    ASSUME NEW Q \in SUBSET Chunks, PaintInv(Q), [Next /\ \A c \in Q : Quiet(c)]_vars
    PROVE  PaintInv(Q)'
<1>1. Inv'
  BY NextInv DEF PaintInv
<1>2. MayFail("load") \subseteq BOOLEAN /\ MayFail("view") \subseteq BOOLEAN
  BY DEF MayFail
<1>3. Inv /\ MemoryTypes /\ mem \in [Chunks -> ChunkStates]
      /\ \A d \in chunks \cap Q : mem[d].data = mem[d].data /\ Coherent(mem[d], png[d])
  BY TypeParts DEF PaintInv, Inv, TypeOK
<1>4. ASSUME UNCHANGED <<memory, files, task, ongoing, painted>>
      PROVE  PaintKept(Q)' /\ TasksFollow(Q)'
  <2>1. \A d \in Chunks : Shown(d)' = Shown(d)
    BY <1>4 DEF Shown, Converted, Image, memory, files
  <2>2. ShownIn(Q)'
    BY <1>4, <2>1 DEF PaintInv, ShownIn, Normal
  <2> QED BY <1>4, <2>2, FollowsKept DEF PaintInv, PaintKept, memory, files
<1>5. ASSUME NEW S \in SUBSET Unlocked, Unload(S, mem),
             UNCHANGED <<task, ongoing, painted>>
      PROVE  PaintKept(Q)' /\ TasksFollow(Q)'
  <2>1. S \in SUBSET chunks
    BY DEF Unlocked, UnlockedIn
  <2>2. PaintKept(Q)'
    BY <1>3, <1>5, <2>1, UnloadShows
  <2> QED BY <1>3, <1>5, <2>2, UnloadCaches, FollowsKept
<1>7. PaintKept(Q)' /\ TasksFollow(Q)'
  <2> DEFINE Quieted == \A c \in Q : Quiet(c)
  <2>1. CASE \E p \in Players : PlayerJoined(p)
    BY <1>4, <2>1 DEF PlayerJoined
  <2>2. CASE \E p \in Players : PlayerLeft(p)
    <3>1. PICK p \in Players : PlayerLeft(p)
      BY <2>2
    <3>2. Unlocked = UnlockedIn(mem) /\ Unlocked \in SUBSET Unlocked
      BY DEF Unlocked
    <3>3. \/ Unload(UnlockedIn(mem), mem) /\ UNCHANGED <<task, ongoing, painted>>
          \/ UNCHANGED <<memory, files, task, ongoing, painted>>
      BY <3>1, Zenon DEF PlayerLeft, TryUnloadWorld, memory
    <3> QED BY <1>4, <1>5, <3>2, <3>3
  <2>3. CASE Quieted /\ \E p \in Players, c \in Chunks, px \in Pixels, v \in Colors,
                         fails \in MayFail("load") : Paint(p, c, px, v, fails)
    BY <1>2, <2>3, EditShows
  <2>4. CASE Quieted /\ \E c \in Chunks, on \in BOOLEAN, fails \in MayFail("load") :
                         SetAreaProtection(c, on, fails)
    BY <1>2, <2>4, EditShows
  <2>5. CASE Quieted /\ \E r \in Requests, viewFails \in MayFail("view"),
                         loadFails \in MayFail("load") :
                            SendChunk(r, viewFails, loadFails)
    BY <1>2, <2>5, SendShows
  <2>6. CASE \E r \in Requests : CancelRequest(r)
    BY <1>4, <2>6 DEF CancelRequest
  <2>7. CASE \E c \in Chunks, p \in Pixels : EncodePixel(c, p)
    BY <2>7, EncodePixelShows
  <2>8. CASE Quieted /\ \E c \in Chunks : EncodeEnd(c) \/ SendEncoded(c)
    BY <2>8, EncodeEndShows, SendEncodedShows
  <2>9. CASE \E S \in SUBSET Unlocked : UnloadOldChunks(S)
    BY <1>5, <2>9 DEF UnloadOldChunks
  <2>10. CASE Quieted /\ SaveAll
    <3>1. PaintKept(Q)' /\ UNCHANGED <<task, ongoing>>
      BY <2>10, SaveShows DEF SaveAll
    <3>2. \A c \in ongoing : mem'[c].cache = mem[c].cache
      <4>1. \A c \in Chunks : Saved(mem[c]).cache = mem[c].cache
        BY <1>3 DEF Saved, ChunkStates
      <4> QED BY <1>3, <2>10, <4>1 DEF SaveAll, Inv, TypeOK
    <3> QED BY <2>10, <3>1, <3>2, FollowsKept DEF Quiet
  <2>11. CASE UNCHANGED vars
    BY <1>4, <2>11 DEF vars, memory, files
  <2> QED BY <2>1, <2>2, <2>3, <2>4, <2>5, <2>6, <2>7, <2>8, <2>9, <2>10, <2>11
          DEF Next
<1> QED BY <1>1, <1>7 DEF PaintInv, PaintKept

(* The world starts with the image of every chunk as it is in its file. *)
LEMMA InitPaintInv ==
    ASSUME NEW Q \in SUBSET Chunks, Init
    PROVE  PaintInv(Q)
<1>1. /\ chunks = {} /\ task = [d \in Chunks |-> NoTask]
      /\ painted = [d \in Chunks |-> Normal(Shown(d))]
  BY DEF Init
<1>2. ShownIn(Q)
  BY <1>1 DEF ShownIn
<1>3. TasksFollow(Q)
  BY <1>1 DEF TasksFollow, Follows, NoTask
<1> QED BY <1>1, <1>2, <1>3, InitInv DEF PaintInv

(* While its chunks are quiet, PaintInv holds always. *)
LEMMA QuietPaintInv == QuietSpec => []PaintInv(Chunks)
<1>1. PaintInv(Chunks) /\ [Next /\ \A c \in Chunks : Quiet(c)]_vars => PaintInv(Chunks)'
  BY PaintNext
<1>2. Init => PaintInv(Chunks)
  BY InitPaintInv
<1> QED BY <1>1, <1>2, PTL DEF QuietSpec

(* There are two ways to lose a pixel or a protection: to take a file that *)
(* does not open for none, and to change a chunk while a worker encodes    *)
(* it. No other interleaving of painting, protecting, encoding, unloading, *)
(* saving, converting and reading images back does.                        *)
THEOREM PaintIsNotLost == QuietSpec => []NoLostPaint
<1>1. PaintInv(Chunks) => NoLostPaint
  BY DEF PaintInv, ShownIn, NoLostPaint
<1> QED BY <1>1, QuietPaintInv, PTL

(* They are also the ways to a cache that is not marked outdated and is    *)
(* not the image in memory: save would copy it to the file.                *)
THEOREM CachesAreCoherent == QuietSpec => []CacheCoherent
<1>1. PaintInv(Chunks) => CacheCoherent
  BY DEF PaintInv, Coherent, CacheCoherent, Inv, TypeOK
<1> QED BY <1>1, QuietPaintInv, PTL

(* And to a chunk in memory that is not marked as newer than its file but  *)
(* cannot be dropped without a save.                                       *)
THEOREM FilesAreCoherent == QuietSpec => []FileCoherent
<1>1. PaintInv(Chunks) => FileCoherent
  BY DEF PaintInv, Coherent, FileCoherent, Inv, TypeOK
<1> QED BY <1>1, QuietPaintInv, PTL

(* A world where chunk c is quiet, and anything may happen to the others. *)
QuietOnly(c) == Init /\ [][Next /\ Quiet(c)]_vars

(* Each of them harms the chunk it happens to, and no other: whatever      *)
(* files do not open and whatever races there are, a chunk that they spare *)
(* shows all that was painted on it, and its flags are right.              *)
THEOREM HarmIsLocal ==
    ASSUME NEW c \in Chunks
    PROVE  QuietOnly(c) => [](/\ Normal(Shown(c)) = painted[c]
                              /\ c \in chunks => Coherent(mem[c], png[c]))
<1>1. PaintInv({c}) => /\ Normal(Shown(c)) = painted[c]
                       /\ c \in chunks => Coherent(mem[c], png[c])
  BY DEF PaintInv, ShownIn
<1>2. PaintInv({c}) /\ [Next /\ Quiet(c)]_vars => PaintInv({c})'
  <2>1. [Next /\ Quiet(c)]_vars => [Next /\ \A d \in {c} : Quiet(d)]_vars
    OBVIOUS
  <2> QED BY <2>1, PaintNext
<1>3. Init => PaintInv({c})
  BY InitPaintInv
<1> QED BY <1>1, <1>2, <1>3, PTL DEF QuietOnly

-----------------------------------------------------------------------------
(* The refinement of ChunkStore *)

(* What a player sees is in the set of what may be seen, and is the same   *)
(* in the two spellings of no protection.                                  *)
LEMMA LookFacts ==
    ASSUME NEW d \in Contents
    PROVE  /\ Look(d) \in Looks /\ Look(d) # NoFile
           /\ Look(Normal(d)) = Look(d)
<1>1. Look(d) \in Looks
  BY DEF Look, Looks, Contents
<1>2. Look(Normal(d)) = Look(d)
  BY NormalEdit DEF Look, Normal, Contents
<1> QED BY <1>1, <1>2, MarkersAssumption

LookShown == [c \in Chunks |-> Look(Shown(c))]

LookKept == [c \in Chunks |-> Look(Image(Converted(c)))]

LookPainted == [c \in Chunks |-> Look(painted[c])]

(* Players see what was painted. *)
LEMMA ShownLook == PaintInv(Chunks) => LookShown = LookPainted
<1> SUFFICES ASSUME PaintInv(Chunks), NEW c \in Chunks
             PROVE  Look(Shown(c)) = Look(painted[c])
  BY DEF LookShown, LookPainted
<1>1. Shown(c) \in Contents
  BY TypeParts, ShownType DEF PaintInv, Inv
<1> QED BY <1>1, LookFacts DEF PaintInv, ShownIn

(* And so after a step. *)
LEMMA ShownLookNext == PaintInv(Chunks)' => (LookShown = LookPainted)'
BY ShownLook, PTL

(* The files of chunk c hold what they held, or all that is shown, and do  *)
(* not become a cluster again.                                             *)
FileFollows(c) ==
    /\ pxr[c] = NoFile => pxr'[c] = NoFile
    /\ \/ Look(Image(Converted(c)))' = Look(Image(Converted(c)))
       \/ Look(Image(Converted(c)))' = Look(Shown(c))

(* A file that stays shows what it showed. *)
LEMMA SameFile ==
    ASSUME NEW c \in Chunks, Converted(c)' = Converted(c), pxr[c] = NoFile => pxr'[c] = NoFile
    PROVE  FileFollows(c)
BY DEF FileFollows, Look, Image

(* The file of a chunk that is dropped shows all of it. *)
LEMMA DroppedFile ==
    ASSUME NEW c \in chunks, NEW k \in ChunkStates, NEW f \in Files, Coherent(k, f),
           k.data = mem[c].data, pxr'[c] = NoFile, png'[c] = FileLeft(k, f)
    PROVE  FileFollows(c)
<1>1. k.data \in Contents /\ Image(FileLeft(k, f)) \in Contents
  BY FileLeftType, BlankType DEF ChunkStates, Image, Files
<1>2. Look(Image(FileLeft(k, f))) = Look(k.data)
  BY <1>1, DroppedShows, LookFacts
<1>3. Look(Image(Converted(c)))' = Look(Image(FileLeft(k, f)))
  BY DEF Converted, Image, Look
<1>4. Shown(c) = k.data
  BY DEF Shown
<1> QED BY <1>2, <1>3, <1>4 DEF FileFollows

(* Getting a chunk converts its file, and drops others. *)
LEMMA KeepFiles ==
    ASSUME PaintInv(Chunks), NEW c \in Chunks, NEW k \in ChunkStates, Keep(c, k)
    PROVE  \A d \in Chunks : FileFollows(d)
<1>1. /\ MemoryTypes /\ \A d \in chunks : pxr[d] = NoFile /\ Coherent(mem[d], png[d])
  BY TypeParts DEF PaintInv, Inv, MemoryTypes
<1> DEFINE out == Crowded(c)
<1>2. out \subseteq chunks /\ c \notin out
  BY DEF Crowded, Unlocked, UnlockedIn
<1>3. /\ png' = [d \in Chunks |->
                    IF d = c THEN (IF c \in chunks THEN png[c] ELSE Converted(c))
                    ELSE IF d \in out THEN FileLeft(mem[d], png[d]) ELSE png[d]]
      /\ pxr' = IF c \in chunks THEN pxr ELSE [pxr EXCEPT ![c] = NoFile]
  BY Zenon DEF Keep
<1> HIDE DEF out
<1>4. ASSUME NEW d \in Chunks
      PROVE  FileFollows(d)
  <2>1. CASE d = c
    <3>1. Converted(c)' = Converted(c) /\ (pxr[c] = NoFile => pxr'[c] = NoFile)
      BY <1>1, <1>3 DEF Converted, MemoryTypes
    <3> QED BY <2>1, <3>1, SameFile
  <2>2. CASE d # c /\ d \in out
    <3>1. /\ d \in chunks /\ mem[d] \in ChunkStates /\ png[d] \in Files
          /\ pxr'[d] = NoFile /\ png'[d] = FileLeft(mem[d], png[d])
      BY <1>1, <1>2, <1>3, <2>2 DEF MemoryTypes
    <3> QED BY <1>1, <3>1, DroppedFile
  <2>3. CASE d # c /\ d \notin out
    <3>1. Converted(d)' = Converted(d) /\ (pxr[d] = NoFile => pxr'[d] = NoFile)
      BY <1>1, <1>3, <2>3 DEF Converted, MemoryTypes
    <3> QED BY <3>1, SameFile
  <2> QED BY <2>1, <2>2, <2>3
<1> QED BY <1>4

(* Forgetting chunks drops them and leaves the others alone. *)
LEMMA UnloadFiles ==
    ASSUME PaintInv(Chunks), NEW S \in SUBSET chunks, NEW m \in [Chunks -> ChunkStates],
           \A d \in chunks : m[d].data = mem[d].data /\ Coherent(m[d], png[d]),
           Unload(S, m)
    PROVE  \A d \in Chunks : FileFollows(d)
<1>1. MemoryTypes /\ \A d \in chunks : pxr[d] = NoFile
  BY TypeParts DEF PaintInv, Inv, MemoryTypes
<1>2. /\ \A d \in Chunks :
            png'[d] = IF d \in S THEN FileLeft(m[d], png[d]) ELSE png[d]
      /\ pxr' = pxr
  BY DEF Unload
<1>3. ASSUME NEW d \in Chunks
      PROVE  FileFollows(d)
  <2>1. CASE d \in S
    <3>1. /\ d \in chunks /\ m[d] \in ChunkStates /\ png[d] \in Files
          /\ pxr'[d] = NoFile /\ png'[d] = FileLeft(m[d], png[d])
      BY <1>1, <1>2, <2>1 DEF MemoryTypes
    <3> QED BY <3>1, DroppedFile
  <2>2. CASE d \notin S
    <3>1. Converted(d)' = Converted(d) /\ pxr'[d] = pxr[d]
      BY <1>2, <2>2 DEF Converted
    <3> QED BY <3>1, SameFile
  <2> QED BY <2>1, <2>2
<1> QED BY <1>3

(* Saving writes all that is shown. *)
LEMMA SaveFiles ==
    ASSUME PaintInv(Chunks), SaveAll
    PROVE  \A d \in Chunks : FileFollows(d)
<1>1. /\ MemoryTypes /\ \A d \in chunks : pxr[d] = NoFile /\ Coherent(mem[d], png[d])
  BY TypeParts DEF PaintInv, Inv, MemoryTypes
<1>2. /\ \A d \in Chunks :
            png'[d] = IF d \in chunks THEN SavedFile(mem[d], png[d]) ELSE png[d]
      /\ pxr' = pxr
  BY DEF SaveAll
<1>3. ASSUME NEW d \in Chunks
      PROVE  FileFollows(d)
  <2>1. CASE d \in chunks
    <3>1. Image(SavedFile(mem[d], png[d])) = mem[d].data
      BY <1>1, <2>1, SavedShows DEF MemoryTypes
    <3>2. Image(Converted(d))' = Image(SavedFile(mem[d], png[d]))
      BY <1>1, <1>2, <2>1 DEF Converted, Image
    <3>3. Shown(d) = mem[d].data
      BY <2>1 DEF Shown
    <3> QED BY <1>2, <3>1, <3>2, <3>3 DEF FileFollows, Look
  <2>2. CASE d \notin chunks
    <3>1. Converted(d)' = Converted(d) /\ pxr'[d] = pxr[d]
      BY <1>2, <2>2 DEF Converted
    <3> QED BY <3>1, SameFile
  <2> QED BY <2>1, <2>2
<1> QED BY <1>3

(* No step brings an older image into a file. *)
LEMMA NextFiles ==
    ASSUME PaintInv(Chunks), [Next]_vars
    PROVE  \A d \in Chunks : FileFollows(d)
<1>1. MayFail("load") \subseteq BOOLEAN
  BY DEF MayFail
<1>2. /\ Inv /\ MemoryTypes /\ mem \in [Chunks -> ChunkStates]
      /\ \A d \in chunks : Coherent(mem[d], png[d])
      /\ TasksFollow(Chunks)
  BY TypeParts DEF PaintInv, Inv, TypeOK
<1>3. ASSUME UNCHANGED files
      PROVE  \A d \in Chunks : FileFollows(d)
  <2>1. \A d \in Chunks : Converted(d)' = Converted(d) /\ pxr'[d] = pxr[d]
    BY <1>3 DEF files, Converted
  <2> QED BY <2>1, SameFile
<1>4. ASSUME NEW S \in SUBSET Unlocked, Unload(S, mem)
      PROVE  \A d \in Chunks : FileFollows(d)
  <2>1. S \in SUBSET chunks
    BY DEF Unlocked, UnlockedIn
  <2> QED BY <1>2, <1>4, <2>1, UnloadFiles
<1>5. ASSUME NEW c \in Chunks, NEW k, k \in ChunkStates, Keep(c, k)
      PROVE  \A d \in Chunks : FileFollows(d)
  BY <1>5, KeepFiles
<1>6. ASSUME NEW c \in Chunks, NEW fails \in BOOLEAN
      PROVE  /\ Found(c, fails) \in ChunkStates
             /\ Found(c, fails).data \in Contents
  BY <1>2, FoundType DEF ChunkStates
<1>7. CASE \E p \in Players : PlayerJoined(p)
  BY <1>3, <1>7 DEF PlayerJoined
<1>8. CASE \E p \in Players : PlayerLeft(p)
  <2>1. Unlocked = UnlockedIn(mem) /\ Unlocked \in SUBSET Unlocked
    BY DEF Unlocked
  <2>2. Unload(UnlockedIn(mem), mem) \/ UNCHANGED files
    BY <1>8, Zenon DEF PlayerLeft, TryUnloadWorld
  <2> QED BY <1>3, <1>4, <2>1, <2>2
<1>9. ASSUME NEW c \in Chunks, NEW fails \in BOOLEAN,
             \/ \E p \in Players, px \in Pixels, v \in Colors : Paint(p, c, px, v, fails)
             \/ \E on \in BOOLEAN : SetAreaProtection(c, on, fails)
      PROVE  \A d \in Chunks : FileFollows(d)
  <2>1. \E k \in ChunkStates : Keep(c, k)
    BY <1>2, <1>9, EditCaches
  <2> QED BY <1>5, <2>1
<1>10. CASE \/ \E p \in Players, c \in Chunks, px \in Pixels, v \in Colors,
                  fails \in MayFail("load") : Paint(p, c, px, v, fails)
            \/ \E c \in Chunks, on \in BOOLEAN, fails \in MayFail("load") :
                  SetAreaProtection(c, on, fails)
  BY <1>1, <1>9, <1>10
<1>11. CASE \E r \in Requests, viewFails \in MayFail("view"),
               loadFails \in MayFail("load") : SendChunk(r, viewFails, loadFails)
  <2>1. PICK r \in Requests, viewFails \in MayFail("view"), fails \in MayFail("load") :
           SendChunk(r, viewFails, fails)
    BY <1>11
  <2> DEFINE c == request[r].chunk
             k == Found(c, fails)
  <2>2. c \in Chunks /\ fails \in BOOLEAN
    BY <1>1, <1>2 DEF Inv, TypeOK, RequestStates
  <2>3. \/ UNCHANGED files
        \/ Keep(c, k)
        \/ Keep(c, [k EXCEPT !.canUnload = FALSE])
    BY <2>1, Zenon DEF SendChunk, SendFromMemory
  <2>4. k \in ChunkStates /\ [k EXCEPT !.canUnload = FALSE] \in ChunkStates
    BY <1>6, <2>2, LockedType
  <2> QED BY <1>3, <1>5, <2>2, <2>3, <2>4
<1>12. CASE \E r \in Requests : CancelRequest(r)
  BY <1>3, <1>12 DEF CancelRequest
<1>13. CASE \E c \in Chunks : (\E p \in Pixels : EncodePixel(c, p)) \/ EncodeEnd(c)
  BY <1>3, <1>13 DEF EncodePixel, EncodeEnd
<1>14. CASE \E c \in Chunks : SendEncoded(c)
  <2>1. PICK c \in Chunks : SendEncoded(c)
    BY <1>14
  <2> DEFINE m == [mem EXCEPT ![c] = Unpinned(mem[c])]
  <2>2. Unload(UnlockedIn(m), m) \/ UNCHANGED files
    BY <2>1, Zenon DEF SendEncoded, TryUnloadWorld
  <2>3. /\ Unpinned(mem[c]) \in ChunkStates
        /\ Unpinned(mem[c]).data = mem[c].data
        /\ Coherent(mem[c], png[c]) => Coherent(Unpinned(mem[c]), png[c])
    <3>1. mem[c] \in ChunkStates /\ mem[c].cache = mem[c].data
      BY <1>2, <2>1 DEF TasksFollow, Follows, SendEncoded
    <3> QED BY <3>1 DEF Unpinned, ChunkStates, Coherent
  <2>4. /\ m \in [Chunks -> ChunkStates]
        /\ \A d \in chunks : m[d].data = mem[d].data /\ Coherent(m[d], png[d])
    BY <1>2, <2>3 DEF MemoryTypes
  <2>5. UnlockedIn(m) \in SUBSET chunks
    BY DEF UnlockedIn
  <2> HIDE DEF m
  <2> QED BY <1>3, <2>2, <2>4, <2>5, UnloadFiles
<1>15. CASE \E S \in SUBSET Unlocked : UnloadOldChunks(S)
  BY <1>4, <1>15 DEF UnloadOldChunks
<1>16. CASE SaveAll
  BY <1>16, SaveFiles
<1>17. CASE UNCHANGED vars
  BY <1>3, <1>17 DEF vars, files
<1> QED BY <1>7, <1>8, <1>10, <1>11, <1>12, <1>13, <1>14, <1>15, <1>16, <1>17
        DEF Next

(* What a step may make of what was painted, in the words of ChunkStore. *)
LookUse ==
    \/ LookPainted' = LookPainted
    \/ \E c \in Chunks, i \in [Pixels -> Colors] :
          /\ ~LookPainted[c].protected /\ pxr'[c] = NoFile
          /\ LookPainted' = [LookPainted EXCEPT ![c].image = i]
    \/ \E c \in Chunks, on \in BOOLEAN :
          /\ pxr'[c] = NoFile
          /\ LookPainted' = [LookPainted EXCEPT ![c].protected = on]

(* Only players make anything of it. *)
LEMMA NextLook ==
    ASSUME PaintInv(Chunks), [Next /\ \A c \in Chunks : Quiet(c)]_vars
    PROVE  LookUse
<1>1. MayFail("load") \subseteq BOOLEAN
  BY DEF MayFail
<1>2. painted \in [Chunks -> Contents]
  BY DEF PaintInv, Inv, TypeOK
<1>3. CASE UNCHANGED painted
  BY <1>3 DEF LookUse, LookPainted, Look
<1>0. ASSUME NEW c \in Chunks, NEW k, Keep(c, k) PROVE pxr'[c] = NoFile
  BY <1>0 DEF Keep, PaintInv, Inv, TypeOK
<1>4. ASSUME NEW p \in Players, NEW c \in Chunks, NEW px \in Pixels, NEW v \in Colors,
             NEW fails \in BOOLEAN, Paint(p, c, px, v, fails), Quiet(c)
      PROVE  LookUse
  <2> DEFINE d == Found(c, fails).data
             i == [painted[c].pixel EXCEPT ![px] = v]
  <2>1. painted' = IF d.prot # "one" THEN [painted EXCEPT ![c].pixel[px] = v] ELSE painted
    BY <1>4 DEF Paint
  <2>2. d \in Contents /\ Normal(d) = painted[c]
    <3>1. \E k \in ChunkStates : Keep(c, k) /\ k.cache = Found(c, fails).cache
      BY <1>4, EditCaches DEF PaintInv
    <3>2. Loaded(c, fails)
      BY <1>4, <3>1, QuietLoads DEF PaintInv
    <3> QED BY <3>2, FoundShows DEF ChunkStates
  <2>3. Look(d) = Look(painted[c])
    BY <2>2, LookFacts
  <2> HIDE DEF d
  <2>4. CASE d.prot # "one"
    <3>1. ~LookPainted[c].protected
      BY <2>3, <2>4 DEF LookPainted, Look
    <3>2. i \in [Pixels -> Colors]
      BY <1>2 DEF Contents
    <3>3. painted' = [painted EXCEPT ![c].pixel = i]
      BY <1>2, <2>1, <2>4 DEF Contents
    <3> HIDE DEF i
    <3>4. LookPainted' = [LookPainted EXCEPT ![c].image = i]
      <4>1. \A e \in Chunks : painted'[e] = IF e = c THEN [painted[c] EXCEPT !.pixel = i]
                                                     ELSE painted[e]
        BY <1>2, <3>3
      <4>2. Look([painted[c] EXCEPT !.pixel = i]) = [Look(painted[c]) EXCEPT !.image = i]
        BY <1>2 DEF Look, Contents
      <4>3. \A e \in Chunks : Look(painted'[e]) = IF e = c THEN [Look(painted[c]) EXCEPT !.image = i]
                                                           ELSE Look(painted[e])
        BY <4>1, <4>2
      <4> QED BY <4>3, Zenon DEF LookPainted
    <3>5. pxr'[c] = NoFile
      BY <1>0, <1>4 DEF Paint
    <3> QED BY <3>1, <3>2, <3>4, <3>5 DEF LookUse
  <2> QED BY <1>3, <2>1, <2>4
<1>5. ASSUME NEW c \in Chunks, NEW on \in BOOLEAN, NEW fails \in BOOLEAN,
             SetAreaProtection(c, on, fails)
      PROVE  LookUse
  <2> DEFINE q == [painted[c] EXCEPT !.prot = IF on THEN "one" ELSE "absent"]
  <2>1. \A e \in Chunks : painted'[e] = IF e = c THEN q ELSE painted[e]
    BY <1>2, <1>5 DEF SetAreaProtection
  <2>2. Look(q) = [Look(painted[c]) EXCEPT !.protected = on]
    <3>1. q.pixel = painted[c].pixel /\ q.prot = IF on THEN "one" ELSE "absent"
      BY <1>2 DEF Contents
    <3> HIDE DEF q
    <3>2. (q.prot = "one") = on
      <4>1. CASE on
        BY <3>1, <4>1
      <4>2. CASE ~on
        BY <3>1, <4>2
      <4> QED BY <4>1, <4>2
    <3>3. Look(q) = [image |-> painted[c].pixel, protected |-> on]
      BY <3>1, <3>2, Zenon DEF Look
    <3> QED BY <3>3 DEF Look
  <2> HIDE DEF q
  <2>3. \A e \in Chunks : Look(painted'[e]) = IF e = c THEN [Look(painted[c]) EXCEPT !.protected = on]
                                                       ELSE Look(painted[e])
    BY <2>1, <2>2
  <2>4. LookPainted' = [LookPainted EXCEPT ![c].protected = on]
    BY <2>3, Zenon DEF LookPainted
  <2>5. pxr'[c] = NoFile
    BY <1>0, <1>5 DEF SetAreaProtection
  <2> QED BY <2>4, <2>5 DEF LookUse
<1>6. CASE (\A c \in Chunks : Quiet(c)) /\ \E p \in Players, c \in Chunks, px \in Pixels, v \in Colors,
              fails \in MayFail("load") : Paint(p, c, px, v, fails)
  BY <1>1, <1>4, <1>6
<1>7. CASE \E c \in Chunks, on \in BOOLEAN, fails \in MayFail("load") :
              SetAreaProtection(c, on, fails)
  BY <1>1, <1>5, <1>7
<1>8. CASE \E p \in Players : PlayerJoined(p) \/ PlayerLeft(p)
  BY <1>3, <1>8 DEF PlayerJoined, PlayerLeft
<1>9. CASE \E r \in Requests, viewFails \in MayFail("view"), loadFails \in MayFail("load") :
              SendChunk(r, viewFails, loadFails)
  BY <1>3, <1>9 DEF SendChunk
<1>10. CASE \E r \in Requests : CancelRequest(r)
  BY <1>3, <1>10 DEF CancelRequest
<1>11. CASE \E c \in Chunks, p \in Pixels : EncodePixel(c, p)
  BY <1>3, <1>11 DEF EncodePixel
<1>12. CASE \E c \in Chunks : EncodeEnd(c) \/ SendEncoded(c)
  <2>1. \A c \in Chunks : EncodeEnd(c) => UNCHANGED painted
    BY DEF EncodeEnd
  <2>2. \A c \in Chunks : SendEncoded(c) => UNCHANGED painted
    BY Zenon DEF SendEncoded
  <2> QED BY <1>3, <1>12, <2>1, <2>2
<1>13. CASE SaveAll \/ \E S \in SUBSET Unlocked : UnloadOldChunks(S)
  BY <1>3, <1>13 DEF SaveAll, UnloadOldChunks
<1>14. CASE UNCHANGED vars
  BY <1>3, <1>14 DEF vars
<1> QED BY <1>6, <1>7, <1>8, <1>9, <1>10, <1>11, <1>12, <1>13, <1>14 DEF Next

(* A step that makes of what is painted what the store allows, and follows *)
(* it in the files, is a step of the store.                                *)
LEMMA LookIsStore ==
    ASSUME PaintInv(Chunks), PaintInv(Chunks)', LookUse, \A c \in Chunks : FileFollows(c)
    PROVE  Store!Use
<1> DEFINE S == {c \in Chunks : LookKept'[c] = LookShown[c]}
<1>1. LookShown = LookPainted /\ LookShown' = LookPainted'
  BY ShownLook, ShownLookNext
<1>2. LookKept' = [c \in Chunks |-> IF c \in S THEN LookShown[c] ELSE LookKept[c]]
  BY DEF FileFollows, LookKept, LookShown
<1>3. S \in SUBSET Chunks
  OBVIOUS
<1>4. \A c \in Chunks : LookShown[c] # NoFile
  BY <1>1, LookFacts DEF LookPainted, PaintInv, Inv, TypeOK
<1> HIDE DEF S
<1>9. \A c \in Chunks : pxr'[c] = NoFile => c \in Chunks \ OldClusters'
  BY DEF OldClusters
<1>5. Store!Update(S)
  BY <1>2 DEF Store!Update, LookKept, LookShown
<1>6. CASE LookPainted' = LookPainted
  <2>1. Store!Save(S)
    BY <1>1, <1>5, <1>6 DEF Store!Save, LookShown
  <2> QED BY <1>3, <2>1 DEF Store!Use
<1>7. ASSUME NEW c \in Chunks, NEW i \in [Pixels -> Colors], ~LookPainted[c].protected,
             pxr'[c] = NoFile, LookPainted' = [LookPainted EXCEPT ![c].image = i]
      PROVE  Store!Paint(c, i, S)
  BY <1>1, <1>4, <1>5, <1>7 DEF Store!Paint, LookShown
<1>8. ASSUME NEW c \in Chunks, NEW on \in BOOLEAN, pxr'[c] = NoFile,
             LookPainted' = [LookPainted EXCEPT ![c].protected = on]
      PROVE  Store!Protect(c, on, S)
  BY <1>1, <1>4, <1>5, <1>8 DEF Store!Protect, LookShown
<1> QED BY <1>3, <1>6, <1>7, <1>8, <1>9, Zenon DEF LookUse, Store!Use

(* While its chunks are quiet, a world is a store of whole chunks. *)
THEOREM WorldIsStore == QuietSpec => ImplementsStore
<1>1. Init => Store!StoreInit
  <2> SUFFICES ASSUME Init PROVE Store!StoreInit
    OBVIOUS
  <2>1. chunks = {} /\ PaintInv(Chunks)
    BY InitPaintInv DEF Init
  <2>2. LookShown = LookKept
    BY <2>1 DEF LookShown, LookKept, Shown
  <2>3. LookShown \in [Chunks -> Looks]
    BY <2>1, ShownLook, LookFacts DEF LookPainted, PaintInv, Inv, TypeOK
  <2>4. OldClusters \in SUBSET Chunks
    BY DEF OldClusters
  <2> QED BY <2>2, <2>3, <2>4
          DEF Store!StoreInit, Store!Contents, Looks, LookShown, LookKept
<1>2. PaintInv(Chunks) /\ PaintInv(Chunks)' /\ [Next /\ \A c \in Chunks : Quiet(c)]_vars
          => [Store!Use /\ Store!Renewed]_(Store!storeVars)
  <2> SUFFICES ASSUME PaintInv(Chunks), PaintInv(Chunks)',
                      [Next /\ \A c \in Chunks : Quiet(c)]_vars
               PROVE  Store!Use /\ Store!Renewed
    OBVIOUS
  <2>1. \A c \in Chunks : FileFollows(c)
    BY NextFiles
  <2>2. Store!Renewed
    BY <2>1 DEF FileFollows, Store!Renewed, OldClusters
  <2> QED BY <2>1, <2>2, NextLook, LookIsStore
<1> QED
  BY <1>1, <1>2, QuietPaintInv, PTL DEF QuietSpec, ImplementsStore, Store!UseSpec

-----------------------------------------------------------------------------
(* A file that opens is read as it is. *)
LEMMA OpenLoads ==
    ASSUME "load" \notin OpenFailures, Inv, [Next]_vars, NEW c \in Chunks,
           c \in chunks' \ chunks
    PROVE  mem'[c].cache = Image(Converted(c))
<1>1. MayFail("load") = {FALSE} /\ MemoryTypes
  BY TypeParts DEF MayFail, Inv
<1>2. ASSUME NEW d \in Chunks, NEW k \in ChunkStates, Keep(d, k),
             k.cache = Found(d, FALSE).cache
      PROVE  mem'[c].cache = Image(Converted(c))
  <2>1. mem'[d] = k /\ chunks' \subseteq chunks \cup {d}
    BY <1>1, <1>2, KeepFacts
  <2>2. c = d
    BY <2>1
  <2>3. Found(c, FALSE).cache = Image(Converted(c))
    BY DEF Found, Constructed, Image
  <2> QED BY <1>2, <2>1, <2>2, <2>3
<1>3. ASSUME NEW d \in Chunks,
             \/ \E p \in Players, px \in Pixels, v \in Colors : Paint(p, d, px, v, FALSE)
             \/ \E on \in BOOLEAN : SetAreaProtection(d, on, FALSE)
      PROVE  mem'[c].cache = Image(Converted(c))
  <2>1. PICK k \in ChunkStates : Keep(d, k) /\ k.cache = Found(d, FALSE).cache
    BY <1>3, EditCaches
  <2> QED BY <1>2, <2>1
<1>4. CASE \/ \E p \in Players, d \in Chunks, px \in Pixels, v \in Colors,
                 fails \in MayFail("load") : Paint(p, d, px, v, fails)
           \/ \E d \in Chunks, on \in BOOLEAN, fails \in MayFail("load") :
                 SetAreaProtection(d, on, fails)
  BY <1>1, <1>3, <1>4
<1>5. CASE \E r \in Requests, viewFails \in MayFail("view"),
              loadFails \in MayFail("load") : SendChunk(r, viewFails, loadFails)
  <2>1. PICK r \in Requests, viewFails \in MayFail("view") : SendChunk(r, viewFails, FALSE)
    BY <1>1, <1>5
  <2> DEFINE d == request[r].chunk
             k == Found(d, FALSE)
             locked == [k EXCEPT !.canUnload = FALSE]
  <2>2. d \in Chunks
    BY DEF Inv, TypeOK, RequestStates
  <2>3. k \in ChunkStates
    BY <1>1, <2>2, FoundType
  <2>4. locked \in ChunkStates /\ locked.cache = k.cache
    BY <2>3, LockedType DEF ChunkStates
  <2>5. Keep(d, k) \/ Keep(d, locked) \/ UNCHANGED chunks
    BY <2>1, Zenon DEF SendChunk, SendFromMemory, memory
  <2> HIDE DEF d, locked
  <2> QED BY <1>2, <2>2, <2>3, <2>4, <2>5
<1> QED BY <1>4, <1>5 DEF Next, PlayerJoined, PlayerLeft, TryUnloadWorld, Unload, memory,
        CancelRequest, EncodePixel, EncodeEnd, SendEncoded, UnloadOldChunks, SaveAll, vars

(* A world whose files always open: an image comes from a file or from a   *)
(* cache that was just read from one, and nothing is given to a worker.    *)
LEMMA IdleNext ==
    ASSUME OpenFailures = {}, PaintInv(Chunks), ongoing = {}, [Next]_vars
    PROVE  ongoing' = {}
<1>1. MayFail("load") = {FALSE} /\ MayFail("view") = {FALSE}
  BY DEF MayFail
<1>2. \A d \in Chunks : task[d].stage = "none"
  BY DEF PaintInv, Inv, TaskLocksChunk
<1>3. ASSUME NEW r \in Requests, SendChunk(r, FALSE, FALSE)
      PROVE  ongoing' = ongoing
  <2> DEFINE c == request[r].chunk
  <2>1. CASE pxr[c] # NoFile /\ SendFromMemory(r, c, FALSE)
    <3>1. c \notin chunks
      BY <2>1 DEF PaintInv
    <3>2. ~Found(c, FALSE).pngCacheOutdated
      BY <2>1, <3>1 DEF Found, Converted, Constructed
    <3> QED BY <2>1, <3>2 DEF SendFromMemory
  <2> QED BY <1>3, <2>1 DEF SendChunk, OnDisk
<1>4. CASE \E r \in Requests, viewFails \in MayFail("view"),
              loadFails \in MayFail("load") : SendChunk(r, viewFails, loadFails)
  BY <1>1, <1>3, <1>4
<1>5. CASE \E c \in Chunks : (\E p \in Pixels : EncodePixel(c, p))
                             \/ EncodeEnd(c) \/ SendEncoded(c)
  BY <1>2, <1>5 DEF EncodePixel, EncodeEnd, SendEncoded
<1> QED BY <1>4, <1>5 DEF Next, PlayerJoined, PlayerLeft, Paint, SetAreaProtection,
        CancelRequest, UnloadOldChunks, SaveAll, vars

(* A world whose files always open is quiet: no request ever races with a  *)
(* painter, and the theorems above hold of it.                             *)
THEOREM OpenFilesAreQuiet ==
    ASSUME OpenFailures = {}
    PROVE  Spec => QuietSpec
<1>1. PaintInv(Chunks) /\ ongoing = {} /\ [Next]_vars
          => [Next /\ \A c \in Chunks : Quiet(c)]_vars
  BY OpenLoads DEF Quiet, PaintInv
<1>2. PaintInv(Chunks) /\ ongoing = {} /\ [Next]_vars => (PaintInv(Chunks) /\ ongoing = {})'
  BY <1>1, PaintNext, IdleNext
<1>3. Init => PaintInv(Chunks) /\ ongoing = {}
  BY InitPaintInv DEF Init
<1> QED BY <1>1, <1>2, <1>3, PTL DEF Spec, QuietSpec
=============================================================================

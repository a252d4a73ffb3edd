---------------------------- MODULE WorldStorage ----------------------------
(***************************************************************************)
(* The files of one world, one file operation at a time, in a process that *)
(* may be killed between any two of them and in which a file may not open, *)
(* be written or be removed, nor the directory be listed.  A file that     *)
(* opens is read to its end.                                               *)
(*                                                                         *)
(* A chunk has an image file (r.x.y.png).  A world of an older server also *)
(* has cluster files (r.x.y.pxr), here of the size of a chunk, which are   *)
(* converted to images when their chunk is first needed (or, by            *)
(* convertNext, before), and the file pchunks.bin with the protections of  *)
(* the clusters yet to be converted.                                       *)
(* World models the same chunks with files that are written at once; here  *)
(* a file is truncated, then written, and what memory adds to the files    *)
(* (the pixels painted, the clusters and protections left) is lost with    *)
(* the process.                                                            *)
(***************************************************************************)
EXTENDS FiniteSets

CONSTANTS
    Chunks,   \* positions of chunks
    Images,   \* what players may make of the pixels of a chunk
    Bg,       \* the image of an empty chunk
    Torn,     \* what is left in a file that was not written out
    NoFile,   \* there is no such file
    NoChunk,  \* no chunk: not in memory, or not being written
    Lost      \* a content nobody can rely on any more

ASSUME ImagesAssumption == Bg \in Images /\ Torn \notin Images

Contents == [image : Images \cup {Torn}, protected : BOOLEAN]

Blank == [image |-> Bg, protected |-> FALSE]

TornFile == [image |-> Torn, protected |-> FALSE]

InMemory == [data : Contents, pngFileOutdated : BOOLEAN]

ASSUME MarkersAssumption ==
    /\ Torn \notin Chunks
    /\ NoFile \notin Contents \cup Images \cup {Torn}
    /\ NoChunk \notin InMemory \cup Chunks
    /\ Lost \notin Contents

VARIABLES
    png,       \* png[c]: the image file of chunk c
    pxr,       \* pxr[c]: the cluster file of chunk c
    pchunks,   \* the entries of pchunks.bin: clusters, and Torn for part of one
    loaded,    \* the process runs and has the world in memory
    remaining, \* remainingOldClusters
    pclust,    \* the keys of pclust: clusters with a protection to convert
    mem,       \* mem[c]: the chunk at c
    op,        \* the operation on files in progress
    painted,   \* history: what players made of c and may rely on to see again
    saved      \* history: what they may rely on after a crash

files == <<png, pxr, pchunks>>
memory == <<loaded, remaining, pclust, mem, op>>
history == <<painted, saved>>
vars == <<files, memory, history>>

(* Conversion (of at, to the content), the chunks left to save or to       *)
(* unload (todo, the file of at being written), with the world at the end  *)
(* if gone, and the destructor of the storage, which writes pchunks.bin.   *)
Operations ==
    [kind : {"none", "read", "removed", "convert", "save", "unload", "protections"},
     at : Chunks \cup {NoChunk}, content : Contents, todo : SUBSET Chunks,
     gone : BOOLEAN]

Idle ==
    [kind |-> "none", at |-> NoChunk, content |-> Blank, todo |-> {}, gone |-> FALSE]

TypeOK ==
    /\ png \in [Chunks -> Contents \cup {NoFile}]
    /\ pxr \in [Chunks -> Images \cup {NoFile}]
    /\ pchunks \in SUBSET (Chunks \cup {Torn})
    /\ loaded \in BOOLEAN
    /\ remaining \in SUBSET Chunks
    /\ pclust \in SUBSET Chunks
    /\ mem \in [Chunks -> InMemory \cup {NoChunk}]
    /\ op \in Operations
    /\ painted \in [Chunks -> Contents \cup {Lost}]
    /\ saved \in [Chunks -> Contents \cup {Lost}]

-----------------------------------------------------------------------------
(* What the files and the memory show of a chunk *)

(* A variant that takes the file for granted. *)
ImageAssumed(f) == f

Image(f) == IF f = NoFile THEN Blank ELSE f

(* The content of a cluster, with the protections in P. *)
Cluster(c, P) == [image |-> pxr[c], protected |-> c \in P]

(* loadProtectionData: a file whose size is not that of whole entries is   *)
(* ignored.                                                                *)
ProtectedOnDisk == IF Torn \in pchunks THEN {} ELSE pchunks

(* What the next load of the world makes of chunk c. *)
OnDisk(c) == IF pxr[c] # NoFile THEN Cluster(c, ProtectedOnDisk) ELSE Image(png[c])

(* The chunk that is being converted, within a callback of the main        *)
(* thread, and what is to become of it.                                    *)
Converting == IF op.kind \in {"read", "removed", "convert"} THEN {op.at} ELSE {}

InConversion == IF op.kind = "read" THEN Cluster(op.at, pclust) ELSE op.content

(* What a player is shown of chunk c and, once the world is on its way out *)
(* of memory, what the files are to show.                                  *)
Shown(c) ==
    IF ~loaded THEN OnDisk(c)
    ELSE IF c \in Converting THEN InConversion
    ELSE IF mem[c] # NoChunk THEN mem[c].data
    ELSE IF c \in remaining \/ (op.gone /\ pxr[c] # NoFile) THEN Cluster(c, pclust)
    ELSE Image(png[c])

Kept == {c \in Chunks : mem[c] # NoChunk}

-----------------------------------------------------------------------------
(* The process *)

OldClusters == {c \in Chunks : pxr[c] # NoFile}

(* Nobody can rely on the chunks in C any more. *)
Lose(C) ==
    /\ painted' = [c \in Chunks |-> IF c \in C THEN Lost ELSE painted[c]]
    /\ saved' = [c \in Chunks |-> IF c \in C THEN Lost ELSE saved[c]]

(* What is left to rely on of a content without its protections. *)
Bare(d) == IF d = Lost THEN Lost ELSE [d EXCEPT !.protected = FALSE]

(* The constructor: pchunks.bin and the names of the cluster files are     *)
(* read.  A pchunks.bin that does not open is taken for none, and the      *)
(* clusters of this process have no protections.  With a directory that    *)
(* is not listed their chunks seem empty, and what is painted on them has  *)
(* no place: the conversion after the next start overwrites it.            *)
Load(unopened, unlisted) ==
    /\ ~loaded
    /\ unopened => pchunks # {}
    /\ loaded' = TRUE
    /\ pclust' = IF unopened THEN {} ELSE ProtectedOnDisk
    /\ remaining' = IF unlisted THEN {} ELSE OldClusters
    /\ \/ unlisted /\ Lose(OldClusters)
       \/ /\ ~unlisted /\ unopened
          /\ painted' = [c \in Chunks |->
                 IF c \in OldClusters THEN Bare(painted[c]) ELSE painted[c]]
          /\ UNCHANGED saved
       \/ ~unlisted /\ ~unopened /\ UNCHANGED history
    /\ UNCHANGED <<files, mem, op>>

(* The chunk whose only copy on disk is not complete. *)
Writing ==
    IF op.kind \in {"removed", "convert", "save", "unload"} THEN {op.at} \ {NoChunk} ELSE {}

(* The memory of the process is gone: the chunk being written is lost, the *)
(* clusters in U, if they are yet to be converted, lose their protections, *)
(* and the others what was not saved.                                      *)
Forget(U) ==
    /\ loaded' = FALSE
    /\ remaining' = {}
    /\ pclust' = {}
    /\ mem' = [c \in Chunks |-> NoChunk]
    /\ op' = Idle
    /\ saved' = [c \in Chunks |->
           IF c \in Writing \/ saved[c] = Lost THEN Lost
           ELSE IF c \in U \cap OldClusters THEN Bare(saved[c]) ELSE saved[c]]
    /\ painted' = saved'

(* The process is killed.  Of pchunks.bin, if it was being written, some   *)
(* entries are there, and maybe a part of one; the same is left by a write *)
(* that fails, which the destructor does not look at.                      *)
Crash ==
    /\ loaded
    /\ \/ /\ op.kind # "protections"
          /\ Forget({})
          /\ UNCHANGED pchunks
       \/ /\ op.kind = "protections"
          /\ \E P \in SUBSET pclust :
                \/ pchunks' = P /\ Forget(pclust \ P)
                \/ pchunks' = P \cup {Torn} /\ Forget(pclust)
    /\ UNCHANGED <<png, pxr>>

(* An exception that leaves the event loop: Server::unsafeStop, and the    *)
(* destructors of the world and its chunks.                                *)
Stop == op' = [Idle EXCEPT !.kind = "unload", !.todo = Kept, !.gone = TRUE]

-----------------------------------------------------------------------------
(* getChunk *)

Constructed(f) == [data |-> Image(f), pngFileOutdated |-> FALSE]

(* A variant that does not look for a cluster to convert first. *)
ReadImageAnyway(c, fails) ==
    /\ loaded /\ op.kind = "none"
    /\ mem[c] = NoChunk
    /\ mem' = [mem EXCEPT ![c] = Constructed(IF fails THEN NoFile ELSE png[c])]
    /\ Lose(IF fails THEN {c} ELSE {})
    /\ UNCHANGED <<files, loaded, remaining, pclust, op>>

(* A chunk that is not to be converted is read from its image file; one    *)
(* that does not open is taken for a chunk without a file.                 *)
ReadImage(c, fails) ==
    /\ loaded /\ op.kind = "none"
    /\ c \notin remaining /\ mem[c] = NoChunk
    /\ fails => png[c] # NoFile
    /\ mem' = [mem EXCEPT ![c] = Constructed(IF fails THEN NoFile ELSE png[c])]
    /\ Lose(IF fails THEN {c} ELSE {})
    /\ UNCHANGED <<files, loaded, remaining, pclust, op>>

(* A variant that forgets to take the cluster off the list. *)
ReadClusterAgain(c, fails) ==
    /\ loaded /\ op.kind = "none"
    /\ c \in remaining /\ mem[c] = NoChunk
    /\ IF fails THEN Stop
       ELSE op' = [Idle EXCEPT !.kind = "read", !.at = c]
    /\ UNCHANGED <<files, loaded, remaining, pclust, mem, history>>

(* maybeConvert: the cluster is taken off the list, then read.  No file    *)
(* throws, at the allocation of a buffer of size -1.                       *)
ReadCluster(c, fails) ==
    /\ loaded /\ op.kind = "none"
    /\ c \in remaining
    /\ remaining' = remaining \ {c}
    /\ IF fails THEN Stop
       ELSE op' = [Idle EXCEPT !.kind = "read", !.at = c]
    /\ UNCHANGED <<files, loaded, pclust, mem, history>>

(* The removal of the cluster file: a failure is only logged. *)
RemoveCluster(fails) ==
    /\ op.kind = "read"
    /\ pxr' = IF fails THEN pxr ELSE [pxr EXCEPT ![op.at] = NoFile]
    /\ Lose(IF fails THEN {op.at} ELSE {})
    /\ op' = [op EXCEPT !.kind = "removed", !.content = Cluster(op.at, pclust)]
    /\ UNCHANGED <<png, pchunks, loaded, remaining, pclust, mem>>

(* A variant that writes the image before it looks for the protections. *)
OpenConvertedBare(fails) ==
    /\ op.kind = "removed"
    /\ IF fails
       THEN Stop /\ Lose({op.at}) /\ UNCHANGED png
       ELSE /\ png' = [png EXCEPT ![op.at] = TornFile]
            /\ op' = [op EXCEPT !.kind = "convert", !.content.protected = FALSE]
            /\ UNCHANGED history
    /\ pclust' = pclust \ {op.at}
    /\ UNCHANGED <<pxr, pchunks, loaded, remaining, mem>>

(* The protections go to the image, which is written. *)
OpenConverted(fails) ==
    /\ op.kind = "removed"
    /\ pclust' = pclust \ {op.at}
    /\ IF fails
       THEN Stop /\ Lose({op.at}) /\ UNCHANGED png
       ELSE /\ png' = [png EXCEPT ![op.at] = TornFile]
            /\ op' = [op EXCEPT !.kind = "convert"]
            /\ UNCHANGED history
    /\ UNCHANGED <<pxr, pchunks, loaded, remaining, mem>>

(* The end of the conversion: getChunk goes on with the constructor of the *)
(* chunk, which reads the image, convertNext does not.  A write that fails *)
(* throws, or goes unnoticed.                                              *)
Converted(next, fails) ==
    /\ op.kind = "convert"
    /\ png' = IF fails THEN png ELSE [png EXCEPT ![op.at] = op.content]
    /\ \/ /\ mem' = IF next THEN mem ELSE [mem EXCEPT ![op.at] = Constructed(png'[op.at])]
          /\ op' = Idle
       \/ fails /\ Stop /\ UNCHANGED mem
    /\ IF fails
       THEN Lose({op.at})
       ELSE saved' = [saved EXCEPT ![op.at] = painted[op.at]] /\ UNCHANGED painted
    /\ UNCHANGED <<pxr, pchunks, loaded, remaining, pclust>>

-----------------------------------------------------------------------------
(* Changes of a chunk in memory *)

Edit(c, d) ==
    /\ loaded /\ op.kind = "none"
    /\ c \in Kept
    /\ mem' = [mem EXCEPT ![c] = [data |-> d, pngFileOutdated |-> TRUE]]
    /\ painted' = [painted EXCEPT ![c] = IF @ = Lost THEN Lost ELSE d]
    /\ UNCHANGED <<files, loaded, remaining, pclust, op, saved>>

(* World::paint, once the chunk is in memory. *)
Paint(c, v) ==
    /\ c \in Kept /\ ~mem[c].data.protected
    /\ mem[c].data.image # v
    /\ Edit(c, [mem[c].data EXCEPT !.image = v])

(* World::setAreaProtection, once the chunk is in memory. *)
SetAreaProtection(c, on) ==
    /\ c \in Kept
    /\ Edit(c, [mem[c].data EXCEPT !.protected = on])

-----------------------------------------------------------------------------
(* Saving and unloading *)

Dirty == {c \in Kept : mem[c].pngFileOutdated}

(* World::save *)
BeginSave ==
    /\ loaded /\ op.kind = "none"
    /\ Dirty # {}
    /\ op' = [Idle EXCEPT !.kind = "save", !.todo = Dirty]
    /\ UNCHANGED <<files, loaded, remaining, pclust, mem, history>>

(* unloadOldChunks of the chunks in S; tryUnloadWorld, or the end of the   *)
(* server, of every chunk and then of the world.                           *)
BeginUnload(S, gone) ==
    /\ loaded /\ op.kind = "none"
    /\ gone => S = Kept
    /\ S # {} \/ gone
    /\ op' = [Idle EXCEPT !.kind = "unload", !.todo = S, !.gone = gone]
    /\ UNCHANGED <<files, loaded, remaining, pclust, mem, history>>

Done(c) == [op EXCEPT !.at = NoChunk, !.todo = @ \ {c}]

(* A chunk that is saved: one that is newer than its file or, in the       *)
(* destructor, has no protections any more (isChunkEmpty marks it).        *)
Saveable(c) ==
    /\ c \in op.todo
    /\ \/ mem[c].pngFileOutdated
       \/ op.kind = "unload" /\ ~mem[c].data.protected
    /\ op.kind = "unload" => mem[c].data # Blank

(* Chunk::save: the file is truncated.  A file that does not open throws:  *)
(* out of the timer of the server, or to the handler in the destructor.    *)
OpenImage(c, fails) ==
    /\ op.kind \in {"save", "unload"} /\ op.at = NoChunk
    /\ Saveable(c)
    /\ \/ /\ ~fails
          /\ op' = [op EXCEPT !.at = c]
          /\ png' = [png EXCEPT ![c] = TornFile]
          /\ UNCHANGED <<mem, history>>
       \/ /\ fails /\ op.kind = "save"
          /\ Stop
          /\ UNCHANGED <<png, mem, history>>
       \/ /\ fails /\ op.kind = "unload"
          /\ op' = Done(c)
          /\ mem' = [mem EXCEPT ![c] = NoChunk]
          /\ Lose({c})
          /\ UNCHANGED png
    /\ UNCHANGED <<pxr, pchunks, loaded, remaining, pclust>>

(* The file is written, and the chunk no longer newer than it.  A write    *)
(* that fails, of a cached image to a full disk, goes unnoticed.           *)
WriteImage(fails) ==
    /\ op.kind \in {"save", "unload"} /\ op.at # NoChunk
    /\ mem' = [mem EXCEPT ![op.at] =
                  IF op.kind = "unload" THEN NoChunk
                  ELSE [@ EXCEPT !.pngFileOutdated = FALSE]]
    /\ op' = Done(op.at)
    /\ IF fails
       THEN Lose({op.at}) /\ UNCHANGED png
       ELSE /\ png' = [png EXCEPT ![op.at] = mem[op.at].data]
            /\ saved' = [saved EXCEPT ![op.at] = painted[op.at]]
            /\ UNCHANGED painted
    /\ UNCHANGED <<pxr, pchunks, loaded, remaining, pclust>>

(* The destructor of a chunk without a save: the file of an empty chunk is *)
(* removed, and a failure only logged.                                     *)
DropChunk(c, fails) ==
    /\ op.kind = "unload" /\ op.at = NoChunk
    /\ c \in op.todo
    /\ mem' = [mem EXCEPT ![c] = NoChunk]
    /\ op' = Done(c)
    /\ \/ /\ mem[c].data = Blank /\ (fails => png[c] = NoFile)
          /\ png' = [png EXCEPT ![c] = NoFile]
          /\ saved' = [saved EXCEPT ![c] = painted[c]]
          /\ UNCHANGED painted
       \/ /\ mem[c].data = Blank /\ fails /\ png[c] # NoFile
          /\ Lose({c})
          /\ UNCHANGED png
       \/ /\ mem[c].data # Blank /\ ~mem[c].pngFileOutdated
          /\ UNCHANGED <<png, history>>
    /\ UNCHANGED <<pxr, pchunks, loaded, remaining, pclust>>

EndSave ==
    /\ op.kind = "save" \/ (op.kind = "unload" /\ ~op.gone)
    /\ op.todo = {}
    /\ op' = Idle
    /\ UNCHANGED <<files, loaded, remaining, pclust, mem, history>>

Unloaded ==
    /\ loaded' = FALSE
    /\ remaining' = {}
    /\ pclust' = {}
    /\ op' = Idle

(* saveProtectionData without protections: the file goes, and what a start *)
(* that could not open it left out goes for good.  A failure goes          *)
(* unnoticed, and the protections are back at the next start.              *)
RemoveProtections(fails) ==
    /\ op.kind = "unload" /\ op.gone /\ op.todo = {} /\ pclust = {}
    /\ pchunks' = IF fails THEN pchunks ELSE {}
    /\ Unloaded
    /\ IF fails THEN painted' = saved /\ UNCHANGED saved
       ELSE saved' = painted /\ UNCHANGED painted
    /\ UNCHANGED <<png, pxr, mem>>

(* With protections: a file that does not open throws in a destructor,     *)
(* which ends the process.                                                 *)
OpenProtections(fails) ==
    /\ op.kind = "unload" /\ op.gone /\ op.todo = {} /\ pclust # {}
    /\ IF fails
       THEN Forget({}) /\ UNCHANGED pchunks
       ELSE /\ pchunks' = {Torn}
            /\ op' = [op EXCEPT !.kind = "protections"]
            /\ UNCHANGED <<loaded, remaining, pclust, mem, history>>
    /\ UNCHANGED <<png, pxr>>

WriteProtections ==
    /\ op.kind = "protections"
    /\ pchunks' = pclust
    /\ Unloaded
    /\ UNCHANGED <<png, pxr, mem, history>>

-----------------------------------------------------------------------------
Init ==
    /\ pxr \in [Chunks -> Images \cup {NoFile}]
    /\ png \in [Chunks -> [image : Images, protected : BOOLEAN] \cup {NoFile}]
    /\ \A c \in Chunks : pxr[c] = NoFile \/ png[c] = NoFile
    /\ pchunks \in SUBSET OldClusters
    /\ loaded = FALSE
    /\ remaining = {}
    /\ pclust = {}
    /\ mem = [c \in Chunks |-> NoChunk]
    /\ op = Idle
    /\ painted = [c \in Chunks |-> OnDisk(c)]
    /\ saved = painted

Next ==
    \/ \E unopened, unlisted \in BOOLEAN : Load(unopened, unlisted)
    \/ Crash
    \/ \E c \in Chunks, fails \in BOOLEAN :
          ReadImage(c, fails) \/ ReadCluster(c, fails) \/ OpenImage(c, fails) \/ DropChunk(c, fails)
    \/ \E fails \in BOOLEAN :
          RemoveCluster(fails) \/ OpenConverted(fails)
          \/ WriteImage(fails) \/ RemoveProtections(fails) \/ OpenProtections(fails)
    \/ \E next, fails \in BOOLEAN : Converted(next, fails)
    \/ \E c \in Chunks, v \in Images : Paint(c, v)
    \/ \E c \in Chunks, on \in BOOLEAN : SetAreaProtection(c, on)
    \/ BeginSave
    \/ \E S \in SUBSET Kept, gone \in BOOLEAN : BeginUnload(S, gone)
    \/ EndSave
    \/ WriteProtections

Spec == Init /\ [][Next]_vars

-----------------------------------------------------------------------------
(* A crash costs the content of one chunk, the one whose file was being    *)
(* written or converted, and so does the write, the removal or the opening *)
(* of the file of a chunk that fails; every other chunk shows what players *)
(* made of it, up to the last save if there was a crash since.  The        *)
(* protections of a cluster survive any number of restarts until it is     *)
(* converted, and its conversion, but for two events: a crash while        *)
(* pchunks.bin is being written loses some of clusters yet to be           *)
(* converted, and a start that cannot open the file leaves out those of    *)
(* all of them - until a crash or a failed removal of the file brings      *)
(* them back, for good once the process stops or the cluster is converted. *)
(* A start that cannot list the directory costs every cluster yet to be    *)
(* converted.  Neither costs a chunk that has an image anything.           *)
ContentsSurvive ==
    \A c \in Chunks : painted[c] # Lost => Shown(c) = painted[c]

(* A cluster on the list of those to be converted has its file, is in no   *)
(* chunk in memory and has no image the conversion would overwrite, unless *)
(* its file could not be removed before or a start did not see it.         *)
ConversionIsSafe ==
    \A c \in remaining :
        /\ pxr[c] # NoFile
        /\ mem[c] = NoChunk
        /\ painted[c] # Lost => png[c] = NoFile

(* What the files show of chunk c, but while they are being rewritten.     *)
KeptOf(c) ==
    IF c \in Writing \/ (op.kind = "protections" /\ c \in pclust)
    THEN saved[c] ELSE OnDisk(c)

Store == INSTANCE ChunkStore WITH
             shown <- [c \in Chunks |-> IF painted[c] = Lost THEN Lost ELSE Shown(c)],
             kept <- [c \in Chunks |-> IF saved[c] = Lost THEN Lost ELSE KeptOf(c)],
             old <- OldClusters

(* File by file, through conversions, saves, kills and failures, the world *)
(* is a store of whole chunks: nothing but a player changes what is shown, *)
(* nothing but a save what is kept, and every failure harms one chunk -    *)
(* but a start that does not see its files, or a crash within the write of *)
(* pchunks.bin, which harm clusters yet to be converted and nothing else.  *)
ImplementsStore == Store!StoreSpec
=============================================================================

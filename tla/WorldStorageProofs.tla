-------------------------- MODULE WorldStorageProofs --------------------------
(***************************************************************************)
(* Proofs about WorldStorage, for any set of chunks.  The inductive        *)
(* invariant says, of every chunk nobody has lost, where its content is:   *)
(* in memory, in the cluster file and pchunks.bin, in the buffer of a      *)
(* conversion, or in its image file; and that the files have what was      *)
(* saved of it, so that a crash may come at any time.                      *)
(***************************************************************************)
EXTENDS WorldStorage, TLAPS

(* The operations on files and the memory they are about. *)
OpOK ==
    /\ op.kind = "none" => op = Idle
    /\ op.gone => op.kind \in {"unload", "protections"}
    /\ op.kind \in {"read", "removed", "convert"} =>
          /\ op.at \in Chunks \ remaining
          /\ mem[op.at] = NoChunk
    /\ op.kind = "read" => pxr[op.at] # NoFile
    /\ op.kind \in {"save", "unload"} => op.at \in op.todo \cup {NoChunk}
    /\ \A c \in op.todo : mem[c] # NoChunk
    /\ op.kind = "unload" /\ op.gone =>
          \A c \in Chunks : mem[c] # NoChunk => c \in op.todo
    /\ op.kind = "protections" =>
          /\ op.gone /\ op.at = NoChunk /\ op.todo = {} /\ pchunks = {Torn}
          /\ pclust # {}
          /\ \A c \in Chunks : mem[c] = NoChunk

MemoryOK ==
    /\ ~loaded => /\ op = Idle /\ remaining = {} /\ pclust = {}
                  /\ \A c \in Chunks : mem[c] = NoChunk
    /\ \A c \in remaining : pxr[c] # NoFile /\ mem[c] = NoChunk
    /\ \A c \in Chunks : painted[c] = Lost <=> saved[c] = Lost

(* Chunk c is in its cluster file, its protection in pchunks.bin, unless   *)
(* that is being rewritten, and in pclust, unless the file did not open.   *)
InCluster(c) ==
    /\ pxr[c] # NoFile /\ png[c] = NoFile
    /\ painted[c] = Cluster(c, pclust)
    /\ pclust # {} => saved[c] = painted[c]
    /\ op.kind # "protections" => saved[c] = Cluster(c, ProtectedOnDisk)

(* Chunk c is in its image file. *)
InImage(c) == pxr[c] = NoFile /\ Image(png[c]) = saved[c]

ContentKept(c) ==
    IF ~loaded
    THEN /\ painted[c] = saved[c]
         /\ OnDisk(c) = saved[c]
         /\ pxr[c] = NoFile \/ png[c] = NoFile
    ELSE IF mem[c] # NoChunk
    THEN /\ mem[c].data = painted[c]
         /\ pxr[c] = NoFile
         /\ ~mem[c].pngFileOutdated => painted[c] = saved[c]
         /\ c # op.at => InImage(c)
    ELSE /\ c \in remaining => InCluster(c)
         /\ c \notin remaining \cup Converting =>
               (InImage(c) /\ painted[c] = saved[c]) \/ (op.gone /\ InCluster(c))
         /\ c \in Converting =>
               IF op.kind = "read" THEN InCluster(c)
               ELSE pxr[c] = NoFile /\ op.content = painted[c]

ContentsKept == \A c \in Chunks : painted[c] # Lost => ContentKept(c)

IInv == TypeOK /\ OpOK /\ MemoryOK /\ ContentsKept

-----------------------------------------------------------------------------
(* Facts about contents *)

(* What a chunk holds is a content, and no marker is one. *)
LEMMA ContentFacts ==
    /\ Blank \in Contents /\ TornFile \in Contents
    /\ NoFile \notin Contents /\ NoFile \notin Images /\ Lost \notin Contents
    /\ NoChunk \notin InMemory /\ NoChunk \notin Chunks /\ Torn \notin Chunks
    /\ \A f \in Contents \cup {NoFile} : Image(f) \in Contents
    /\ \A d \in Contents, b \in BOOLEAN : [data |-> d, pngFileOutdated |-> b] \in InMemory
    /\ Idle \in Operations
  BY ImagesAssumption, MarkersAssumption
     DEF Blank, TornFile, Contents, Image, InMemory, Idle, Operations

(* The content of a cluster is one, if there is a file. *)
LEMMA ClusterContent ==
    ASSUME TypeOK, NEW c \in Chunks, pxr[c] # NoFile, NEW P
    PROVE  Cluster(c, P) \in Contents
  BY DEF Cluster, Contents, TypeOK

(* The steps that lose chunks keep the type of the histories, and lose     *)
(* them in both.                                                           *)
LEMMA LoseFacts ==
    ASSUME TypeOK, NEW C, Lose(C)
    PROVE  /\ painted' \in [Chunks -> Contents \cup {Lost}]
           /\ saved' \in [Chunks -> Contents \cup {Lost}]
           /\ \A c \in Chunks :
                 IF c \in C THEN painted'[c] = Lost /\ saved'[c] = Lost
                 ELSE painted'[c] = painted[c] /\ saved'[c] = saved[c]
  BY DEF Lose, TypeOK

(* Without its protections a content is one, and what is lost stays lost.  *)
LEMMA BareFacts ==
    /\ \A d \in Contents : /\ Bare(d) \in Contents /\ Bare(d) # Lost
                           /\ Bare(d) = [image |-> d.image, protected |-> FALSE]
    /\ Bare(Lost) = Lost
BY ContentFacts DEF Bare, Contents

(* A chunk that a step leaves alone keeps its content. *)
LEMMA LeftAlone ==
    ASSUME NEW c \in Chunks, ContentKept(c),
           png'[c] = png[c], pxr'[c] = pxr[c], pchunks' = pchunks, loaded' = loaded,
           c \in remaining' <=> c \in remaining, c \in pclust' <=> c \in pclust,
           pclust' # {} => pclust # {},
           mem'[c] = mem[c], painted'[c] = painted[c], saved'[c] = saved[c],
           op.gone => op'.gone, c # op'.at => c # op.at,
           c \notin Converting, c \notin Converting',
           op'.kind # "protections" => op.kind # "protections"
    PROVE  ContentKept(c)'
  BY DEF ContentKept, InImage, InCluster, Cluster, Image, OnDisk, ProtectedOnDisk

(* The initial states satisfy the invariant. *)
LEMMA InitIInv == Init => IInv
<1> SUFFICES ASSUME Init PROVE IInv
  OBVIOUS
<1>1. painted \in [Chunks -> Contents] /\ saved = painted
  <2>1. \A c \in Chunks : OnDisk(c) \in Contents
    BY ContentFacts DEF Init, OnDisk, Cluster, Image, Contents
  <2> QED BY <2>1 DEF Init
<1>2. TypeOK
  BY <1>1, ContentFacts DEF Init, TypeOK, OldClusters, Contents
<1>3. OpOK
  BY ContentFacts DEF Init, OpOK, Idle
<1>4. MemoryOK
  BY <1>1 DEF Init, MemoryOK
<1>5. ContentsKept
  BY DEF Init, ContentsKept, ContentKept
<1> QED BY <1>2, <1>3, <1>4, <1>5 DEF IInv

-----------------------------------------------------------------------------
(* Every step keeps the invariant *)

(* The start of the server, which may not see its files. *)
LEMMA LoadInv ==
    ASSUME IInv, NEW unopened \in BOOLEAN, NEW unlisted \in BOOLEAN, Load(unopened, unlisted)
    PROVE  IInv'
<1>1. /\ ~loaded /\ loaded' /\ op = Idle /\ \A c \in Chunks : mem[c] = NoChunk
      /\ remaining' = IF unlisted THEN {} ELSE OldClusters
      /\ pclust' = IF unopened THEN {} ELSE ProtectedOnDisk
      /\ UNCHANGED <<png, pxr, pchunks, mem, op>>
  BY DEF IInv, MemoryOK, Load, files
<1>2. /\ painted' \in [Chunks -> Contents \cup {Lost}]
      /\ saved' \in [Chunks -> Contents \cup {Lost}]
      /\ \A c \in Chunks :
            IF unlisted /\ c \in OldClusters THEN painted'[c] = Lost /\ saved'[c] = Lost
            ELSE IF unopened /\ c \in OldClusters
            THEN painted'[c] = Bare(painted[c]) /\ saved'[c] = saved[c]
            ELSE painted'[c] = painted[c] /\ saved'[c] = saved[c]
  <2>1. CASE unlisted
    BY <2>1, LoseFacts DEF Load, IInv
  <2>2. CASE ~unlisted /\ unopened
    <3>1. /\ painted' = [c \in Chunks |-> IF c \in OldClusters THEN Bare(painted[c])
                                                            ELSE painted[c]]
          /\ saved' = saved
      BY <2>2 DEF Load
    <3>2. \A c \in Chunks : Bare(painted[c]) \in Contents \cup {Lost}
      BY BareFacts DEF IInv, TypeOK
    <3> QED BY <2>2, <3>1, <3>2 DEF IInv, TypeOK
  <2>3. CASE ~unlisted /\ ~unopened
    BY <2>3 DEF Load, history, IInv, TypeOK
  <2> QED BY <2>1, <2>2, <2>3
<1>3. TypeOK'
  <2>1. ProtectedOnDisk \in SUBSET Chunks /\ OldClusters \in SUBSET Chunks
    BY DEF IInv, TypeOK, ProtectedOnDisk, OldClusters
  <2> QED BY <1>1, <1>2, <2>1 DEF IInv, TypeOK
<1>4. OpOK'
  BY <1>1 DEF IInv, OpOK, Idle
<1>5. MemoryOK'
  <2>1. \A c \in Chunks : Bare(painted[c]) = Lost <=> painted[c] = Lost
    BY BareFacts DEF IInv, TypeOK
  <2> QED BY <1>1, <1>2, <2>1 DEF IInv, MemoryOK, OldClusters
<1>6. ContentsKept'
  <2> SUFFICES ASSUME NEW c \in Chunks, painted'[c] # Lost PROVE ContentKept(c)'
    BY DEF ContentsKept
  <2>1. /\ painted[c] # Lost /\ painted[c] \in Contents /\ saved'[c] = saved[c]
        /\ c \in OldClusters => ~unlisted
        /\ painted'[c] = IF unopened /\ c \in OldClusters THEN Bare(painted[c]) ELSE painted[c]
    BY <1>2, BareFacts DEF IInv, TypeOK
  <2>2. /\ painted[c] = saved[c] /\ OnDisk(c) = saved[c]
        /\ pxr[c] = NoFile \/ png[c] = NoFile
    BY <1>1, <2>1 DEF IInv, ContentsKept, ContentKept
  <2>3. c \notin Converting' /\ op'.kind # "protections" /\ mem'[c] = NoChunk
    BY <1>1 DEF Converting, Idle
  <2>4. CASE c \in OldClusters
    <3>1. /\ pxr[c] # NoFile /\ png[c] = NoFile /\ c \in remaining'
          /\ saved[c] = Cluster(c, ProtectedOnDisk)
      BY <1>1, <2>1, <2>2, <2>4 DEF OldClusters, OnDisk
    <3>2. painted'[c] = [image |-> pxr[c], protected |-> c \in pclust']
      <4>1. CASE unopened
        <5>1. painted'[c] = [image |-> pxr[c], protected |-> FALSE]
          <6>1. painted'[c] = [image |-> painted[c].image, protected |-> FALSE]
            BY <2>1, <2>4, <4>1, BareFacts
          <6>2. painted[c].image = pxr[c]
            BY <2>2, <3>1 DEF Cluster
          <6> QED BY <6>1, <6>2
        <5>2. (c \in pclust') = FALSE
          BY <1>1, <4>1
        <5> QED BY <5>1, <5>2
      <4>2. CASE ~unopened
        BY <1>1, <2>1, <2>2, <3>1, <4>2 DEF Cluster
      <4> QED BY <4>1, <4>2
    <3>3. pclust' # {} => saved'[c] = painted'[c]
      BY <1>1, <2>1, <2>2
    <3>4. InCluster(c)'
      BY <1>1, <2>1, <3>1, <3>2, <3>3 DEF InCluster, Cluster, ProtectedOnDisk
    <3> QED BY <1>1, <2>3, <3>1, <3>4 DEF ContentKept
  <2>5. CASE c \notin OldClusters
    <3>1. pxr[c] = NoFile /\ Image(png[c]) = saved[c]
      BY <2>2, <2>5 DEF OldClusters, OnDisk
    <3>2. InImage(c)' /\ painted'[c] = saved'[c] /\ c \notin remaining'
      BY <1>1, <2>1, <2>2, <2>5, <3>1 DEF InImage, Image
    <3> QED BY <1>1, <2>3, <3>2 DEF ContentKept
  <2> QED BY <2>4, <2>5
<1> QED BY <1>3, <1>4, <1>5, <1>6 DEF IInv

(* A chunk is read from its image. *)
LEMMA ReadImageInv ==
    ASSUME IInv, NEW c \in Chunks, NEW fails \in BOOLEAN, ReadImage(c, fails)
    PROVE  IInv'
<1> DEFINE C == IF fails THEN {c} ELSE {}
           data == Image(IF fails THEN NoFile ELSE png[c])
<1>1. /\ loaded /\ op = Idle /\ c \notin remaining /\ mem[c] = NoChunk
      /\ mem' = [mem EXCEPT ![c] = [data |-> data, pngFileOutdated |-> FALSE]]
      /\ Lose(C)
      /\ UNCHANGED <<png, pxr, pchunks, loaded, remaining, pclust, op>>
  BY DEF IInv, OpOK, ReadImage, Constructed, files
<1>2. data \in Contents
  BY ContentFacts DEF IInv, TypeOK
<1> HIDE DEF data
<1>3. [data |-> data, pngFileOutdated |-> FALSE] \in InMemory
  BY <1>2, ContentFacts
<1>4. /\ painted' \in [Chunks -> Contents \cup {Lost}]
      /\ saved' \in [Chunks -> Contents \cup {Lost}]
      /\ \A d \in Chunks :
            IF d \in C THEN painted'[d] = Lost /\ saved'[d] = Lost
            ELSE painted'[d] = painted[d] /\ saved'[d] = saved[d]
  BY <1>1, LoseFacts DEF IInv
<1>5. TypeOK'
  BY <1>1, <1>3, <1>4 DEF IInv, TypeOK
<1>6. OpOK'
  BY <1>1, ContentFacts DEF OpOK, Idle
<1>7. MemoryOK'
  BY <1>1, <1>4 DEF IInv, TypeOK, MemoryOK
<1>8. ContentsKept'
  <2> SUFFICES ASSUME NEW d \in Chunks, painted'[d] # Lost PROVE ContentKept(d)'
    BY DEF ContentsKept
  <2>1. ContentKept(d) /\ painted'[d] = painted[d] /\ saved'[d] = saved[d]
    BY <1>4 DEF IInv, ContentsKept
  <2>2. Converting = {} /\ Converting' = {}
    BY <1>1 DEF Converting, Idle
  <2>3. CASE d # c
    BY <1>1, <2>1, <2>2, <2>3, LeftAlone DEF IInv, TypeOK
  <2>4. CASE d = c
    <3>1. ~fails /\ data = Image(png[c])
      BY <1>4, <2>4 DEF data
    <3>2. InImage(c) /\ painted[c] = saved[c]
      BY <1>1, <2>1, <2>2, <2>4 DEF ContentKept, Idle
    <3>3. mem'[c] # NoChunk /\ mem'[c].data = data
      BY <1>1, <1>3, ContentFacts DEF IInv, TypeOK
    <3> QED BY <1>1, <2>1, <2>4, <3>1, <3>2, <3>3 DEF ContentKept, InImage
  <2> QED BY <2>3, <2>4
<1> QED BY <1>5, <1>6, <1>7, <1>8 DEF IInv

(* Stop leaves the world with every chunk of it to unload. *)
LEMMA StopFacts ==
    ASSUME IInv, Stop
    PROVE  /\ op' \in Operations
           /\ op'.kind = "unload" /\ op'.gone /\ op'.at = NoChunk /\ op'.todo = Kept
           /\ Converting' = {}
<1>1. Kept \in SUBSET Chunks
  BY DEF Kept
<1> QED BY <1>1, ContentFacts DEF Stop, Idle, Operations, Converting

(* A cluster is taken off the list. *)
LEMMA ReadClusterInv ==
    ASSUME IInv, NEW c \in Chunks, NEW fails \in BOOLEAN, ReadCluster(c, fails)
    PROVE  IInv'
<1>1. /\ loaded /\ op = Idle /\ c \in remaining /\ remaining' = remaining \ {c}
      /\ IF fails THEN Stop ELSE op' = [Idle EXCEPT !.kind = "read", !.at = c]
      /\ UNCHANGED <<png, pxr, pchunks, loaded, pclust, mem, painted, saved>>
  BY DEF IInv, OpOK, ReadCluster, files, history
<1>2. mem[c] = NoChunk /\ pxr[c] # NoFile /\ Kept \in SUBSET Chunks
  BY <1>1 DEF IInv, MemoryOK, Kept
<1>3. ~fails => /\ op' \in Operations /\ op'.kind = "read" /\ op'.at = c
                /\ op'.todo = {} /\ ~op'.gone /\ Converting' = {c}
  BY <1>1, ContentFacts DEF Idle, Operations, Converting
<1>4. fails => /\ op' \in Operations /\ op'.kind = "unload" /\ op'.at = NoChunk
               /\ op'.todo = Kept /\ op'.gone /\ Converting' = {}
  BY <1>1, StopFacts
<1>5. TypeOK'
  BY <1>1, <1>3, <1>4 DEF IInv, TypeOK
<1>6. OpOK'
  BY <1>1, <1>2, <1>3, <1>4 DEF OpOK, Kept
<1>7. MemoryOK'
  BY <1>1 DEF IInv, MemoryOK
<1>8. ContentsKept'
  <2> SUFFICES ASSUME NEW d \in Chunks, painted'[d] # Lost PROVE ContentKept(d)'
    BY DEF ContentsKept
  <2>1. ContentKept(d)
    BY <1>1 DEF IInv, ContentsKept
  <2>2. Converting = {} /\ op.kind = "none" /\ ~op.gone /\ op.at = NoChunk
    BY <1>1 DEF Converting, Idle
  <2>3. CASE d # c
    BY <1>1, <1>3, <1>4, <2>1, <2>2, <2>3, ContentFacts, LeftAlone
  <2>4. CASE d = c
    <3>1. InCluster(c)
      BY <1>1, <1>2, <2>1, <2>4 DEF ContentKept
    <3>2. InCluster(c)'
      BY <1>1, <3>1, <2>2 DEF InCluster, Cluster, ProtectedOnDisk
    <3> QED BY <1>1, <1>2, <1>3, <1>4, <2>4, <3>1, <3>2 DEF ContentKept
  <2> QED BY <2>3, <2>4
<1> QED BY <1>5, <1>6, <1>7, <1>8 DEF IInv

(* The cluster file is removed, or not. *)
LEMMA RemoveClusterInv ==
    ASSUME IInv, NEW fails \in BOOLEAN, RemoveCluster(fails)
    PROVE  IInv'
<1> DEFINE at == op.at
           C == IF fails THEN {at} ELSE {}
<1>1. /\ op.kind = "read" /\ at \in Chunks /\ at \notin remaining /\ mem[at] = NoChunk
      /\ pxr[at] # NoFile /\ ~op.gone
  BY DEF IInv, OpOK, RemoveCluster
<1>2. /\ pxr' = IF fails THEN pxr ELSE [pxr EXCEPT ![at] = NoFile]
      /\ Lose(C)
      /\ op' = [op EXCEPT !.kind = "removed", !.content = Cluster(at, pclust)]
      /\ UNCHANGED <<png, pchunks, loaded, remaining, pclust, mem>>
  BY DEF RemoveCluster
<1>3. /\ op' \in Operations /\ op'.kind = "removed" /\ op'.at = at /\ op'.todo = op.todo
      /\ op'.content = Cluster(at, pclust) /\ op'.gone = op.gone
  BY <1>1, <1>2, ClusterContent DEF IInv, TypeOK, Operations
<1> HIDE DEF at
<1>4. /\ painted' \in [Chunks -> Contents \cup {Lost}]
      /\ saved' \in [Chunks -> Contents \cup {Lost}]
      /\ \A d \in Chunks :
            IF d \in C THEN painted'[d] = Lost /\ saved'[d] = Lost
            ELSE painted'[d] = painted[d] /\ saved'[d] = saved[d]
  BY <1>2, LoseFacts DEF IInv
<1>5. TypeOK'
  BY <1>1, <1>2, <1>3, <1>4 DEF IInv, TypeOK
<1>6. OpOK'
  BY <1>1, <1>2, <1>3 DEF IInv, OpOK
<1>7. MemoryOK'
  BY <1>1, <1>2, <1>4 DEF IInv, TypeOK, MemoryOK, Idle
<1>8. ContentsKept'
  <2> SUFFICES ASSUME NEW d \in Chunks, painted'[d] # Lost PROVE ContentKept(d)'
    BY DEF ContentsKept
  <2>1. ContentKept(d) /\ painted'[d] = painted[d] /\ saved'[d] = saved[d]
    BY <1>4 DEF IInv, ContentsKept
  <2>2. Converting = {at} /\ Converting' = {at}
    BY <1>1, <1>3 DEF Converting, at
  <2>3. CASE d # at
    <3>1. pxr'[d] = pxr[d]
      BY <1>2, <2>3 DEF IInv, TypeOK
    <3> QED BY <1>1, <1>2, <1>3, <2>1, <2>2, <2>3, <3>1, LeftAlone DEF at
  <2>4. CASE d = at
    <3>1. ~fails /\ loaded
      BY <1>1, <1>4, <2>4 DEF IInv, MemoryOK, Idle
    <3>2. InCluster(at)
      BY <1>1, <2>1, <2>2, <2>4, <3>1 DEF ContentKept
    <3>3. pxr'[at] = NoFile
      BY <1>1, <1>2, <3>1 DEF IInv, TypeOK
    <3> QED BY <1>1, <1>2, <1>3, <2>1, <2>2, <2>4, <3>1, <3>2, <3>3 DEF ContentKept, InCluster
  <2> QED BY <2>3, <2>4
<1> QED BY <1>5, <1>6, <1>7, <1>8 DEF IInv

(* The image of the cluster is opened, or not. *)
LEMMA OpenConvertedInv ==
    ASSUME IInv, NEW fails \in BOOLEAN, OpenConverted(fails)
    PROVE  IInv'
<1> DEFINE at == op.at
<1>1. /\ op.kind = "removed" /\ at \in Chunks /\ at \notin remaining /\ mem[at] = NoChunk
      /\ ~op.gone /\ loaded /\ pclust' = pclust \ {at}
      /\ UNCHANGED <<pxr, pchunks, loaded, remaining, mem>>
  BY DEF IInv, OpOK, MemoryOK, Idle, OpenConverted
<1>2. CASE fails
  <2>1. Stop /\ Lose({at}) /\ UNCHANGED png
    BY <1>2 DEF OpenConverted
  <2>2. /\ op' \in Operations /\ op'.kind = "unload" /\ op'.gone /\ op'.at = NoChunk
        /\ op'.todo = Kept /\ Converting' = {}
    BY <2>1, StopFacts
  <2>3. /\ painted' \in [Chunks -> Contents \cup {Lost}]
        /\ saved' \in [Chunks -> Contents \cup {Lost}]
        /\ \A d \in Chunks :
              IF d \in {at} THEN painted'[d] = Lost /\ saved'[d] = Lost
              ELSE painted'[d] = painted[d] /\ saved'[d] = saved[d]
    BY <2>1, LoseFacts DEF IInv
  <2>4. TypeOK'
    BY <1>1, <2>1, <2>2, <2>3 DEF IInv, TypeOK
  <2>5. OpOK' /\ MemoryOK'
    BY <1>1, <2>1, <2>2, <2>3 DEF IInv, OpOK, MemoryOK, TypeOK, Kept
  <2>6. ASSUME NEW d \in Chunks, painted'[d] # Lost PROVE ContentKept(d)'
    <3>1. d # at /\ ContentKept(d) /\ painted'[d] = painted[d] /\ saved'[d] = saved[d]
      BY <2>3, <2>6 DEF IInv, ContentsKept
    <3>2. d \notin Converting /\ d # op.at
      BY <1>1, <3>1 DEF Converting
    <3> HIDE DEF at
    <3> QED BY <1>1, <2>1, <2>2, <3>1, <3>2, LeftAlone
  <2> QED BY <2>4, <2>5, <2>6 DEF IInv, ContentsKept
<1>3. CASE ~fails
  <2>1. /\ png' = [png EXCEPT ![at] = TornFile]
        /\ op' = [op EXCEPT !.kind = "convert"]
        /\ UNCHANGED <<painted, saved>>
    BY <1>3 DEF OpenConverted, history
  <2>2. /\ op' \in Operations /\ op'.kind = "convert" /\ op'.gone = op.gone
        /\ op'.at = at /\ op'.todo = op.todo /\ op'.content = op.content
    BY <2>1 DEF IInv, TypeOK, Operations
  <2>3. TypeOK'
    BY <1>1, <2>1, <2>2, ContentFacts DEF IInv, TypeOK
  <2>4. OpOK' /\ MemoryOK'
    BY <1>1, <2>1, <2>2 DEF IInv, OpOK, MemoryOK
  <2>5. ASSUME NEW d \in Chunks, painted'[d] # Lost PROVE ContentKept(d)'
    <3>1. ContentKept(d) /\ painted'[d] = painted[d] /\ saved'[d] = saved[d]
      BY <2>1, <2>5 DEF IInv, ContentsKept
    <3>2. Converting = {at} /\ Converting' = {at}
      BY <1>1, <2>2 DEF Converting
    <3>3. CASE d # at
      <4>1. png'[d] = png[d]
        BY <2>1, <3>3 DEF IInv, TypeOK
      <4> QED BY <1>1, <2>1, <2>2, <3>1, <3>2, <3>3, <4>1, LeftAlone
    <3>4. CASE d = at
      <4>1. pxr[at] = NoFile /\ op.content = painted[at]
        BY <1>1, <3>1, <3>2, <3>4 DEF ContentKept
      <4> QED BY <1>1, <2>1, <2>2, <3>2, <3>4, <4>1 DEF ContentKept
    <3> QED BY <3>3, <3>4
  <2> QED BY <2>3, <2>4, <2>5 DEF IInv, ContentsKept
<1> QED BY <1>2, <1>3

(* The image is written, and read, or is left torn. *)
LEMMA ConvertedInv ==
    ASSUME IInv, NEW next \in BOOLEAN, NEW fails \in BOOLEAN, Converted(next, fails)
    PROVE  IInv'
<1> DEFINE at == op.at
           f == IF fails THEN png[at] ELSE op.content
<1>1. /\ op.kind = "convert" /\ at \in Chunks /\ at \notin remaining /\ mem[at] = NoChunk
      /\ ~op.gone /\ loaded /\ op.content \in Contents
      /\ UNCHANGED <<pxr, pchunks, loaded, remaining, pclust>>
  BY DEF IInv, OpOK, MemoryOK, Idle, Converted, TypeOK, Operations
<1>2. /\ png' \in [Chunks -> Contents \cup {NoFile}]
      /\ png'[at] = f /\ \A d \in Chunks \ {at} : png'[d] = png[d]
  BY <1>1 DEF Converted, IInv, TypeOK
<1>3. /\ f \in Contents \cup {NoFile} /\ Constructed(f) \in InMemory
      /\ ~fails => Constructed(f).data = op.content
  BY <1>1, ContentFacts DEF Constructed, Image, IInv, TypeOK
<1> HIDE DEF f
<1>4. /\ mem' \in [Chunks -> InMemory \cup {NoChunk}]
      /\ \A d \in Chunks \ {at} : mem'[d] = mem[d]
      /\ mem'[at] = NoChunk \/ mem'[at] = Constructed(f)
      /\ mem'[at] # NoChunk => op' = Idle
  BY <1>1, <1>2, <1>3, ContentFacts DEF Converted, IInv, TypeOK
<1>5. /\ op' \in Operations /\ op'.at = NoChunk /\ Converting' = {}
      /\ \/ op' = Idle /\ op'.kind = "none" /\ ~op'.gone /\ op'.todo = {}
         \/ fails /\ op'.kind = "unload" /\ op'.gone /\ op'.todo = Kept /\ mem' = mem
  <2>1. CASE op' = Idle
    BY <2>1, ContentFacts DEF Idle, Converting
  <2>2. CASE fails /\ Stop /\ mem' = mem
    BY <2>2, StopFacts
  <2> QED BY <2>1, <2>2 DEF Converted
<1>6. /\ painted' \in [Chunks -> Contents \cup {Lost}]
      /\ saved' \in [Chunks -> Contents \cup {Lost}]
      /\ \A d \in Chunks : painted'[d] = Lost <=> saved'[d] = Lost
      /\ \A d \in Chunks \ {at} : painted'[d] = painted[d] /\ saved'[d] = saved[d]
      /\ painted'[at] # Lost =>
            ~fails /\ painted'[at] = painted[at] /\ saved'[at] = painted[at]
  <2>1. CASE fails
    <3>1. Lose({at})
      BY <2>1 DEF Converted
    <3> QED BY <1>1, <2>1, <3>1, LoseFacts DEF IInv, TypeOK, MemoryOK
  <2>2. CASE ~fails
    <3>1. saved' = [saved EXCEPT ![at] = painted[at]] /\ painted' = painted
      BY <2>2 DEF Converted
    <3> QED BY <1>1, <2>2, <3>1 DEF IInv, TypeOK, MemoryOK
  <2> QED BY <2>1, <2>2
<1>7. Converting = {at}
  BY <1>1 DEF Converting
<1> HIDE DEF at
<1>8. TypeOK'
  BY <1>1, <1>2, <1>4, <1>5, <1>6 DEF IInv, TypeOK
<1>9. OpOK'
  BY <1>5, ContentFacts DEF OpOK, Kept
<1>10. MemoryOK'
  <2>1. \A c \in remaining : c \in Chunks /\ c # at
    BY <1>1 DEF IInv, TypeOK
  <2> QED BY <1>1, <1>4, <1>6, <2>1 DEF IInv, MemoryOK
<1>11. ASSUME NEW d \in Chunks, painted'[d] # Lost PROVE ContentKept(d)'
  <2>1. painted[d] # Lost
    BY <1>6, <1>11
  <2>2. ContentKept(d)
    BY <2>1 DEF IInv, ContentsKept
  <2>3. CASE d # at
    BY <1>1, <1>2, <1>4, <1>5, <1>6, <1>7, <2>2, <2>3, LeftAlone DEF at
  <2>4. CASE d = at
    <3>1. ~fails /\ painted'[d] = painted[d] /\ saved'[d] = painted[d]
      BY <1>6, <1>11, <2>4
    <3>2. pxr[d] = NoFile /\ op.content = painted[d]
      BY <1>1, <1>7, <2>2, <2>4 DEF ContentKept
    <3>3. png'[d] = op.content /\ op.content # NoFile /\ op' = Idle
      BY <1>1, <1>2, <1>5, <2>4, <3>1, ContentFacts DEF f
    <3>4. InImage(d)'
      BY <1>1, <3>1, <3>2, <3>3 DEF InImage, Image
    <3>5. mem'[d] # NoChunk => mem'[d].data = painted'[d]
      BY <1>3, <1>4, <2>4, <3>1, <3>2
    <3>6. loaded' /\ pxr'[d] = NoFile /\ d \notin remaining' /\ painted'[d] = saved'[d]
      BY <1>1, <2>4, <3>1, <3>2
    <3> QED BY <1>5, <3>4, <3>5, <3>6 DEF ContentKept
  <2> QED BY <2>3, <2>4
<1> QED BY <1>8, <1>9, <1>10, <1>11 DEF IInv, ContentsKept

(* A chunk in memory is changed. *)
LEMMA EditInv ==
    ASSUME IInv, NEW c \in Chunks, NEW d \in Contents, Edit(c, d)
    PROVE  IInv'
<1> DEFINE m == [data |-> d, pngFileOutdated |-> TRUE]
<1>1. /\ loaded /\ op = Idle /\ mem[c] # NoChunk /\ mem' = [mem EXCEPT ![c] = m]
      /\ painted' = [painted EXCEPT ![c] = IF @ = Lost THEN Lost ELSE d]
      /\ UNCHANGED <<png, pxr, pchunks, loaded, remaining, pclust, op, saved>>
  BY DEF IInv, OpOK, Edit, Kept, files
<1>2. m \in InMemory /\ m # NoChunk /\ m.data = d /\ m.pngFileOutdated
  BY ContentFacts
<1> HIDE DEF m
<1>3. TypeOK'
  BY <1>1, <1>2 DEF IInv, TypeOK
<1>4. OpOK'
  BY <1>1, ContentFacts DEF OpOK, Idle
<1>5. MemoryOK'
  BY <1>1, ContentFacts DEF IInv, TypeOK, MemoryOK
<1>6. ASSUME NEW e \in Chunks, painted'[e] # Lost PROVE ContentKept(e)'
  <2>1. painted[e] # Lost /\ ContentKept(e)
    BY <1>1, <1>6 DEF IInv, ContentsKept, TypeOK
  <2>2. Converting = {} /\ Converting' = {} /\ op.at = NoChunk
    BY <1>1 DEF Converting, Idle
  <2>3. CASE e # c
    <3>1. mem'[e] = mem[e] /\ painted'[e] = painted[e]
      BY <1>1, <2>3 DEF IInv, TypeOK
    <3> QED BY <1>1, <2>1, <2>2, <3>1, LeftAlone
  <2>4. CASE e = c
    <3>1. mem'[c] = m /\ painted'[c] = d
      BY <1>1, <2>1, <2>4 DEF IInv, TypeOK
    <3>2. pxr[c] = NoFile /\ InImage(c)
      BY <1>1, <2>1, <2>2, <2>4, ContentFacts DEF ContentKept
    <3> QED BY <1>1, <1>2, <2>4, <3>1, <3>2 DEF ContentKept, InImage, Image
  <2> QED BY <2>3, <2>4
<1> QED BY <1>3, <1>4, <1>5, <1>6 DEF IInv, ContentsKept

(* What is in memory is a content, so what paint and setAreaProtection     *)
(* make of it is one.                                                      *)
LEMMA EditsInv ==
    ASSUME IInv, NEW c \in Chunks,
           \/ \E v \in Images : Paint(c, v)
           \/ \E on \in BOOLEAN : SetAreaProtection(c, on)
    PROVE  IInv'
<1>1. mem[c].data \in Contents
  BY DEF IInv, TypeOK, InMemory, Paint, SetAreaProtection, Kept
<1>2. PICK d \in Contents : Edit(c, d)
  BY <1>1 DEF Paint, SetAreaProtection, Contents
<1> QED BY <1>2, EditInv

(* A save or an unload begins. *)
LEMMA BeginInv ==
    ASSUME IInv, BeginSave \/ \E S \in SUBSET Kept, gone \in BOOLEAN : BeginUnload(S, gone)
    PROVE  IInv'
<1>1. PICK S \in SUBSET Kept, gone \in BOOLEAN, kind \in {"save", "unload"} :
         /\ op' \in Operations /\ op'.kind = kind /\ op'.at = NoChunk /\ op'.todo = S
         /\ op'.gone = gone
         /\ gone => S = Kept /\ kind = "unload"
  <2>1. CASE BeginSave
    <3>1. /\ Dirty \in SUBSET Kept /\ Dirty \in SUBSET Chunks
          /\ op' = [Idle EXCEPT !.kind = "save", !.todo = Dirty]
      BY <2>1 DEF BeginSave, Dirty, Kept
    <3>2. /\ op' \in Operations /\ op'.kind = "save" /\ op'.at = NoChunk /\ op'.todo = Dirty
          /\ op'.gone = FALSE
      BY <3>1, ContentFacts DEF Idle, Operations
    <3> QED BY <3>1, <3>2
  <2>2. ASSUME NEW S \in SUBSET Kept, NEW gone \in BOOLEAN, BeginUnload(S, gone)
        PROVE  /\ op' \in Operations /\ op'.kind = "unload" /\ op'.at = NoChunk
               /\ op'.todo = S /\ op'.gone = gone
               /\ gone => S = Kept
    BY <2>2, ContentFacts DEF BeginUnload, Idle, Operations, Kept
  <2> QED BY <2>1, <2>2
<1>2. /\ loaded /\ op = Idle
      /\ UNCHANGED <<png, pxr, pchunks, loaded, remaining, pclust, mem, painted, saved>>
  BY DEF IInv, OpOK, BeginSave, BeginUnload, files, history
<1>4. TypeOK' /\ MemoryOK'
  BY <1>1, <1>2 DEF IInv, TypeOK, MemoryOK
<1>5. OpOK'
  BY <1>1, <1>2, ContentFacts DEF IInv, OpOK, Kept
<1>6. ASSUME NEW d \in Chunks, painted'[d] # Lost PROVE ContentKept(d)'
  <2>1. ContentKept(d)
    BY <1>2, <1>6 DEF IInv, ContentsKept
  <2>2. Converting = {} /\ Converting' = {} /\ ~op.gone /\ op.kind = "none" /\ op.at = NoChunk
    BY <1>1, <1>2 DEF Converting, Idle
  <2> QED BY <1>1, <1>2, <2>1, <2>2, ContentFacts, LeftAlone
<1> QED BY <1>4, <1>5, <1>6 DEF IInv, ContentsKept

(* A file is truncated, or does not open. *)
LEMMA OpenImageInv ==
    ASSUME IInv, NEW c \in Chunks, NEW fails \in BOOLEAN, OpenImage(c, fails)
    PROVE  IInv'
<1>1. /\ op.kind \in {"save", "unload"} /\ op.at = NoChunk /\ c \in op.todo /\ mem[c] # NoChunk
      /\ op \in Operations /\ loaded
      /\ UNCHANGED <<pxr, pchunks, loaded, remaining, pclust>>
  BY DEF IInv, OpOK, MemoryOK, TypeOK, Idle, OpenImage, Saveable
<1>2. Converting = {}
  BY <1>1 DEF Converting
<1>3. CASE ~fails
  <2>1. /\ op' = [op EXCEPT !.at = c] /\ png' = [png EXCEPT ![c] = TornFile]
        /\ UNCHANGED <<mem, painted, saved>>
    BY <1>3 DEF OpenImage, history
  <2>2. /\ op' \in Operations /\ op'.kind = op.kind /\ op'.at = c /\ op'.todo = op.todo
        /\ op'.gone = op.gone /\ Converting' = {}
    BY <1>1, <2>1 DEF Operations, Converting
  <2>3. TypeOK' /\ OpOK' /\ MemoryOK'
    BY <1>1, <2>1, <2>2, ContentFacts DEF IInv, TypeOK, OpOK, MemoryOK
  <2>4. ASSUME NEW d \in Chunks, painted'[d] # Lost PROVE ContentKept(d)'
    <3>1. ContentKept(d)
      BY <2>1, <2>4 DEF IInv, ContentsKept
    <3>2. CASE d # c
      <4>1. png'[d] = png[d]
        BY <2>1, <3>2 DEF IInv, TypeOK
      <4> QED BY <1>1, <1>2, <2>1, <2>2, <3>1, <3>2, <4>1, ContentFacts, LeftAlone
    <3>3. CASE d = c
      BY <1>1, <1>2, <2>1, <2>2, <3>1, <3>3 DEF ContentKept
    <3> QED BY <3>2, <3>3
  <2> QED BY <2>3, <2>4 DEF IInv, ContentsKept
<1>4. CASE fails /\ op.kind = "save"
  <2>1. Stop /\ UNCHANGED <<png, mem, painted, saved>>
    BY <1>4 DEF OpenImage, history
  <2>2. /\ op' \in Operations /\ op'.kind = "unload" /\ op'.gone /\ op'.at = NoChunk
        /\ op'.todo = Kept /\ Converting' = {}
    BY <2>1, StopFacts
  <2>3. TypeOK' /\ OpOK' /\ MemoryOK'
    BY <1>1, <2>1, <2>2 DEF IInv, TypeOK, OpOK, MemoryOK, Kept
  <2>4. ASSUME NEW d \in Chunks, painted'[d] # Lost PROVE ContentKept(d)'
    <3>1. ContentKept(d)
      BY <2>1, <2>4 DEF IInv, ContentsKept
    <3> QED BY <1>1, <1>2, <2>1, <2>2, <3>1, ContentFacts, LeftAlone
  <2> QED BY <2>3, <2>4 DEF IInv, ContentsKept
<1>5. CASE fails /\ op.kind = "unload"
  <2>1. /\ op' = Done(c) /\ mem' = [mem EXCEPT ![c] = NoChunk] /\ Lose({c}) /\ UNCHANGED png
    BY <1>5 DEF OpenImage
  <2>2. /\ op' \in Operations /\ op'.kind = "unload" /\ op'.at = NoChunk
        /\ op'.todo = op.todo \ {c} /\ op'.gone = op.gone /\ Converting' = {}
    BY <1>1, <1>5, <2>1 DEF Done, Operations, Converting
  <2>3. /\ painted' \in [Chunks -> Contents \cup {Lost}]
        /\ saved' \in [Chunks -> Contents \cup {Lost}]
        /\ \A d \in Chunks :
              IF d \in {c} THEN painted'[d] = Lost /\ saved'[d] = Lost
              ELSE painted'[d] = painted[d] /\ saved'[d] = saved[d]
    BY <2>1, LoseFacts DEF IInv
  <2>4. TypeOK'
    BY <1>1, <2>1, <2>2, <2>3 DEF IInv, TypeOK
  <2>5. OpOK' /\ MemoryOK'
    BY <1>1, <2>1, <2>2, <2>3, ContentFacts DEF IInv, TypeOK, OpOK, MemoryOK
  <2>6. ASSUME NEW d \in Chunks, painted'[d] # Lost PROVE ContentKept(d)'
    <3>1. /\ d # c /\ ContentKept(d) /\ painted'[d] = painted[d] /\ saved'[d] = saved[d]
          /\ mem'[d] = mem[d]
      BY <2>1, <2>3, <2>6 DEF IInv, ContentsKept, TypeOK
    <3> QED BY <1>1, <1>2, <2>1, <2>2, <3>1, ContentFacts, LeftAlone
  <2> QED BY <2>4, <2>5, <2>6 DEF IInv, ContentsKept
<1> QED BY <1>1, <1>3, <1>4, <1>5

(* A file is written, or is left torn. *)
LEMMA WriteImageInv ==
    ASSUME IInv, NEW fails \in BOOLEAN, WriteImage(fails)
    PROVE  IInv'
<1> DEFINE c == op.at
           m == IF op.kind = "unload" THEN NoChunk
                ELSE [mem[c] EXCEPT !.pngFileOutdated = FALSE]
<1>1. /\ op.kind \in {"save", "unload"} /\ c \in op.todo /\ c \in Chunks /\ mem[c] # NoChunk
      /\ mem[c] \in InMemory /\ op \in Operations /\ loaded
      /\ UNCHANGED <<pxr, pchunks, loaded, remaining, pclust>>
      /\ mem' = [mem EXCEPT ![c] = m]
      /\ op' = Done(c)
  BY DEF IInv, OpOK, MemoryOK, TypeOK, Idle, WriteImage, Operations
<1>2. /\ op' \in Operations /\ op'.kind = op.kind /\ op'.at = NoChunk
      /\ op'.todo = op.todo \ {c} /\ op'.gone = op.gone
      /\ Converting = {} /\ Converting' = {}
  BY <1>1 DEF Done, Operations, Converting
<1>3. /\ mem[c].data \in Contents
      /\ op.kind = "unload" => m = NoChunk
      /\ op.kind = "save" => m \in InMemory /\ m # NoChunk /\ m.data = mem[c].data
  BY <1>1, ContentFacts DEF InMemory
<1>4. /\ png' \in [Chunks -> Contents \cup {NoFile}]
      /\ painted' \in [Chunks -> Contents \cup {Lost}]
      /\ saved' \in [Chunks -> Contents \cup {Lost}]
      /\ \A d \in Chunks : painted'[d] = Lost <=> saved'[d] = Lost
      /\ \A d \in Chunks \ {c} : /\ png'[d] = png[d]
                                 /\ painted'[d] = painted[d] /\ saved'[d] = saved[d]
      /\ painted'[c] # Lost =>
            painted'[c] = painted[c] /\ png'[c] = mem[c].data /\ saved'[c] = painted[c]
  <2>1. CASE fails
    <3>1. Lose({c}) /\ png' = png
      BY <2>1 DEF WriteImage
    <3> QED BY <1>1, <3>1, LoseFacts DEF IInv, TypeOK, MemoryOK
  <2>2. CASE ~fails
    <3>1. /\ png' = [png EXCEPT ![c] = mem[c].data]
          /\ saved' = [saved EXCEPT ![c] = painted[c]] /\ painted' = painted
      BY <2>2 DEF WriteImage
    <3> QED BY <1>1, <1>3, <3>1 DEF IInv, TypeOK, MemoryOK
  <2> QED BY <2>1, <2>2
<1>5. c \notin remaining
  BY <1>1 DEF IInv, MemoryOK
<1> HIDE DEF c, m
<1>6. mem'[c] = m /\ \A d \in Chunks \ {c} : mem'[d] = mem[d]
  BY <1>1 DEF IInv, TypeOK
<1>7. TypeOK'
  BY <1>1, <1>2, <1>3, <1>4 DEF IInv, TypeOK
<1>8. OpOK'
  BY <1>1, <1>2, <1>3, <1>6, ContentFacts DEF IInv, OpOK, TypeOK, Operations
<1>9. MemoryOK'
  BY <1>1, <1>4, <1>5, <1>6 DEF IInv, MemoryOK
<1>10. ASSUME NEW d \in Chunks, painted'[d] # Lost PROVE ContentKept(d)'
  <2>1. painted[d] # Lost /\ ContentKept(d)
    BY <1>4, <1>10 DEF IInv, ContentsKept
  <2>2. CASE d # c
    BY <1>1, <1>2, <1>4, <1>6, <2>1, <2>2, LeftAlone DEF c
  <2>3. CASE d = c
    <3>1. mem[c].data = painted[c] /\ pxr[c] = NoFile
      BY <1>1, <2>1, <2>3 DEF ContentKept
    <3>2. InImage(d)'
      BY <1>1, <1>3, <1>4, <1>10, <2>3, <3>1, ContentFacts DEF InImage, Image
    <3> QED BY <1>1, <1>2, <1>3, <1>4, <1>5, <1>6, <1>10, <2>3, <3>1, <3>2 DEF ContentKept
  <2> QED BY <2>2, <2>3
<1> QED BY <1>7, <1>8, <1>9, <1>10 DEF IInv, ContentsKept

(* A chunk goes without a save. *)
LEMMA DropChunkInv ==
    ASSUME IInv, NEW c \in Chunks, NEW fails \in BOOLEAN, DropChunk(c, fails)
    PROVE  IInv'
<1>1. /\ op.kind = "unload" /\ op.at = NoChunk /\ c \in op.todo /\ mem[c] # NoChunk
      /\ op \in Operations /\ loaded /\ mem' = [mem EXCEPT ![c] = NoChunk] /\ op' = Done(c)
      /\ UNCHANGED <<pxr, pchunks, loaded, remaining, pclust>>
  BY DEF IInv, OpOK, MemoryOK, TypeOK, Idle, DropChunk
<1>2. /\ op' \in Operations /\ op'.kind = "unload" /\ op'.at = NoChunk
      /\ op'.todo = op.todo \ {c} /\ op'.gone = op.gone
      /\ Converting = {} /\ Converting' = {}
  BY <1>1 DEF Done, Operations, Converting
<1>3. \A d \in Chunks : mem'[d] = IF d = c THEN NoChunk ELSE mem[d]
  BY <1>1 DEF IInv, TypeOK
<1>4. c \notin remaining
  BY <1>1 DEF IInv, MemoryOK
<1>5. OpOK'
  BY <1>1, <1>2, <1>3, ContentFacts DEF IInv, OpOK, TypeOK, Operations
<1>6. /\ png' \in [Chunks -> Contents \cup {NoFile}]
      /\ painted' \in [Chunks -> Contents \cup {Lost}]
      /\ saved' \in [Chunks -> Contents \cup {Lost}]
      /\ \A d \in Chunks : painted'[d] = Lost <=> saved'[d] = Lost
      /\ \A d \in Chunks \ {c} : /\ png'[d] = png[d]
                                 /\ painted'[d] = painted[d] /\ saved'[d] = saved[d]
      /\ painted'[c] # Lost =>
            /\ painted'[c] = painted[c]
            /\ \/ mem[c].data = Blank /\ png'[c] = NoFile /\ saved'[c] = painted[c]
               \/ ~mem[c].pngFileOutdated /\ png'[c] = png[c] /\ saved'[c] = saved[c]
  <2>1. CASE mem[c].data = Blank /\ (fails => png[c] = NoFile)
    <3>1. /\ png' = [png EXCEPT ![c] = NoFile]
          /\ saved' = [saved EXCEPT ![c] = painted[c]] /\ painted' = painted
      BY <2>1 DEF DropChunk
    <3> QED BY <2>1, <3>1 DEF IInv, TypeOK, MemoryOK
  <2>2. CASE mem[c].data = Blank /\ fails /\ png[c] # NoFile
    <3>1. Lose({c}) /\ png' = png
      BY <2>2 DEF DropChunk
    <3> QED BY <3>1, LoseFacts DEF IInv, TypeOK, MemoryOK
  <2>3. CASE mem[c].data # Blank
    <3>1. ~mem[c].pngFileOutdated /\ UNCHANGED <<png, painted, saved>>
      BY <2>3 DEF DropChunk, history
    <3> QED BY <3>1 DEF IInv, TypeOK, MemoryOK
  <2> QED BY <2>1, <2>2, <2>3
<1>7. TypeOK'
  BY <1>1, <1>2, <1>6 DEF IInv, TypeOK
<1>8. MemoryOK'
  BY <1>1, <1>3, <1>6 DEF IInv, MemoryOK
<1>9. ASSUME NEW d \in Chunks, painted'[d] # Lost PROVE ContentKept(d)'
  <2>1. painted'[d] = painted[d] /\ ContentKept(d)
    BY <1>6, <1>9 DEF IInv, ContentsKept
  <2>2. CASE d # c
    BY <1>1, <1>2, <1>3, <1>6, <2>1, <2>2, LeftAlone
  <2>3. CASE d = c
    <3>1. /\ mem[c].data = painted[c] /\ pxr[c] = NoFile /\ InImage(c)
          /\ ~mem[c].pngFileOutdated => painted[c] = saved[c]
      BY <1>1, <2>1, <2>3, ContentFacts DEF ContentKept
    <3>2. InImage(c)' /\ saved'[c] = painted[c]
      BY <1>1, <1>6, <1>9, <2>3, <3>1 DEF InImage, Image
    <3> QED BY <1>1, <1>2, <1>3, <1>4, <2>1, <2>3, <3>2 DEF ContentKept
  <2> QED BY <2>2, <2>3
<1> QED BY <1>5, <1>7, <1>8, <1>9 DEF IInv, ContentsKept

(* The end of a save, or of an unload of chunks. *)
LEMMA EndSaveInv == ASSUME IInv, EndSave PROVE IInv'
<1>1. /\ op.kind \in {"save", "unload"} /\ op.todo = {} /\ ~op.gone /\ op.at = NoChunk
      /\ op' = Idle /\ Converting = {} /\ Converting' = {}
      /\ UNCHANGED <<png, pxr, pchunks, loaded, remaining, pclust, mem, painted, saved>>
  BY DEF IInv, OpOK, EndSave, Idle, Converting, files, history
<1>2. op' \in Operations /\ op'.at = NoChunk /\ op'.kind = "none" /\ op'.todo = {} /\ ~op'.gone
  BY <1>1, ContentFacts DEF Idle
<1>3. TypeOK' /\ OpOK' /\ MemoryOK'
  BY <1>1, <1>2, ContentFacts DEF IInv, TypeOK, OpOK, MemoryOK, Idle
<1>4. ASSUME NEW d \in Chunks, painted'[d] # Lost PROVE ContentKept(d)'
  <2>1. ContentKept(d)
    BY <1>1, <1>4 DEF IInv, ContentsKept
  <2> QED BY <1>1, <1>2, <2>1, ContentFacts, LeftAlone
<1> QED BY <1>3, <1>4 DEF IInv, ContentsKept

-----------------------------------------------------------------------------
(* The end of the process *)

(* While the world is on its way out, and in memory no more, the files     *)
(* have every chunk nobody has lost.                                       *)
LEMMA AllOnDisk ==
    ASSUME IInv, op.gone, op.todo = {}
    PROVE  /\ op.kind \in {"unload", "protections"} /\ op.at = NoChunk /\ loaded
           /\ \A c \in Chunks : mem[c] = NoChunk
           /\ \A c \in Chunks : painted[c] # Lost =>
                 InCluster(c) \/ (InImage(c) /\ painted[c] = saved[c])
<1>1. /\ op.kind \in {"unload", "protections"} /\ op.at = NoChunk /\ loaded
      /\ \A c \in Chunks : mem[c] = NoChunk
  BY DEF IInv, OpOK, MemoryOK, Idle
<1>2. \A c \in Chunks : painted[c] # Lost =>
         InCluster(c) \/ (InImage(c) /\ painted[c] = saved[c])
  <2> SUFFICES ASSUME NEW c \in Chunks, painted[c] # Lost
               PROVE  InCluster(c) \/ (InImage(c) /\ painted[c] = saved[c])
    OBVIOUS
  <2>1. ContentKept(c) /\ c \notin Converting
    BY <1>1 DEF IInv, ContentsKept, Converting
  <2> QED BY <1>1, <2>1 DEF ContentKept
<1> QED BY <1>1, <1>2

(* A process that ends with the files in order leaves the invariant true.  *)
LEMMA EndInv ==
    ASSUME TypeOK', MemoryOK', ~loaded', op' = Idle,
           \A c \in Chunks : painted'[c] # Lost =>
               /\ painted'[c] = saved'[c] /\ OnDisk(c)' = saved'[c]
               /\ pxr'[c] = NoFile \/ png'[c] = NoFile
    PROVE  IInv'
<1>1. OpOK'
  BY ContentFacts DEF OpOK, Idle
<1>2. ContentsKept'
  BY DEF ContentsKept, ContentKept
<1> QED BY <1>1, <1>2 DEF IInv

(* Every chunk is on disk, so the world goes; the file of protections has  *)
(* what memory had of them, but one that could not be removed.             *)
LEMMA UnloadedInv ==
    ASSUME IInv, NEW fails \in BOOLEAN, RemoveProtections(fails) \/ WriteProtections
    PROVE  IInv'
<1>1. op.gone /\ op.todo = {} /\ Unloaded /\ UNCHANGED <<png, pxr, mem>>
  BY DEF IInv, OpOK, RemoveProtections, WriteProtections
<1>2. /\ op.kind \in {"unload", "protections"}
      /\ \A c \in Chunks : mem[c] = NoChunk
      /\ \A c \in Chunks : painted[c] # Lost =>
            InCluster(c) \/ (InImage(c) /\ painted[c] = saved[c])
  BY <1>1, AllOnDisk
<1>3. /\ pchunks' \in SUBSET (Chunks \cup {Torn})
      /\ painted' \in [Chunks -> Contents \cup {Lost}]
      /\ saved' \in [Chunks -> Contents \cup {Lost}]
      /\ painted' = painted \/ painted' = saved
      /\ saved' = saved \/ saved' = painted
  BY DEF IInv, TypeOK, RemoveProtections, WriteProtections, history
<1>4. \A c \in Chunks : painted[c] = Lost <=> saved[c] = Lost
  BY DEF IInv, MemoryOK
<1>5. TypeOK' /\ MemoryOK'
  BY <1>1, <1>2, <1>3, <1>4, ContentFacts DEF IInv, TypeOK, MemoryOK, Unloaded
<1>6. ASSUME NEW c \in Chunks, painted'[c] # Lost
      PROVE  /\ painted'[c] = saved'[c] /\ OnDisk(c)' = saved'[c]
             /\ pxr'[c] = NoFile \/ png'[c] = NoFile
  <2>1. painted[c] # Lost
    BY <1>3, <1>4, <1>6
  <2>2. CASE InImage(c) /\ painted[c] = saved[c]
    BY <1>1, <1>3, <2>2 DEF InImage, OnDisk, Image
  <2>3. CASE InCluster(c)
    <3>1. painted'[c] = saved'[c] /\ saved'[c] = Cluster(c, ProtectedOnDisk')
      <4>1. CASE WriteProtections
        <5>1. /\ op.kind = "protections" /\ pchunks' = pclust
              /\ UNCHANGED <<painted, saved>>
          BY <4>1 DEF WriteProtections, history
        <5>2. pclust # {} /\ Torn \notin pclust
          BY <5>1, ContentFacts DEF IInv, OpOK, TypeOK
        <5>3. ProtectedOnDisk' = pclust
          BY <5>1, <5>2 DEF ProtectedOnDisk
        <5> QED BY <2>3, <5>1, <5>2, <5>3 DEF InCluster
      <4>2. CASE RemoveProtections(FALSE)
        <5>1. pclust = {} /\ pchunks' = {} /\ painted' = painted /\ saved' = painted
          BY <4>2 DEF RemoveProtections
        <5>2. ProtectedOnDisk' = {}
          BY <5>1 DEF ProtectedOnDisk
        <5> QED BY <2>3, <5>1, <5>2 DEF InCluster
      <4>3. CASE RemoveProtections(TRUE)
        <5>1. op.kind = "unload" /\ pchunks' = pchunks /\ painted' = saved /\ saved' = saved
          BY <4>3 DEF RemoveProtections
        <5>2. ProtectedOnDisk' = ProtectedOnDisk
          BY <5>1 DEF ProtectedOnDisk
        <5> QED BY <2>3, <5>1, <5>2 DEF InCluster
      <4> QED BY <4>1, <4>2, <4>3
    <3> QED BY <1>1, <2>3, <3>1 DEF InCluster, OnDisk, Cluster
  <2> QED BY <1>2, <2>1, <2>2, <2>3
<1> QED BY <1>1, <1>5, <1>6, EndInv DEF Unloaded

(* The files after the process is gone show what was saved, whatever it    *)
(* was doing: of the clusters in U, without their protections.             *)
LEMMA ForgetInv ==
    ASSUME IInv, loaded, NEW U, Forget(U), UNCHANGED <<png, pxr>>,
           pchunks' \in SUBSET (Chunks \cup {Torn}),
           \A c \in Chunks : InCluster(c) =>
               IF c \in U THEN c \notin ProtectedOnDisk'
               ELSE saved[c] = Cluster(c, ProtectedOnDisk')
    PROVE  IInv'
<1>1. /\ saved' = [c \in Chunks |->
             IF c \in Writing \/ saved[c] = Lost THEN Lost
             ELSE IF c \in U \cap OldClusters
                  THEN Bare(saved[c]) ELSE saved[c]]
      /\ painted' = saved' /\ ~loaded' /\ remaining' = {} /\ pclust' = {} /\ op' = Idle
      /\ mem' = [c \in Chunks |-> NoChunk]
  BY DEF Forget
<1>2. \A c \in Chunks : Bare(saved[c]) \in Contents \cup {Lost}
  BY BareFacts DEF IInv, TypeOK
<1>3. saved' \in [Chunks -> Contents \cup {Lost}]
  BY <1>1, <1>2 DEF IInv, TypeOK
<1>4. TypeOK'
  <2>1. png' \in [Chunks -> Contents \cup {NoFile}] /\ pxr' \in [Chunks -> Images \cup {NoFile}]
    BY DEF IInv, TypeOK
  <2>2. loaded' \in BOOLEAN
    BY DEF Forget
  <2>3. /\ remaining' \in SUBSET Chunks /\ pclust' \in SUBSET Chunks
        /\ mem' \in [Chunks -> InMemory \cup {NoChunk}] /\ op' \in Operations
    BY <1>1, ContentFacts
  <2> QED BY <1>1, <1>3, <2>1, <2>2, <2>3 DEF TypeOK
<1>5. MemoryOK'
  BY <1>1 DEF MemoryOK
<1>6. ASSUME NEW c \in Chunks, painted'[c] # Lost
      PROVE  /\ painted'[c] = saved'[c] /\ OnDisk(c)' = saved'[c]
             /\ pxr'[c] = NoFile \/ png'[c] = NoFile
  <2>1. /\ c \notin Writing /\ saved[c] # Lost /\ saved[c] \in Contents /\ painted[c] # Lost
        /\ saved'[c] = IF c \in U \cap OldClusters THEN Bare(saved[c]) ELSE saved[c]
    BY <1>1, <1>6 DEF IInv, TypeOK, MemoryOK
  <2>2. InCluster(c) \/ InImage(c)
    <3>1. ContentKept(c)
      BY <2>1 DEF IInv, ContentsKept
    <3>2. c = op.at => op.kind = "read" /\ c \in Converting
      BY <2>1, ContentFacts DEF IInv, TypeOK, OpOK, Operations, Idle,
         Writing, Converting
    <3>3. c = op.at => mem[c] = NoChunk
      BY <3>2 DEF IInv, OpOK
    <3>4. c \in Converting => c = op.at
      BY DEF Converting
    <3> QED BY <3>1, <3>2, <3>3, <3>4 DEF ContentKept
  <2>3. CASE InImage(c)
    BY <1>1, <2>1, <2>3 DEF InImage, OnDisk, Image, OldClusters
  <2>4. CASE InCluster(c)
    <3>1. c \in OldClusters /\ pxr[c] # NoFile /\ png[c] = NoFile
      BY <2>4 DEF InCluster, OldClusters
    <3>2. saved'[c] = [image |-> pxr[c], protected |-> c \in ProtectedOnDisk']
      <4>1. CASE c \in U
        <5>1. saved'[c] = [image |-> saved[c].image, protected |-> FALSE]
          BY <2>1, <3>1, <4>1, BareFacts
        <5>2. saved[c].image = pxr[c]
          <6>1. saved[c] = Cluster(c, pclust) \/ saved[c] = Cluster(c, ProtectedOnDisk)
            BY <2>4 DEF InCluster, IInv, OpOK
          <6> QED BY <6>1 DEF Cluster
        <5>3. (c \in ProtectedOnDisk') = FALSE
          BY <2>4, <4>1
        <5> QED BY <5>1, <5>2, <5>3
      <4>2. CASE c \notin U
        BY <2>1, <2>4, <4>2 DEF Cluster
      <4> QED BY <4>1, <4>2
    <3> QED BY <1>1, <3>1, <3>2 DEF OnDisk, Cluster
  <2> QED BY <2>2, <2>3, <2>4
<1> QED BY <1>1, <1>4, <1>5, <1>6, EndInv

(* pchunks.bin is opened, or the process ends. *)
LEMMA OpenProtectionsInv ==
    ASSUME IInv, NEW fails \in BOOLEAN, OpenProtections(fails)
    PROVE  IInv'
<1>1. /\ op.gone /\ op.todo = {} /\ op.kind = "unload" /\ pclust # {} /\ UNCHANGED <<png, pxr>>
  BY DEF OpenProtections
<1>2. /\ op.at = NoChunk /\ loaded
      /\ \A c \in Chunks : mem[c] = NoChunk
      /\ \A c \in Chunks : painted[c] # Lost =>
            InCluster(c) \/ (InImage(c) /\ painted[c] = saved[c])
  BY <1>1, AllOnDisk
<1>3. CASE fails
  <2>1. Forget({}) /\ pchunks' = pchunks
    BY <1>3 DEF OpenProtections
  <2>2. \A c \in Chunks : InCluster(c) => saved[c] = Cluster(c, ProtectedOnDisk')
    BY <1>1, <2>1 DEF InCluster, ProtectedOnDisk
  <2> QED BY <1>1, <1>2, <2>1, <2>2, ForgetInv DEF IInv, TypeOK
<1>4. CASE ~fails
  <2>1. /\ pchunks' = {Torn} /\ op' = [op EXCEPT !.kind = "protections"]
        /\ UNCHANGED <<loaded, remaining, pclust, mem, painted, saved>>
    BY <1>4 DEF OpenProtections, history
  <2>2. /\ op' \in Operations /\ op'.kind = "protections" /\ op'.gone /\ op'.at = NoChunk
        /\ op'.todo = {} /\ Converting' = {}
    BY <1>1, <1>2, <2>1 DEF IInv, TypeOK, Operations, Converting
  <2>3. TypeOK' /\ OpOK' /\ MemoryOK'
    BY <1>1, <1>2, <2>1, <2>2 DEF IInv, TypeOK, OpOK, MemoryOK
  <2>4. ASSUME NEW c \in Chunks, painted'[c] # Lost PROVE ContentKept(c)'
    <3>1. ContentKept(c) /\ (InCluster(c) \/ (InImage(c) /\ painted[c] = saved[c]))
      BY <1>2, <2>1, <2>4 DEF IInv, ContentsKept
    <3>2. InCluster(c) => InCluster(c)'
      BY <1>1, <2>1, <2>2 DEF InCluster, Cluster
    <3>3. InImage(c) => InImage(c)' /\ c \notin remaining
      BY <1>1, <2>1 DEF InImage, Image, IInv, MemoryOK
    <3> QED BY <1>2, <2>1, <2>2, <3>1, <3>2, <3>3 DEF ContentKept
  <2> QED BY <2>3, <2>4 DEF IInv, ContentsKept
<1> QED BY <1>3, <1>4

(* A kill, at any time. *)
LEMMA CrashInv == ASSUME IInv, Crash PROVE IInv'
<1>1. loaded /\ UNCHANGED <<png, pxr>>
  BY DEF Crash
<1>2. CASE op.kind # "protections"
  <2>1. Forget({}) /\ pchunks' = pchunks
    BY <1>2 DEF Crash
  <2>2. \A c \in Chunks : InCluster(c) => saved[c] = Cluster(c, ProtectedOnDisk')
    BY <1>2, <2>1 DEF InCluster, ProtectedOnDisk
  <2> QED BY <1>1, <2>1, <2>2, ForgetInv DEF IInv, TypeOK
<1>3. CASE op.kind = "protections"
  <2>1. PICK P \in SUBSET pclust :
           \/ pchunks' = P /\ Forget(pclust \ P)
           \/ pchunks' = P \cup {Torn} /\ Forget(pclust)
    BY <1>3 DEF Crash
  <2>2. P \in SUBSET Chunks /\ Torn \notin P
    BY ContentFacts DEF IInv, TypeOK
  <2>5. \A c \in Chunks : InCluster(c) => saved[c] = Cluster(c, pclust)
    BY <1>3 DEF InCluster, IInv, OpOK
  <2>3. CASE pchunks' = P /\ Forget(pclust \ P)
    <3>1. ProtectedOnDisk' = P /\ pchunks' \in SUBSET (Chunks \cup {Torn})
      BY <2>2, <2>3 DEF ProtectedOnDisk
    <3>2. \A c \in Chunks : InCluster(c) =>
             IF c \in pclust \ P THEN c \notin ProtectedOnDisk'
             ELSE saved[c] = Cluster(c, ProtectedOnDisk')
      BY <2>1, <2>5, <3>1 DEF Cluster
    <3> QED BY <1>1, <2>3, <3>1, <3>2, ForgetInv
  <2>4. CASE pchunks' = P \cup {Torn} /\ Forget(pclust)
    <3>1. ProtectedOnDisk' = {} /\ pchunks' \in SUBSET (Chunks \cup {Torn})
      BY <2>2, <2>4 DEF ProtectedOnDisk
    <3>2. \A c \in Chunks : InCluster(c) =>
             IF c \in pclust THEN c \notin ProtectedOnDisk'
             ELSE saved[c] = Cluster(c, ProtectedOnDisk')
      BY <2>5, <3>1 DEF Cluster
    <3> QED BY <1>1, <2>4, <3>1, <3>2, ForgetInv
  <2> QED BY <2>1, <2>3, <2>4
<1> QED BY <1>2, <1>3

-----------------------------------------------------------------------------
(* Every step keeps the invariant. *)
LEMMA NextIInv == IInv /\ [Next]_vars => IInv'
<1> SUFFICES ASSUME IInv, [Next]_vars PROVE IInv'
  OBVIOUS
<1>1. CASE \E unopened, unlisted \in BOOLEAN : Load(unopened, unlisted)
  BY <1>1, LoadInv
<1>2. CASE Crash
  BY <1>2, CrashInv
<1>3. ASSUME NEW c \in Chunks, NEW fails \in BOOLEAN,
             ReadImage(c, fails) \/ ReadCluster(c, fails)
             \/ OpenImage(c, fails) \/ DropChunk(c, fails)
      PROVE  IInv'
  BY <1>3, ReadImageInv, ReadClusterInv, OpenImageInv, DropChunkInv
<1>4. ASSUME NEW fails \in BOOLEAN,
             RemoveCluster(fails) \/ OpenConverted(fails)
             \/ WriteImage(fails) \/ RemoveProtections(fails) \/ OpenProtections(fails)
      PROVE  IInv'
  BY <1>4, RemoveClusterInv, OpenConvertedInv, WriteImageInv, UnloadedInv, OpenProtectionsInv
<1>5. ASSUME NEW next \in BOOLEAN, NEW fails \in BOOLEAN, Converted(next, fails)
      PROVE  IInv'
  BY <1>5, ConvertedInv
<1>6. ASSUME NEW c \in Chunks,
             \/ \E v \in Images : Paint(c, v)
             \/ \E on \in BOOLEAN : SetAreaProtection(c, on)
      PROVE  IInv'
  BY <1>6, EditsInv
<1>7. CASE BeginSave \/ \E S \in SUBSET Kept, gone \in BOOLEAN : BeginUnload(S, gone)
  BY <1>7, BeginInv
<1>8. CASE EndSave
  BY <1>8, EndSaveInv
<1>9. CASE WriteProtections
  BY <1>9, UnloadedInv
<1>10. CASE UNCHANGED vars
  <2>1. UNCHANGED <<png, pxr, pchunks, loaded, remaining, pclust, mem, op, painted, saved>>
    BY <1>10 DEF vars, files, memory, history
  <2> QED BY <2>1 DEF IInv, TypeOK, OpOK, MemoryOK, ContentsKept, ContentKept, InCluster,
         InImage, OnDisk, ProtectedOnDisk, Cluster, Image, Converting
<1> QED BY <1>1, <1>2, <1>3, <1>4, <1>5, <1>6, <1>7, <1>8, <1>9, <1>10 DEF Next

(* The invariant holds throughout. *)
LEMMA AlwaysIInv == Spec => []IInv
BY InitIInv, NextIInv, PTL DEF Spec

(* A chunk nobody has lost is shown as players made it. *)
LEMMA AllShown ==
    ASSUME IInv, NEW c \in Chunks, painted[c] # Lost
    PROVE  Shown(c) = painted[c]
<1>1. ContentKept(c)
  BY DEF IInv, ContentsKept
<1>2. CASE ~loaded
  BY <1>1, <1>2 DEF ContentKept, Shown
<1>3. CASE loaded /\ mem[c] # NoChunk
  <2>1. c \notin Converting
    BY <1>3 DEF IInv, OpOK, Converting
  <2> QED BY <1>1, <1>3, <2>1 DEF ContentKept, Shown
<1>4. CASE loaded /\ mem[c] = NoChunk /\ c \in Converting
  <2>1. IF op.kind = "read" THEN InCluster(c) ELSE op.content = painted[c]
    BY <1>1, <1>4 DEF ContentKept
  <2>2. c = op.at
    BY <1>4 DEF Converting
  <2> QED BY <1>4, <2>1, <2>2 DEF InCluster, Shown, InConversion
<1>5. CASE loaded /\ mem[c] = NoChunk /\ c \notin Converting
  <2>1. /\ c \in remaining => InCluster(c)
        /\ c \notin remaining =>
              (InImage(c) /\ painted[c] = saved[c]) \/ (op.gone /\ InCluster(c))
    BY <1>1, <1>5 DEF ContentKept
  <2>2. CASE InCluster(c) /\ (c \in remaining \/ op.gone)
    BY <1>5, <2>1, <2>2 DEF InCluster, Shown
  <2>3. CASE InImage(c) /\ painted[c] = saved[c] /\ c \notin remaining
    BY <1>5, <2>1, <2>3 DEF InImage, Shown
  <2> QED BY <2>1, <2>2, <2>3
<1> QED BY <1>2, <1>3, <1>4, <1>5

(* The files show what was saved of it, but while they are rewritten. *)
LEMMA AllKept ==
    ASSUME IInv, NEW c \in Chunks, saved[c] # Lost
    PROVE  KeptOf(c) = saved[c]
<1>1. painted[c] # Lost /\ ContentKept(c)
  BY DEF IInv, MemoryOK, ContentsKept
<1>2. CASE ~loaded
  BY <1>1, <1>2 DEF ContentKept, KeptOf
<1>3. CASE loaded /\ c \notin Writing /\ ~(op.kind = "protections" /\ c \in pclust)
  <2>1. InCluster(c) \/ InImage(c)
    <3>1. c = op.at => op.kind = "read" /\ c \in Converting
      BY <1>3, ContentFacts DEF IInv, TypeOK, OpOK, Operations, Idle, Writing, Converting
    <3>2. c \in Converting => c = op.at
      BY DEF Converting
    <3>3. c \in Converting => mem[c] = NoChunk /\ op.kind = "read"
      BY <1>3, <3>2, ContentFacts DEF IInv, OpOK, Writing, Converting
    <3> QED BY <1>1, <1>3, <3>1, <3>3 DEF ContentKept
  <2>2. CASE InImage(c)
    BY <1>3, <2>2 DEF InImage, KeptOf, OnDisk
  <2>3. CASE InCluster(c)
    <3>1. saved[c] = Cluster(c, ProtectedOnDisk)
      <4>1. CASE op.kind # "protections"
        BY <2>3, <4>1 DEF InCluster
      <4>2. CASE op.kind = "protections"
        <5>1. saved[c] = Cluster(c, pclust)
          BY <2>3, <4>2 DEF InCluster, IInv, OpOK
        <5>2. c \notin pclust /\ c \notin ProtectedOnDisk
          BY <1>3, <4>2 DEF IInv, OpOK, ProtectedOnDisk
        <5> QED BY <5>1, <5>2 DEF Cluster
      <4> QED BY <4>1, <4>2
    <3> QED BY <1>3, <2>3, <3>1 DEF InCluster, KeptOf, OnDisk
  <2> QED BY <2>1, <2>2, <2>3
<1> QED BY <1>2, <1>3 DEF KeptOf

(* Files and memory have the contents their code expects. *)
THEOREM TypeCorrect == Spec => []TypeOK
<1>1. IInv => TypeOK
  BY DEF IInv
<1> QED BY <1>1, AlwaysIInv, PTL

(* However many chunks a world has, and whenever the process is killed, a  *)
(* call fails or a start does not see its files, a chunk that is not given *)
(* up shows what players made of it.  Given up is the chunk whose file was *)
(* in the works and, by a start that cannot list the directory, what is    *)
(* yet to be converted; no more than protections of the same is lost by a  *)
(* start that cannot open pchunks.bin and by a kill that finds it half     *)
(* written.                                                                *)
THEOREM ContentsAreKept == Spec => []ContentsSurvive
<1>1. IInv => ContentsSurvive
  BY AllShown DEF ContentsSurvive
<1> QED BY <1>1, AlwaysIInv, PTL

(* No conversion overwrites an image that players have made, but over a    *)
(* cluster that could not be removed or that a start did not see.          *)
THEOREM ConversionsAreSafe == Spec => []ConversionIsSafe
<1>1. IInv => ConversionIsSafe
  <2> SUFFICES ASSUME IInv, NEW c \in remaining
               PROVE  /\ pxr[c] # NoFile /\ mem[c] = NoChunk
                      /\ painted[c] # Lost => png[c] = NoFile
    BY DEF ConversionIsSafe
  <2>1. pxr[c] # NoFile /\ mem[c] = NoChunk /\ c \in Chunks /\ loaded
    BY DEF IInv, MemoryOK, TypeOK
  <2>2. painted[c] # Lost => InCluster(c)
    BY <2>1 DEF IInv, ContentsKept, ContentKept
  <2> QED BY <2>1, <2>2 DEF InCluster
<1> QED BY <1>1, AlwaysIInv, PTL

-----------------------------------------------------------------------------
(* The refinement of ChunkStore *)

StoreShown == [c \in Chunks |-> IF painted[c] = Lost THEN Lost ELSE Shown(c)]

StoreKept == [c \in Chunks |-> IF saved[c] = Lost THEN Lost ELSE KeptOf(c)]

(* The store is what the histories say of it. *)
LEMMA StoreView == IInv => StoreShown = painted /\ StoreKept = saved
<1> SUFFICES ASSUME IInv PROVE StoreShown = painted /\ StoreKept = saved
  OBVIOUS
<1>1. painted \in [Chunks -> Contents \cup {Lost}] /\ saved \in [Chunks -> Contents \cup {Lost}]
  BY DEF IInv, TypeOK
<1>2. \A c \in Chunks : StoreShown[c] = painted[c] /\ StoreKept[c] = saved[c]
  BY AllShown, AllKept DEF StoreShown, StoreKept
<1> QED BY <1>1, <1>2 DEF StoreShown, StoreKept

(* So it is after a step. *)
LEMMA StoreViewNext == IInv' => (StoreShown = painted /\ StoreKept = saved)'
BY StoreView, PTL

(* What a step may make of the histories, in the words of ChunkStore. *)
HistoryUse ==
    \/ saved' = painted /\ UNCHANGED painted
    \/ \E c \in Chunks : saved' = [saved EXCEPT ![c] = painted[c]] /\ UNCHANGED painted
    \/ \E c \in Chunks \ OldClusters', i \in Images :
          /\ painted[c] # Lost /\ ~painted[c].protected
          /\ painted' = [painted EXCEPT ![c].image = i] /\ UNCHANGED saved
    \/ \E c \in Chunks \ OldClusters', on \in BOOLEAN :
          /\ painted[c] # Lost
          /\ painted' = [painted EXCEPT ![c].protected = on] /\ UNCHANGED saved

HistoryHarm ==
    \/ \E c \in Chunks : Lose({c})
    \/ Lose(OldClusters)
    \/ /\ painted' = [c \in Chunks |-> IF c \in OldClusters THEN Bare(painted[c]) ELSE painted[c]]
       /\ UNCHANGED saved
    \/ \E c \in Chunks : saved' = [saved EXCEPT ![c] = Lost] /\ painted' = saved'
    \/ \E U \in SUBSET OldClusters :
          /\ saved' = [c \in Chunks |-> IF c \in U THEN Bare(saved[c]) ELSE saved[c]]
          /\ painted' = saved'

(* They are steps of the store. *)
LEMMA HistoryIsStore ==
    ASSUME IInv, IInv', HistoryUse \/ HistoryHarm \/ UNCHANGED history
    PROVE  Store!Use \/ Store!Harm
<1>1. StoreShown = painted /\ StoreKept = saved /\ StoreShown' = painted' /\ StoreKept' = saved'
  BY StoreView, StoreViewNext
<1>2. painted \in [Chunks -> Contents \cup {Lost}] /\ saved \in [Chunks -> Contents \cup {Lost}]
  BY DEF IInv, TypeOK
<1>3. ASSUME NEW S \in SUBSET Chunks, UNCHANGED painted,
             saved' = [d \in Chunks |-> IF d \in S THEN painted[d] ELSE saved[d]]
      PROVE  Store!Use
  <2>1. Store!Save(S)
    BY <1>1, <1>3 DEF Store!Save, Store!Update, StoreShown, StoreKept
  <2> QED BY <2>1 DEF Store!Use
<1>4. CASE UNCHANGED history
  <2>1. saved' = [d \in Chunks |-> IF d \in {} THEN painted[d] ELSE saved[d]]
    BY <1>2, <1>4 DEF history
  <2>2. {} \in SUBSET Chunks
    OBVIOUS
  <2> QED BY <1>3, <1>4, <2>1, <2>2 DEF history
<1>5. CASE saved' = painted /\ UNCHANGED painted
  <2>1. saved' = [d \in Chunks |-> IF d \in Chunks THEN painted[d] ELSE saved[d]]
    BY <1>2, <1>5
  <2> QED BY <1>3, <1>5, <2>1
<1>6. ASSUME NEW c \in Chunks, saved' = [saved EXCEPT ![c] = painted[c]], UNCHANGED painted
      PROVE  Store!Use
  <2>1. saved' = [d \in Chunks |-> IF d \in {c} THEN painted[d] ELSE saved[d]]
    BY <1>2, <1>6
  <2>2. {c} \in SUBSET Chunks
    OBVIOUS
  <2> QED BY <1>3, <1>6, <2>1, <2>2
<1>7. saved = [d \in Chunks |-> IF d \in {} THEN painted[d] ELSE saved[d]]
  BY <1>2
<1>8. ASSUME NEW c \in Chunks \ OldClusters', NEW i \in Images, painted[c] # Lost,
             ~painted[c].protected, painted' = [painted EXCEPT ![c].image = i], UNCHANGED saved
      PROVE  Store!Paint(c, i, {})
  BY <1>1, <1>7, <1>8 DEF Store!Paint, Store!Update, StoreShown, StoreKept
<1>9. ASSUME NEW c \in Chunks \ OldClusters', NEW on \in BOOLEAN, painted[c] # Lost,
             painted' = [painted EXCEPT ![c].protected = on], UNCHANGED saved
      PROVE  Store!Protect(c, on, {})
  BY <1>1, <1>7, <1>9 DEF Store!Protect, Store!Update, StoreShown, StoreKept
<1>10. CASE HistoryUse
  <2>1. {} \in SUBSET Chunks
    OBVIOUS
  <2> QED BY <1>5, <1>6, <1>8, <1>9, <1>10, <2>1, Zenon DEF HistoryUse, Store!Use
<1>11. CASE HistoryHarm
  <2>1. ASSUME NEW c \in Chunks, Lose({c}) PROVE Store!Harm
    <3>1. Store!Fail({c})
      BY <1>1, <2>1 DEF Lose, Store!Fail, StoreShown, StoreKept
    <3> QED BY <3>1 DEF Store!Harm
  <2>2. CASE Lose(OldClusters)
    <3>1. Store!Fail(OldClusters)
      BY <1>1, <2>2 DEF Lose, Store!Fail, StoreShown, StoreKept
    <3> QED BY <3>1 DEF Store!Harm
  <2>3. CASE /\ painted' = [c \in Chunks |-> IF c \in OldClusters THEN Bare(painted[c])
                                                                ELSE painted[c]]
             /\ UNCHANGED saved
    <3>1. Store!StartBare
      BY <1>1, <2>3 DEF Store!StartBare, Store!Bare, Bare, StoreShown, StoreKept
    <3> QED BY <3>1 DEF Store!Harm
  <2>4. ASSUME NEW c \in Chunks, saved' = [saved EXCEPT ![c] = Lost], painted' = saved'
        PROVE  Store!RestartWithout(c)
    BY <1>1, <2>4 DEF Store!RestartWithout, StoreShown, StoreKept
  <2>5. ASSUME NEW U \in SUBSET OldClusters, painted' = saved',
               saved' = [c \in Chunks |-> IF c \in U THEN Bare(saved[c]) ELSE saved[c]]
        PROVE  Store!RestartBare(U)
    BY <1>1, <2>5 DEF Store!RestartBare, Store!Bare, Bare, StoreShown, StoreKept
  <2> QED BY <1>11, <2>1, <2>2, <2>3, <2>4, <2>5, Zenon DEF HistoryHarm, Store!Harm
<1> QED BY <1>4, <1>10, <1>11

(* A step that loses one chunk, or none. *)
LEMMA LoseOne ==
    ASSUME TypeOK, NEW C, Lose(C)
    PROVE  /\ C = {} => UNCHANGED history
           /\ \A c \in Chunks : C = {c} => HistoryHarm
<1>1. painted \in [Chunks -> Contents \cup {Lost}] /\ saved \in [Chunks -> Contents \cup {Lost}]
      /\ painted' = [c \in Chunks |-> IF c \in C THEN Lost ELSE painted[c]]
      /\ saved' = [c \in Chunks |-> IF c \in C THEN Lost ELSE saved[c]]
  BY DEF Lose, TypeOK
<1>2. C = {} => painted' = painted /\ saved' = saved
  BY <1>1
<1>3. \A c \in Chunks : C = {c} => Lose({c})
  OBVIOUS
<1> QED BY <1>2, <1>3 DEF history, HistoryHarm

(* The end of the process is a restart of the store, without the chunk     *)
(* that was being written or without the protections in U.                 *)
LEMMA ForgetHarm ==
    ASSUME IInv, NEW U, Forget(U), U = {} \/ Writing = {}
    PROVE  HistoryHarm
<1>1. /\ saved' = [c \in Chunks |->
             IF c \in Writing \/ saved[c] = Lost THEN Lost
             ELSE IF c \in U \cap OldClusters THEN Bare(saved[c]) ELSE saved[c]]
      /\ painted' = saved'
      /\ saved \in [Chunks -> Contents \cup {Lost}]
  BY DEF Forget, IInv, TypeOK
<1>2. CASE Writing = {}
  <2> DEFINE B == U \cap OldClusters
  <2>1. B \in SUBSET OldClusters
    OBVIOUS
  <2>2. saved' = [c \in Chunks |-> IF c \in B THEN Bare(saved[c]) ELSE saved[c]]
    BY <1>1, <1>2, BareFacts
  <2> HIDE DEF B
  <2> QED BY <1>1, <2>1, <2>2, Zenon DEF HistoryHarm
<1>3. CASE U = {} /\ Writing # {}
  <2>1. Writing = {op.at} /\ op.at \in Chunks
    BY <1>3 DEF Writing, IInv, TypeOK, Operations
  <2>2. saved' = [saved EXCEPT ![op.at] = Lost]
    BY <1>1, <1>3, <2>1
  <2> QED BY <1>1, <2>1, <2>2, Zenon DEF HistoryHarm
<1> QED BY <1>2, <1>3

(* The end of the world is a save of what memory had of the protections,   *)
(* or brings back what the file has.                                       *)
LEMMA RemoveProtectionsUse ==
    ASSUME IInv, NEW fails \in BOOLEAN, RemoveProtections(fails)
    PROVE  HistoryUse \/ HistoryHarm
<1>1. CASE ~fails
  BY <1>1 DEF RemoveProtections, HistoryUse
<1>2. CASE fails
  <2>1. painted' = saved' /\ saved' = saved
    BY <1>2 DEF RemoveProtections
  <2>2. saved' = [c \in Chunks |-> IF c \in {} THEN Bare(saved[c]) ELSE saved[c]]
    BY <2>1 DEF IInv, TypeOK
  <2>3. {} \in SUBSET OldClusters
    OBVIOUS
  <2> QED BY <2>1, <2>2, <2>3, Zenon DEF HistoryHarm
<1> QED BY <1>1, <1>2

(* A player changes the chunk that is in memory, if nobody has lost it. *)
LEMMA EditUse ==
    ASSUME IInv, NEW c \in Chunks,
           \/ \E v \in Images : Paint(c, v)
           \/ \E on \in BOOLEAN : SetAreaProtection(c, on)
    PROVE  HistoryUse \/ UNCHANGED history
<1>1. painted \in [Chunks -> Contents \cup {Lost}] /\ c \in Kept /\ loaded
      /\ UNCHANGED <<saved, pxr>>
  BY DEF IInv, TypeOK, Paint, SetAreaProtection, Edit, files
<1>2. CASE painted[c] = Lost
  <2>1. \E d : painted' = [painted EXCEPT ![c] = IF @ = Lost THEN Lost ELSE d]
    BY DEF Paint, SetAreaProtection, Edit
  <2> QED BY <1>1, <1>2, <2>1 DEF history
<1>3. CASE painted[c] # Lost
  <2>1. mem[c].data = painted[c] /\ c \in Chunks \ OldClusters'
    BY <1>1, <1>3 DEF IInv, ContentsKept, ContentKept, Kept, OldClusters
  <2>2. ASSUME NEW v \in Images, Paint(c, v)
        PROVE  HistoryUse
    <3>1. ~painted[c].protected /\ painted' = [painted EXCEPT ![c].image = v]
      BY <1>3, <2>1, <2>2 DEF Paint, Edit
    <3> QED BY <1>1, <1>3, <2>1, <3>1 DEF HistoryUse
  <2>3. ASSUME NEW on \in BOOLEAN, SetAreaProtection(c, on)
        PROVE  HistoryUse
    <3>1. painted' = [painted EXCEPT ![c].protected = on]
      BY <1>3, <2>1, <2>3 DEF SetAreaProtection, Edit
    <3> QED BY <1>1, <1>3, <2>1, <3>1 DEF HistoryUse
  <2> QED BY <2>2, <2>3
<1> QED BY <1>2, <1>3

(* Every step is one of the store, or none. *)
LEMMA NextHistory ==
    ASSUME IInv, [Next]_vars
    PROVE  HistoryUse \/ HistoryHarm \/ UNCHANGED history
<1>0. TypeOK
  BY DEF IInv
<1>1. CASE BeginSave \/ EndSave \/ WriteProtections
           \/ \E S \in SUBSET Kept, gone \in BOOLEAN : BeginUnload(S, gone)
  BY <1>1, Zenon DEF BeginSave, EndSave, WriteProtections, BeginUnload
<1>7. ASSUME NEW unopened \in BOOLEAN, NEW unlisted \in BOOLEAN, Load(unopened, unlisted)
      PROVE  HistoryHarm \/ UNCHANGED history
  BY <1>7, Zenon DEF Load, HistoryHarm
<1>2. CASE Crash
  <2>1. CASE op.kind # "protections"
    <3>1. Forget({})
      BY <1>2, <2>1 DEF Crash
    <3> QED BY <3>1, ForgetHarm
  <2>2. CASE op.kind = "protections"
    <3>1. \E U : Forget(U)
      BY <1>2, <2>2, Zenon DEF Crash
    <3>2. Writing = {}
      BY <2>2 DEF Writing
    <3> QED BY <3>1, <3>2, ForgetHarm
  <2> QED BY <2>1, <2>2
<1>3. ASSUME NEW c \in Chunks, NEW fails \in BOOLEAN,
             ReadImage(c, fails) \/ ReadCluster(c, fails)
             \/ OpenImage(c, fails) \/ DropChunk(c, fails)
      PROVE  HistoryUse \/ HistoryHarm \/ UNCHANGED history
  <2>1. CASE ReadImage(c, fails)
    <3>1. Lose(IF fails THEN {c} ELSE {})
      BY <2>1 DEF ReadImage
    <3> QED BY <1>0, <3>1, LoseOne
  <2>2. CASE ReadCluster(c, fails)
    BY <2>2 DEF ReadCluster
  <2>3. CASE OpenImage(c, fails)
    <3>1. Lose({c}) \/ UNCHANGED history
      BY <2>3, Zenon DEF OpenImage
    <3> QED BY <1>0, <3>1, LoseOne
  <2>4. CASE DropChunk(c, fails)
    <3>1. \/ Lose({c}) \/ UNCHANGED history
          \/ saved' = [saved EXCEPT ![c] = painted[c]] /\ UNCHANGED painted
      BY <2>4, Zenon DEF DropChunk
    <3> QED BY <1>0, <3>1, LoseOne DEF HistoryUse
  <2> QED BY <1>3, <2>1, <2>2, <2>3, <2>4
<1>4. ASSUME NEW fails \in BOOLEAN,
             RemoveCluster(fails) \/ OpenConverted(fails)
             \/ WriteImage(fails) \/ RemoveProtections(fails) \/ OpenProtections(fails)
      PROVE  HistoryUse \/ HistoryHarm \/ UNCHANGED history
  <2>1. CASE RemoveCluster(fails) \/ OpenConverted(fails)
    <3>1. op.at \in Chunks
      BY <2>1 DEF RemoveCluster, OpenConverted, IInv, OpOK
    <3>2. Lose({op.at}) \/ Lose({}) \/ UNCHANGED history
      BY <2>1 DEF RemoveCluster, OpenConverted
    <3> QED BY <1>0, <3>1, <3>2, LoseOne
  <2>2. CASE WriteImage(fails)
    <3>1. op.at \in Chunks
      BY <2>2 DEF WriteImage, IInv, TypeOK, Operations
    <3>2. \/ Lose({op.at})
          \/ saved' = [saved EXCEPT ![op.at] = painted[op.at]] /\ UNCHANGED painted
      BY <2>2, Zenon DEF WriteImage
    <3> QED BY <1>0, <3>1, <3>2, LoseOne DEF HistoryUse
  <2>3. CASE RemoveProtections(fails)
    BY <2>3, RemoveProtectionsUse
  <2>4. CASE OpenProtections(fails)
    <3>1. Forget({}) \/ UNCHANGED history
      BY <2>4, Zenon DEF OpenProtections
    <3> QED BY <3>1, ForgetHarm
  <2> QED BY <1>4, <2>1, <2>2, <2>3, <2>4
<1>5. ASSUME NEW next \in BOOLEAN, NEW fails \in BOOLEAN, Converted(next, fails)
      PROVE  HistoryUse \/ HistoryHarm
  <2>1. op.at \in Chunks
    BY <1>5 DEF Converted, IInv, OpOK
  <2>2. \/ Lose({op.at})
        \/ saved' = [saved EXCEPT ![op.at] = painted[op.at]] /\ UNCHANGED painted
    BY <1>5 DEF Converted
  <2> QED BY <2>1, <2>2, Zenon DEF HistoryUse, HistoryHarm
<1>6. CASE UNCHANGED vars
  BY <1>6 DEF vars
<1> QED BY <1>1, <1>2, <1>3, <1>4, <1>5, <1>6, <1>7, EditUse DEF Next

(* No step brings a cluster file back. *)
LEMMA NextRenewed == ASSUME IInv, [Next]_vars PROVE Store!Renewed
<1>1. CASE UNCHANGED pxr
  BY <1>1 DEF Store!Renewed, OldClusters
<1>2. ASSUME NEW fails \in BOOLEAN, RemoveCluster(fails) PROVE Store!Renewed
  <2>1. pxr' = pxr \/ pxr' = [pxr EXCEPT ![op.at] = NoFile]
    BY <1>2 DEF RemoveCluster
  <2> QED BY <2>1 DEF Store!Renewed, OldClusters, IInv, TypeOK
<1> QED BY <1>1, <1>2 DEF Next, Load, Crash, ReadImage, ReadCluster, OpenImage, DropChunk,
    OpenConverted, WriteImage, RemoveProtections, OpenProtections, Converted, Paint,
    SetAreaProtection, Edit, BeginSave, BeginUnload, EndSave, WriteProtections, vars, files

(* Whatever fails and whenever the process is killed, the files and the    *)
(* memory of a world are a store of whole chunks: a failure harms one of   *)
(* them, but for a start that does not see its files and a kill that finds *)
(* pchunks.bin half written, which harm none but those yet to be           *)
(* converted.                                                              *)
THEOREM StorageIsStore == Spec => ImplementsStore
<1>1. Init => Store!StoreInit
  <2> SUFFICES ASSUME Init PROVE Store!StoreInit
    OBVIOUS
  <2>1. StoreShown = painted /\ StoreKept = saved
    BY InitIInv, StoreView
  <2>2. painted = [c \in Chunks |-> OnDisk(c)] /\ saved = painted
    BY DEF Init
  <2>3. \A c \in Chunks : OnDisk(c) \in [image : Images, protected : BOOLEAN]
    BY ImagesAssumption DEF Init, OnDisk, Cluster, Image, Blank
  <2>4. painted \in [Chunks -> [image : Images, protected : BOOLEAN]]
    BY <2>2, <2>3
  <2>5. OldClusters \in SUBSET Chunks
    BY DEF OldClusters
  <2> QED BY <2>1, <2>2, <2>4, <2>5 DEF StoreShown, StoreKept, Store!StoreInit, Store!Contents
<1>2. IInv /\ IInv' /\ [Next]_vars
         => [(Store!Use \/ Store!Harm) /\ Store!Renewed]_(Store!storeVars)
  BY NextHistory, HistoryIsStore, NextRenewed
<1> QED
  BY <1>1, <1>2, InitIInv, NextIInv, PTL DEF Spec, ImplementsStore, Store!StoreSpec
=============================================================================

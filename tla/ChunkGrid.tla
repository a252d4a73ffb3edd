----------------------------- MODULE ChunkGrid -----------------------------
(***************************************************************************)
(* How World and Chunk find a pixel and its protection: the coordinates of *)
(* a pixel, 32 bits wide, are cut into the position of a chunk and a place *)
(* in its image, and into a cell of its protection array. The pixel is     *)
(* passed to Chunk::setPixel in 16 bits. A chunk that is still in an old   *)
(* cluster file is converted by the first call that needs it: the table of *)
(* its regions becomes an image, and the list of its protected areas its   *)
(* protection array. Here every chunk stays loaded: World unloads chunks.  *)
(***************************************************************************)
EXTENDS Integers

CONSTANTS
    Xs, Ys,   \* the coordinates of the pixels that are painted
    Areas,    \* the areas that are protected, pairs of positions
    Colors,
    Bg,       \* World::getBackgroundColor
    Clusters,      \* the positions of the old cluster files
    ClusterFile,   \* ClusterFile[k][n][m]: pixel m of region n in the cluster at k
    NoRegion,      \* what the table has for a region that was never painted
    OldProtected   \* the areas listed in pchunks.bin

(* 2147483647, in numbers that the provers can read. *)
Int32Max == 32768 * 65535 + 32767

I32 == (-Int32Max - 1) .. Int32Max

ASSUME CoordinatesAssumption == Xs \subseteq I32 /\ Ys \subseteq I32

ASSUME AreasAssumption == Areas \subseteq I32 \X I32

ASSUME BgAssumption == Bg \in Colors

ASSUME OldAssumption ==
    /\ Clusters \subseteq I32 \X I32
    /\ OldProtected \subseteq Areas
    /\ NoRegion \notin [0..255 -> Colors]
    /\ ClusterFile \in [Clusters -> [0..1023 -> [0..255 -> Colors] \cup {NoRegion}]]

VARIABLES
    data,        \* data[k][l]: the pixel at l in the image of the chunk at k
    protection,  \* protection[k][n]: entry n of the protection array of the chunk at k
    answer,      \* what World::paint last returned
    remainingOldClusters,  \* the clusters that are not converted yet
    pclust       \* pclust[k]: the protected areas of the cluster at k

old == <<remainingOldClusters, pclust>>
vars == <<data, protection, answer, old>>

-----------------------------------------------------------------------------
Size == 512      \* Chunk::size

AreaSize == 16   \* Chunk::protectionAreaSize

Pc == Size \div AreaSize

Border == Int32Max \div Size

(* The shifts and masks of two's complement numbers, negative ones too. *)
ChunkPos(x) == x \div Size

AreaPos(x) == x \div AreaSize

AreaChunkPos(a) == a \div Pc

ChunkOf(a) == <<AreaChunkPos(a[1]), AreaChunkPos(a[2])>>

(* The place in the image, after the conversion to u16. In the first       *)
(* variant the parameter is a byte, in the second nothing is masked.       *)
LocalOfByte(x) == (x % 256) % Size

LocalUnmasked(x) == x % 65536

Local(x) == (x % 65536) % Size

(* The index in the protection array. *)
Cell(a, b) == (b % Pc) * Pc + (a % Pc)

VerifyChunkPos(k) ==
    /\ k[1] <= Border /\ k[2] <= Border
    /\ k[1] >= -Border - 1 /\ k[2] >= -Border - 1

Chunks ==
    {<<ChunkPos(x), ChunkPos(y)>> : x \in Xs, y \in Ys}
        \cup {ChunkOf(a) : a \in Areas} \cup Clusters

Places == {<<Local(x), Local(y)>> : x \in Xs, y \in Ys}

Cells ==
    {Cell(AreaPos(x), AreaPos(y)) : x \in Xs, y \in Ys}
        \cup {Cell(a[1], a[2]) : a \in Areas}

TypeOK ==
    /\ data \in [Chunks -> [Places -> Colors]]
    /\ Places \subseteq (0 .. Size - 1) \X (0 .. Size - 1)
    /\ protection \in [Chunks -> [Cells -> {0, 1}]]
    /\ Cells \subseteq 0 .. Pc * Pc - 1
    /\ answer \in BOOLEAN
    /\ remainingOldClusters \in SUBSET Clusters
    /\ pclust \in [Chunks -> SUBSET OldProtected]

-----------------------------------------------------------------------------
(* The old format: a cluster has a table of regions, of the size of areas, *)
(* and a region is a square of pixels, row by row.                         *)

Within(x, y) == (y % 16) * 16 + (x % 16)

PixelIn(region, x, y) == IF region = NoRegion THEN Bg ELSE region[Within(x, y)]

(* What applyTransform makes of the cluster at k. *)
Image(k) ==
    [l \in Places |->
        PixelIn(ClusterFile[k][Cell(l[1] \div 16, l[2] \div 16)], l[1], l[2])]

(* remove_if: the areas of the list that are in the chunk at k. *)
Moved(k) == {a \in pclust[k] : ChunkOf(a) = k}

Marks(k) == [n \in Cells |-> IF \E a \in Moved(k) : Cell(a[1], a[2]) = n THEN 1 ELSE 0]

(* The chunk that getChunk returns for position k, where maybeConvertChunk *)
(* has converted the cluster and the constructor has read its image.       *)
ImageOf(k) == IF k \in remainingOldClusters THEN Image(k) ELSE data[k]

MarksOf(k) == IF k \in remainingOldClusters THEN Marks(k) ELSE protection[k]

(* getChunk, when the call that needs the chunk at k makes image of its    *)
(* image, and marks of its protections.                                    *)
GetChunk(k, image, marks) ==
    /\ data' = [data EXCEPT ![k] = image]
    /\ protection' = [protection EXCEPT ![k] = marks]
    /\ remainingOldClusters' = remainingOldClusters \ {k}
    /\ pclust' = IF k \in remainingOldClusters
                 THEN [pclust EXCEPT ![k] = @ \ Moved(k)] ELSE pclust

-----------------------------------------------------------------------------
IsActionPaintAllowed(k, x, y) == MarksOf(k)[Cell(AreaPos(x), AreaPos(y))] = 0

Paint(x, y, c) ==
    LET k == <<ChunkPos(x), ChunkPos(y)>>
        l == <<Local(x), Local(y)>>
        allowed == VerifyChunkPos(k) /\ IsActionPaintAllowed(k, x, y)
    IN  /\ answer' = allowed
        /\ IF VerifyChunkPos(k)
           THEN GetChunk(k, IF allowed THEN [ImageOf(k) EXCEPT ![l] = c] ELSE ImageOf(k),
                         MarksOf(k))
           ELSE UNCHANGED <<data, protection, old>>

SetAreaProtection(a, state) ==
    LET k == ChunkOf(a)
        marks == [MarksOf(k) EXCEPT ![Cell(a[1], a[2])] = IF state THEN 1 ELSE 0]
    IN  GetChunk(k, ImageOf(k), marks) /\ UNCHANGED answer

ConvertNext(k) ==
    /\ k \in remainingOldClusters
    /\ GetChunk(k, ImageOf(k), MarksOf(k))
    /\ UNCHANGED answer

(* A view of the chunk at k, which is not on disk as an image. *)
SendChunk(k) ==
    /\ VerifyChunkPos(k)
    /\ k \in remainingOldClusters
    /\ GetChunk(k, ImageOf(k), MarksOf(k))
    /\ UNCHANGED answer

Init ==
    /\ data = [k \in Chunks |-> [l \in Places |-> Bg]]
    /\ protection = [k \in Chunks |-> [n \in Cells |-> 0]]
    /\ answer = FALSE
    /\ remainingOldClusters = Clusters
    /\ pclust = [k \in Chunks |-> {a \in OldProtected : ChunkOf(a) = k}]

Next ==
    \/ \E x \in Xs, y \in Ys, c \in Colors : Paint(x, y, c)
    \/ \E a \in Areas, state \in BOOLEAN : SetAreaProtection(a, state)
    \/ \E k \in Clusters : SendChunk(k) \/ ConvertNext(k)

Spec == Init /\ [][Next]_vars

-----------------------------------------------------------------------------
(* What the files and the chunks show of each pixel and of each area.      *)
(* FilePixel finds the pixel by its coordinates in the plane.              *)
FilePixel(p) ==
    PixelIn(ClusterFile[<<ChunkPos(p[1]), ChunkPos(p[2])>>][Cell(AreaPos(p[1]), AreaPos(p[2]))],
            p[1], p[2])

PixelAt(p) ==
    LET k == <<ChunkPos(p[1]), ChunkPos(p[2])>>
    IN  IF k \in remainingOldClusters
        THEN FilePixel(p) ELSE data[k][<<Local(p[1]), Local(p[2])>>]

Guarded(a) ==
    IF ChunkOf(a) \in remainingOldClusters
    THEN a \in pclust[ChunkOf(a)]
    ELSE protection[ChunkOf(a)][Cell(a[1], a[2])] = 1

Plane == INSTANCE Canvas WITH
    Points <- Xs \X Ys,
    Areas <- Areas,
    FirstCanvas <- [p \in Xs \X Ys |->
        IF <<ChunkPos(p[1]), ChunkPos(p[2])>> \in Clusters THEN FilePixel(p) ELSE Bg],
    FirstGuarded <- {a \in OldProtected : ChunkOf(a) \in Clusters},
    canvas <- [p \in Xs \X Ys |-> PixelAt(p)],
    guarded <- {a \in Areas : Guarded(a)},
    painted <- answer

(* The chunks implement a plane of pixels and protected squares: no two    *)
(* pixels share a place, a paint is refused exactly in the squares that    *)
(* were protected, and never because of where it is; and the plane does    *)
(* not change when a cluster is converted, which shows every pixel and     *)
(* protects every square as its files did.                                 *)
ImplementsCanvas == Plane!CanvasSpec
=============================================================================

-------------------------- MODULE ChunkGridProofs --------------------------
(***************************************************************************)
(* Proof that chunks implement a plane of pixels and protected squares,    *)
(* whatever 32 bit coordinates are painted and protected.                  *)
(***************************************************************************)
EXTENDS ChunkGrid, TLAPS

(* A coordinate is determined by its chunk and its place in the chunk: the *)
(* conversion to 16 bits takes away nothing that matters.                  *)
LEMMA PlaceIsUnique ==
    ASSUME NEW x \in Int, NEW z \in Int, ChunkPos(x) = ChunkPos(z), Local(x) = Local(z)
    PROVE  x = z
<1>1. (x % 65536) % 512 = x % 512 /\ (z % 65536) % 512 = z % 512
  OBVIOUS
<1>2. x \div 512 = z \div 512 /\ x % 512 = z % 512
  BY <1>1 DEF ChunkPos, Local, Size
<1>3. x = 512 * (x \div 512) + (x % 512) /\ z = 512 * (z \div 512) + (z % 512)
  OBVIOUS
<1> QED BY <1>2, <1>3

(* An area is determined by its chunk and its index. *)
LEMMA CellIsUnique ==
    ASSUME NEW a \in Int, NEW b \in Int, NEW c \in Int, NEW d \in Int,
           AreaChunkPos(a) = AreaChunkPos(c), AreaChunkPos(b) = AreaChunkPos(d),
           Cell(a, b) = Cell(c, d)
    PROVE  a = c /\ b = d
<1>1. Pc = 32
  BY DEF Pc, Size, AreaSize
<1>2. (b % 32) * 32 + (a % 32) = (d % 32) * 32 + (c % 32)
  BY <1>1 DEF Cell
<1>3. a % 32 = c % 32 /\ b % 32 = d % 32
  BY <1>2
<1>4. a \div 32 = c \div 32 /\ b \div 32 = d \div 32
  BY <1>1 DEF AreaChunkPos
<1> QED BY <1>3, <1>4

(* The area of a pixel is in the chunk of the pixel. *)
LEMMA AreaInChunk ==
    ASSUME NEW x \in Int
    PROVE  AreaPos(x) \in Int /\ AreaChunkPos(AreaPos(x)) = ChunkPos(x) /\ ChunkPos(x) \in Int
BY DEF AreaPos, AreaChunkPos, ChunkPos, Pc, Size, AreaSize

(* The range of 32 bits, as the provers need it. *)
LEMMA RangeOfI32 ==
    /\ Int32Max \in Int /\ Int32Max % 512 = 511
    /\ \A x \in I32 : x \in Int /\ x =< Int32Max /\ x >= -Int32Max - 1
<1>1. Int32Max \in Int /\ Int32Max % 512 = 511
  BY SMT DEF Int32Max
<1> QED BY <1>1, SMT DEF I32

(* No chunk of a 32 bit coordinate is beyond the border. *)
LEMMA EveryPixelHasAChunk ==
    ASSUME NEW x \in I32, NEW y \in I32
    PROVE  VerifyChunkPos(<<ChunkPos(x), ChunkPos(y)>>)
<1>1. \A z \in I32 : ChunkPos(z) =< Border /\ ChunkPos(z) >= -Border - 1
  BY RangeOfI32, SMT DEF ChunkPos, Border, Size
<1> QED BY <1>1, SMT DEF VerifyChunkPos

(* Places and indices are inside the image and the array. *)
LEMMA InsideChunk ==
    /\ \A x \in Int : Local(x) \in 0 .. Size - 1
    /\ \A a, b \in Int : Cell(a, b) \in 0 .. Pc * Pc - 1
<1>1. \A x \in Int : Local(x) \in 0 .. Size - 1
  BY DEF Local, Size
<1>2. Pc = 32
  BY DEF Pc, Size, AreaSize
<1>3. \A a, b \in Int : Cell(a, b) \in 0 .. Pc * Pc - 1
  BY <1>2 DEF Cell
<1> QED BY <1>1, <1>3

-----------------------------------------------------------------------------
(* The addresses that occur are addresses the variables have. *)
LEMMA Addresses ==
    /\ \A x \in Xs, y \in Ys :
          /\ x \in I32 /\ y \in I32 /\ x \in Int /\ y \in Int
          /\ <<ChunkPos(x), ChunkPos(y)>> \in Chunks
          /\ <<Local(x), Local(y)>> \in Places
          /\ Cell(AreaPos(x), AreaPos(y)) \in Cells
    /\ \A a \in Areas :
          /\ a[1] \in Int /\ a[2] \in Int /\ a = <<a[1], a[2]>>
          /\ ChunkOf(a) \in Chunks
          /\ Cell(a[1], a[2]) \in Cells
<1>1. I32 \subseteq Int
  BY RangeOfI32
<1> QED BY <1>1, CoordinatesAssumption, AreasAssumption, SMT DEF Chunks, Places, Cells

(* An address of an area: of one that is protected, or that a pixel is in. *)
IsAddress(b) ==
    /\ b = <<b[1], b[2]>> /\ b[1] \in Int /\ b[2] \in Int
    /\ ChunkOf(b) \in Chunks
    /\ Cell(b[1], b[2]) \in Cells

(* The areas have addresses, and so has the area of a pixel. *)
LEMMA AreaAddresses ==
    /\ \A a \in Areas : IsAddress(a)
    /\ \A x \in Xs, y \in Ys :
          /\ IsAddress(<<AreaPos(x), AreaPos(y)>>)
          /\ ChunkOf(<<AreaPos(x), AreaPos(y)>>) = <<ChunkPos(x), ChunkPos(y)>>
<1>1. \A a \in Areas : IsAddress(a)
  BY Addresses DEF IsAddress
<1>2. ASSUME NEW x \in Xs, NEW y \in Ys
      PROVE  /\ IsAddress(<<AreaPos(x), AreaPos(y)>>)
             /\ ChunkOf(<<AreaPos(x), AreaPos(y)>>) = <<ChunkPos(x), ChunkPos(y)>>
  BY Addresses, AreaInChunk DEF IsAddress, ChunkOf
<1> QED BY <1>1, <1>2

(* Areas with the same chunk and index are the same. *)
LEMMA AddressIsUnique ==
    ASSUME NEW a, NEW b, IsAddress(a), IsAddress(b), ChunkOf(a) = ChunkOf(b),
           Cell(a[1], a[2]) = Cell(b[1], b[2])
    PROVE  a = b
<1>1. AreaChunkPos(a[1]) = AreaChunkPos(b[1]) /\ AreaChunkPos(a[2]) = AreaChunkPos(b[2])
  BY DEF ChunkOf
<1>2. a[1] = b[1] /\ a[2] = b[2]
  BY <1>1, CellIsUnique DEF IsAddress
<1> QED BY <1>2 DEF IsAddress

-----------------------------------------------------------------------------
(* What is invariant: an entry of a protection array that a pixel looks at *)
(* is set only if the area of that pixel is one that may be protected.     *)
OnlyAreasProtected ==
    \A x \in Xs, y \in Ys :
        MarksOf(<<ChunkPos(x), ChunkPos(y)>>)[Cell(AreaPos(x), AreaPos(y))] # 0
            => <<AreaPos(x), AreaPos(y)>> \in Areas

Inv == TypeOK /\ OnlyAreasProtected

(* A pixel of a region is a color. *)
LEMMA PixelType ==
    ASSUME NEW k \in Clusters, NEW a \in Int, NEW b \in Int, NEW x \in Int, NEW y \in Int
    PROVE  PixelIn(ClusterFile[k][Cell(a, b)], x, y) \in Colors
<1>1. Cell(a, b) \in 0..1023
  <2>1. Pc = 32
    BY DEF Pc, Size, AreaSize
  <2>2. Cell(a, b) \in 0..Pc * Pc - 1
    BY InsideChunk
  <2> QED BY <2>1, <2>2
<1>2. ClusterFile[k][Cell(a, b)] \in [0..255 -> Colors] \cup {NoRegion}
  <2> DEFINE T == [0..255 -> Colors] \cup {NoRegion}
  <2>1. ClusterFile \in [Clusters -> [0..1023 -> T]]
    BY OldAssumption
  <2> HIDE DEF T
  <2>2. ClusterFile[k][Cell(a, b)] \in T
    BY <1>1, <2>1
  <2> QED BY <2>2 DEF T
<1>3. Within(x, y) \in 0..255
  BY DEF Within
<1> QED BY <1>2, <1>3, BgAssumption DEF PixelIn

(* What getChunk returns is an image and a protection array. *)
LEMMA ChunkTypes ==
    ASSUME TypeOK, NEW k \in Chunks
    PROVE  /\ ImageOf(k) \in [Places -> Colors]
           /\ MarksOf(k) \in [Cells -> {0, 1}]
<1>1. data[k] \in [Places -> Colors] /\ protection[k] \in [Cells -> {0, 1}]
  BY DEF TypeOK
<1>2. ASSUME k \in remainingOldClusters, NEW l \in Places
      PROVE  PixelIn(ClusterFile[k][Cell(l[1] \div 16, l[2] \div 16)], l[1], l[2]) \in Colors
  <2>1. l[1] \in Int /\ l[2] \in Int /\ l[1] \div 16 \in Int /\ l[2] \div 16 \in Int
    <3>1. l \in (0..511) \X (0..511)
      BY DEF TypeOK, Size
    <3>2. l[1] \in 0..511 /\ l[2] \in 0..511
      BY <3>1
    <3> QED BY <3>2
  <2>2. k \in Clusters
    BY <1>2 DEF TypeOK
  <2> QED BY <2>1, <2>2, PixelType
<1>3. k \in remainingOldClusters => Image(k) \in [Places -> Colors]
  BY <1>2 DEF Image
<1>4. Marks(k) \in [Cells -> {0, 1}]
  BY DEF Marks
<1> QED BY <1>1, <1>3, <1>4 DEF ImageOf, MarksOf

(* A place in an image and the coordinates of its pixel lead to the same   *)
(* region of the cluster, and to the same pixel of it.                     *)
LEMMA SameRegion ==
    ASSUME NEW x \in Int, NEW y \in Int
    PROVE  /\ Cell(Local(x) \div 16, Local(y) \div 16) = Cell(AreaPos(x), AreaPos(y))
           /\ Within(Local(x), Local(y)) = Within(x, y)
<1>1. ASSUME NEW z \in Int
      PROVE  /\ Local(z) \in Int
             /\ Local(z) % 16 = z % 16
             /\ (Local(z) \div 16) % 32 = AreaPos(z) % 32
  <2>1. Local(z) = z % 512
    BY DEF Local, Size
  <2>2. (z % 512) % 16 = z % 16
    OBVIOUS
  <2>3. ((z % 512) \div 16) % 32 = (z \div 16) % 32
    OBVIOUS
  <2> QED BY <2>1, <2>2, <2>3 DEF AreaPos, AreaSize
<1>2. Pc = 32
  BY DEF Pc, Size, AreaSize
<1> QED BY <1>1, <1>2 DEF Cell, Within

(* What getChunk returns shows the pixels as they are. *)
LEMMA PixelShown ==
    ASSUME TypeOK, NEW x \in Xs, NEW y \in Ys
    PROVE  ImageOf(<<ChunkPos(x), ChunkPos(y)>>)[<<Local(x), Local(y)>>] = PixelAt(<<x, y>>)
<1> DEFINE k == <<ChunkPos(x), ChunkPos(y)>>
           l == <<Local(x), Local(y)>>
<1>1. l \in Places /\ x \in Int /\ y \in Int
  BY Addresses
<1>2. l[1] = Local(x) /\ l[2] = Local(y)
  OBVIOUS
<1>3. Image(k)[l] = PixelIn(ClusterFile[k][Cell(l[1] \div 16, l[2] \div 16)], l[1], l[2])
  BY <1>1 DEF Image
<1>4. FilePixel(<<x, y>>) = PixelIn(ClusterFile[k][Cell(AreaPos(x), AreaPos(y))], x, y)
  BY DEF FilePixel
<1>5. Image(k)[l] = FilePixel(<<x, y>>)
  BY <1>1, <1>2, <1>3, <1>4, SameRegion DEF PixelIn
<1> QED BY <1>5 DEF ImageOf, PixelAt

(* What getChunk returns shows the protections as they are. *)
LEMMA GuardShown ==
    ASSUME TypeOK, NEW b, IsAddress(b)
    PROVE  MarksOf(ChunkOf(b))[Cell(b[1], b[2])] = 1 <=> Guarded(b)
<1> DEFINE k == ChunkOf(b)
<1>1. CASE k \in remainingOldClusters
  <2>1. Marks(k)[Cell(b[1], b[2])] =
            IF \E a \in Moved(k) : Cell(a[1], a[2]) = Cell(b[1], b[2]) THEN 1 ELSE 0
    BY DEF Marks, IsAddress
  <2>2. \A a \in pclust[k] : IsAddress(a)
    BY AreaAddresses, OldAssumption DEF TypeOK, IsAddress
  <2>3. (\E a \in Moved(k) : Cell(a[1], a[2]) = Cell(b[1], b[2])) <=> b \in pclust[k]
    BY <2>2, AddressIsUnique DEF Moved
  <2> QED BY <1>1, <2>1, <2>3 DEF MarksOf, Guarded
<1>2. CASE k \notin remainingOldClusters
  BY <1>2 DEF MarksOf, Guarded
<1> QED BY <1>1, <1>2

-----------------------------------------------------------------------------
(* getChunk *)

(* getChunk keeps the types of the variables. *)
LEMMA GetChunkType ==
    ASSUME TypeOK, NEW k \in Chunks, NEW image \in [Places -> Colors],
           NEW marks \in [Cells -> {0, 1}], GetChunk(k, image, marks), answer' \in BOOLEAN
    PROVE  TypeOK'
<1>1. data' \in [Chunks -> [Places -> Colors]] /\ protection' \in [Chunks -> [Cells -> {0, 1}]]
  BY DEF GetChunk, TypeOK
<1>2. remainingOldClusters' \in SUBSET Clusters
  BY DEF GetChunk, TypeOK
<1>3. pclust' \in [Chunks -> SUBSET OldProtected]
  BY DEF GetChunk, TypeOK
<1> QED BY <1>1, <1>2, <1>3 DEF TypeOK

(* getChunk leaves the other chunks alone, and the chunk shows image and   *)
(* marks from then on.                                                     *)
LEMMA GetChunkShows ==
    ASSUME TypeOK, NEW k \in Chunks, NEW image, NEW marks, GetChunk(k, image, marks)
    PROVE  /\ \A j \in Chunks : MarksOf(j)' = IF j = k THEN marks ELSE MarksOf(j)
           /\ \A x \in Xs, y \in Ys :
                 PixelAt(<<x, y>>)' = IF <<ChunkPos(x), ChunkPos(y)>> = k
                                      THEN image[<<Local(x), Local(y)>>]
                                      ELSE PixelAt(<<x, y>>)
           /\ \A b : IsAddress(b) =>
                 (Guarded(b)' <=> IF ChunkOf(b) = k THEN marks[Cell(b[1], b[2])] = 1
                                                    ELSE Guarded(b))
<1>1. ASSUME NEW j \in Chunks
      PROVE  /\ data'[j] = IF j = k THEN image ELSE data[j]
             /\ protection'[j] = IF j = k THEN marks ELSE protection[j]
             /\ j # k => pclust'[j] = pclust[j]
             /\ j \in remainingOldClusters' <=> (j # k /\ j \in remainingOldClusters)
  BY DEF GetChunk, TypeOK
<1>2. ASSUME NEW j \in Chunks
      PROVE  MarksOf(j)' = IF j = k THEN marks ELSE MarksOf(j)
  <2>1. j # k => Marks(j)' = Marks(j)
    BY <1>1 DEF Marks, Moved
  <2> QED BY <1>1, <2>1 DEF MarksOf
<1>3. ASSUME NEW x \in Xs, NEW y \in Ys
      PROVE  PixelAt(<<x, y>>)' = IF <<ChunkPos(x), ChunkPos(y)>> = k
                                  THEN image[<<Local(x), Local(y)>>]
                                  ELSE PixelAt(<<x, y>>)
  <2>1. <<ChunkPos(x), ChunkPos(y)>> \in Chunks
    BY Addresses
  <2>2. FilePixel(<<x, y>>)' = FilePixel(<<x, y>>)
    BY DEF FilePixel
  <2> QED BY <1>1, <2>1, <2>2 DEF PixelAt
<1>4. ASSUME NEW b, IsAddress(b)
      PROVE  Guarded(b)' <=> IF ChunkOf(b) = k THEN marks[Cell(b[1], b[2])] = 1
                                              ELSE Guarded(b)
  BY <1>1, <1>4 DEF Guarded, IsAddress
<1> QED BY <1>2, <1>3, <1>4

(* getChunk keeps the invariant if no pixel is marked that was not, but in *)
(* an area that may be protected.                                          *)
LEMMA GetChunkInv ==
    ASSUME Inv, NEW k \in Chunks, NEW image \in [Places -> Colors],
           NEW marks \in [Cells -> {0, 1}], GetChunk(k, image, marks), answer' \in BOOLEAN,
           \A n \in Cells : marks[n] # 0 =>
               \/ MarksOf(k)[n] # 0
               \/ \E a \in Areas : ChunkOf(a) = k /\ Cell(a[1], a[2]) = n
    PROVE  Inv'
<1>1. TypeOK'
  BY GetChunkType DEF Inv
<1>2. ASSUME NEW x \in Xs, NEW y \in Ys,
             MarksOf(<<ChunkPos(x), ChunkPos(y)>>)'[Cell(AreaPos(x), AreaPos(y))] # 0
      PROVE  <<AreaPos(x), AreaPos(y)>> \in Areas
  <2> DEFINE j == <<ChunkPos(x), ChunkPos(y)>>
             b == <<AreaPos(x), AreaPos(y)>>
             n == Cell(AreaPos(x), AreaPos(y))
  <2>1. j \in Chunks /\ n \in Cells /\ IsAddress(b) /\ ChunkOf(b) = j
    BY Addresses, AreaAddresses
  <2>2. MarksOf(j)' = IF j = k THEN marks ELSE MarksOf(j)
    BY <2>1, GetChunkShows DEF Inv
  <2>3. CASE MarksOf(j)[n] # 0
    BY <2>3 DEF Inv, OnlyAreasProtected
  <2>4. CASE MarksOf(j)[n] = 0
    <3>1. j = k /\ marks[n] # 0
      BY <1>2, <2>2, <2>4
    <3>2. PICK a \in Areas : ChunkOf(a) = k /\ Cell(a[1], a[2]) = n
      BY <2>1, <2>4, <3>1
    <3>3. b[1] = AreaPos(x) /\ b[2] = AreaPos(y)
      OBVIOUS
    <3>4. a = b
      BY <2>1, <3>1, <3>2, <3>3, AreaAddresses, AddressIsUnique
    <3> QED BY <3>4
  <2> QED BY <2>3, <2>4
<1>3. OnlyAreasProtected'
  BY <1>2 DEF OnlyAreasProtected
<1> QED BY <1>1, <1>3 DEF Inv

-----------------------------------------------------------------------------
(* The invariant *)

(* The invariant holds when the world is loaded. *)
LEMMA InitInv == Init => Inv
<1> SUFFICES ASSUME Init
             PROVE  Inv
  OBVIOUS
<1>1. /\ data \in [Chunks -> [Places -> Colors]]
      /\ protection \in [Chunks -> [Cells -> {0, 1}]]
      /\ remainingOldClusters \in SUBSET Clusters
      /\ pclust \in [Chunks -> SUBSET OldProtected]
  BY BgAssumption DEF Init
<1>2. Places \subseteq (0 .. Size - 1) \X (0 .. Size - 1)
  <2>1. \A x \in Xs, y \in Ys : Local(x) \in 0 .. Size - 1 /\ Local(y) \in 0 .. Size - 1
    BY Addresses, InsideChunk, Zenon
  <2> QED BY <2>1 DEF Places
<1>3. Cells \subseteq 0 .. Pc * Pc - 1
  <2>1. \A x \in Xs, y \in Ys : AreaPos(x) \in Int /\ AreaPos(y) \in Int
    BY Addresses, AreaInChunk, Zenon
  <2>2. \A x \in Xs, y \in Ys : Cell(AreaPos(x), AreaPos(y)) \in 0 .. Pc * Pc - 1
    BY <2>1, InsideChunk, Zenon
  <2>3. \A a \in Areas : Cell(a[1], a[2]) \in 0 .. Pc * Pc - 1
    BY Addresses, InsideChunk, Zenon
  <2> QED BY <2>2, <2>3 DEF Cells
<1>4. answer \in BOOLEAN
  BY DEF Init
<1>5. TypeOK
  BY <1>1, <1>2, <1>3, <1>4 DEF TypeOK
<1>6. ASSUME NEW x \in Xs, NEW y \in Ys,
             MarksOf(<<ChunkPos(x), ChunkPos(y)>>)[Cell(AreaPos(x), AreaPos(y))] # 0
      PROVE  <<AreaPos(x), AreaPos(y)>> \in Areas
  <2> DEFINE b == <<AreaPos(x), AreaPos(y)>>
  <2>1. IsAddress(b) /\ ChunkOf(b) = <<ChunkPos(x), ChunkPos(y)>>
    BY AreaAddresses
  <2>2. MarksOf(ChunkOf(b)) \in [Cells -> {0, 1}]
    BY <1>5, <2>1, ChunkTypes DEF IsAddress
  <2>3. MarksOf(ChunkOf(b))[Cell(b[1], b[2])] = 1
    BY <1>6, <2>1, <2>2 DEF IsAddress
  <2>4. Guarded(b)
    BY <1>5, <2>1, <2>3, GuardShown
  <2>5. protection[ChunkOf(b)][Cell(b[1], b[2])] = 0
    BY <2>1 DEF Init, IsAddress
  <2>6. b \in pclust[ChunkOf(b)]
    BY <2>4, <2>5 DEF Guarded
  <2> QED BY <1>1, <2>1, <2>6, OldAssumption DEF IsAddress
<1> QED BY <1>5, <1>6 DEF Inv, OnlyAreasProtected

(* A pixel's chunk always has its place within the border. *)
LEMMA PaintCases ==
    ASSUME NEW x \in Xs, NEW y \in Ys, NEW c \in Colors, Paint(x, y, c)
    PROVE  LET k == <<ChunkPos(x), ChunkPos(y)>>
           IN  \/ /\ IsActionPaintAllowed(k, x, y)
                  /\ GetChunk(k, [ImageOf(k) EXCEPT ![<<Local(x), Local(y)>>] = c], MarksOf(k))
                  /\ answer' = TRUE
               \/ /\ ~IsActionPaintAllowed(k, x, y)
                  /\ GetChunk(k, ImageOf(k), MarksOf(k))
                  /\ answer' = FALSE
<1>1. VerifyChunkPos(<<ChunkPos(x), ChunkPos(y)>>)
  BY Addresses, EveryPixelHasAChunk
<1> QED BY <1>1 DEF Paint

(* Every step keeps the invariant. *)
LEMMA NextInv == Inv /\ [Next]_vars => Inv'
<1> SUFFICES ASSUME Inv, [Next]_vars
             PROVE  Inv'
  OBVIOUS
<1>1. TypeOK
  BY DEF Inv
<1>2. ASSUME NEW x \in Xs, NEW y \in Ys, NEW c \in Colors, Paint(x, y, c)
      PROVE  Inv'
  <2> DEFINE k == <<ChunkPos(x), ChunkPos(y)>>
             l == <<Local(x), Local(y)>>
  <2>1. k \in Chunks /\ l \in Places
    BY Addresses
  <2>2. \/ GetChunk(k, [ImageOf(k) EXCEPT ![l] = c], MarksOf(k))
        \/ GetChunk(k, ImageOf(k), MarksOf(k))
    BY <1>2, PaintCases
  <2>3. answer' \in BOOLEAN
    BY <1>2, PaintCases
  <2> HIDE DEF k, l
  <2>4. /\ ImageOf(k) \in [Places -> Colors]
        /\ [ImageOf(k) EXCEPT ![l] = c] \in [Places -> Colors]
        /\ MarksOf(k) \in [Cells -> {0, 1}]
    BY <1>1, <2>1, ChunkTypes
  <2> QED BY <2>1, <2>2, <2>3, <2>4, GetChunkInv
<1>3. ASSUME NEW a \in Areas, NEW state \in BOOLEAN, SetAreaProtection(a, state)
      PROVE  Inv'
  <2> DEFINE k == ChunkOf(a)
             n == Cell(a[1], a[2])
             marks == [MarksOf(k) EXCEPT ![n] = IF state THEN 1 ELSE 0]
  <2>1. k \in Chunks /\ n \in Cells
    BY Addresses
  <2>2. GetChunk(k, ImageOf(k), marks) /\ answer' = answer
    BY <1>3 DEF SetAreaProtection
  <2>3. ImageOf(k) \in [Places -> Colors] /\ MarksOf(k) \in [Cells -> {0, 1}]
    BY <1>1, <2>1, ChunkTypes
  <2>4. /\ marks \in [Cells -> {0, 1}]
        /\ \A m \in Cells : m # n => marks[m] = MarksOf(k)[m]
    BY <2>1, <2>3
  <2>5. answer' \in BOOLEAN
    BY <1>1, <2>2 DEF TypeOK
  <2>6. \A m \in Cells : marks[m] # 0 =>
            \/ MarksOf(k)[m] # 0
            \/ \E d \in Areas : ChunkOf(d) = k /\ Cell(d[1], d[2]) = m
    BY <2>4
  <2> HIDE DEF marks, k
  <2> QED BY <2>1, <2>2, <2>3, <2>4, <2>5, <2>6, GetChunkInv
<1>4. ASSUME NEW k \in Clusters, SendChunk(k) \/ ConvertNext(k)
      PROVE  Inv'
  <2>1. k \in Chunks
    BY DEF Chunks
  <2>2. ImageOf(k) \in [Places -> Colors] /\ MarksOf(k) \in [Cells -> {0, 1}]
    BY <1>1, <2>1, ChunkTypes
  <2>3. GetChunk(k, ImageOf(k), MarksOf(k)) /\ answer' \in BOOLEAN
    BY <1>1, <1>4 DEF SendChunk, ConvertNext, TypeOK
  <2> QED BY <2>1, <2>2, <2>3, GetChunkInv
<1>5. CASE UNCHANGED vars
  BY <1>1, <1>5 DEF vars, old, Inv, TypeOK, OnlyAreasProtected, MarksOf, Marks, Moved
<1> QED BY <1>2, <1>3, <1>4, <1>5 DEF Next

(* The invariant holds always. *)
LEMMA AlwaysInv == Spec => []Inv
BY InitInv, NextInv, PTL DEF Spec

-----------------------------------------------------------------------------
(* The refinement *)

(* A world is loaded as a plane of what its files have. *)
LEMMA InitMapped == Init => Plane!CanvasInit
<1> SUFFICES ASSUME Init
             PROVE  Plane!CanvasInit
  OBVIOUS
<1>1. ASSUME NEW p \in Xs \X Ys
      PROVE  PixelAt(p) = IF <<ChunkPos(p[1]), ChunkPos(p[2])>> \in Clusters
                          THEN FilePixel(p) ELSE Bg
  BY <1>1, Addresses DEF Init, PixelAt
<1>2. ASSUME NEW a \in Areas
      PROVE  Guarded(a) <=> a \in OldProtected /\ ChunkOf(a) \in Clusters
  BY <1>2, Addresses DEF Init, Guarded
<1>3. {a \in Areas : Guarded(a)} = {a \in OldProtected : ChunkOf(a) \in Clusters}
  <2>1. OldProtected \subseteq Areas
    BY OldAssumption, Zenon
  <2> QED BY <1>2, <2>1, Zenon
<1>4. answer = FALSE
  BY DEF Init
<1> QED BY <1>1, <1>3, <1>4 DEF Plane!CanvasInit

(* The area of a pixel is the square the pixel is in. *)
LEMMA SquareOfPixel ==
    ASSUME NEW x \in Xs, NEW y \in Ys
    PROVE  Plane!AreaAt(<<x, y>>) = <<AreaPos(x), AreaPos(y)>>
BY DEF Plane!AreaAt, Plane!Side, AreaPos, AreaSize

(* When getChunk returns the chunk as it is, the pixels are not changed.   *)
LEMMA SamePixels ==
    ASSUME Inv, NEW k \in Chunks, NEW marks, GetChunk(k, ImageOf(k), marks)
    PROVE  [p \in Xs \X Ys |-> PixelAt(p)]' = [p \in Xs \X Ys |-> PixelAt(p)]
<1>1. ASSUME NEW x \in Xs, NEW y \in Ys PROVE PixelAt(<<x, y>>)' = PixelAt(<<x, y>>)
  <2> DEFINE j == <<ChunkPos(x), ChunkPos(y)>>
             image == ImageOf(k)
  <2>1. TypeOK /\ GetChunk(k, image, marks)
    BY DEF Inv
  <2>2. ImageOf(j)[<<Local(x), Local(y)>>] = PixelAt(<<x, y>>)
    BY <2>1, PixelShown
  <2> HIDE DEF image
  <2>3. PixelAt(<<x, y>>)' = IF j = k THEN image[<<Local(x), Local(y)>>] ELSE PixelAt(<<x, y>>)
    BY <2>1, GetChunkShows
  <2> QED BY <2>2, <2>3 DEF image
<1>2. \A p \in Xs \X Ys : PixelAt(p)' = PixelAt(p)
  BY <1>1
<1> QED BY <1>2

(* When its protections are as they were, no square is opened or guarded.  *)
LEMMA SameGuards ==
    ASSUME Inv, NEW k \in Chunks, NEW image, GetChunk(k, image, MarksOf(k))
    PROVE  {a \in Areas : Guarded(a)}' = {a \in Areas : Guarded(a)}
<1>1. ASSUME NEW a \in Areas PROVE Guarded(a)' <=> Guarded(a)
  BY AreaAddresses, GetChunkShows, GuardShown DEF Inv
<1> QED BY <1>1

(* A paint is a paint of the plane, or is refused by it. *)
LEMMA PaintMapped ==
    ASSUME Inv, NEW x \in Xs, NEW y \in Ys, NEW c \in Colors, Paint(x, y, c)
    PROVE  Plane!Refuse(<<x, y>>) \/ Plane!Draw(<<x, y>>, c)
<1> DEFINE k == <<ChunkPos(x), ChunkPos(y)>>
           l == <<Local(x), Local(y)>>
           b == <<AreaPos(x), AreaPos(y)>>
<1>1. TypeOK /\ OnlyAreasProtected /\ k \in Chunks
  BY Addresses DEF Inv
<1>2. IsAddress(b) /\ ChunkOf(b) = k /\ b[1] = AreaPos(x) /\ b[2] = AreaPos(y)
  BY AreaAddresses
<1>3. MarksOf(k) \in [Cells -> {0, 1}]
  BY <1>1, ChunkTypes
<1>4. IsActionPaintAllowed(k, x, y) <=> ~Guarded(b)
  <2>1. MarksOf(k)[Cell(AreaPos(x), AreaPos(y))] = 1 <=> Guarded(b)
    BY <1>1, <1>2, GuardShown
  <2>2. MarksOf(k)[Cell(AreaPos(x), AreaPos(y))] \in {0, 1}
    BY <1>3, Addresses
  <2> QED BY <2>1, <2>2 DEF IsActionPaintAllowed
<1>5. Plane!AreaAt(<<x, y>>) = b
  BY SquareOfPixel
<1>6. CASE /\ ~Guarded(b)
           /\ GetChunk(k, [ImageOf(k) EXCEPT ![l] = c], MarksOf(k))
           /\ answer' = TRUE
  <2>1. {a \in Areas : Guarded(a)}' = {a \in Areas : Guarded(a)}
    BY <1>1, <1>6, SameGuards
  <2>2. b \notin {a \in Areas : Guarded(a)}
    BY <1>6
  <2>3. ASSUME NEW u \in Xs, NEW w \in Ys
        PROVE  PixelAt(<<u, w>>)' = IF <<u, w>> = <<x, y>> THEN c ELSE PixelAt(<<u, w>>)
    <3> DEFINE j == <<ChunkPos(u), ChunkPos(w)>>
               m == <<Local(u), Local(w)>>
    <3>1. m \in Places /\ l \in Places /\ ImageOf(k) \in [Places -> Colors]
      BY <1>1, Addresses, ChunkTypes
    <3>2. j = k /\ m = l <=> u = x /\ w = y
      BY Addresses, PlaceIsUnique
    <3>3. j = k => ImageOf(k)[m] = PixelAt(<<u, w>>)
      BY <1>1, PixelShown
    <3>4. PixelAt(<<u, w>>)' = IF j = k THEN [ImageOf(k) EXCEPT ![l] = c][m]
                                        ELSE PixelAt(<<u, w>>)
      <4> DEFINE image == [ImageOf(k) EXCEPT ![l] = c]
                 marks == MarksOf(k)
      <4>1. TypeOK /\ k \in Chunks /\ GetChunk(k, image, marks)
        BY <1>1, <1>6
      <4> HIDE DEF image, marks, k
      <4>2. PixelAt(<<u, w>>)' = IF j = k THEN image[m] ELSE PixelAt(<<u, w>>)
        BY <4>1, GetChunkShows
      <4> QED BY <4>2 DEF image
    <3> HIDE DEF j, k, l, m
    <3>5. [ImageOf(k) EXCEPT ![l] = c][m] = IF m = l THEN c ELSE ImageOf(k)[m]
      BY <3>1
    <3> QED BY <3>2, <3>3, <3>4, <3>5
  <2>4. \A p \in Xs \X Ys : PixelAt(p)' = IF p = <<x, y>> THEN c ELSE PixelAt(p)
    BY <2>3
  <2>5. [p \in Xs \X Ys |-> PixelAt(p)]' =
            [[p \in Xs \X Ys |-> PixelAt(p)] EXCEPT ![<<x, y>>] = c]
    BY <2>4
  <2> QED BY <1>5, <1>6, <2>1, <2>2, <2>5 DEF Plane!Draw
<1>7. CASE /\ Guarded(b)
           /\ GetChunk(k, ImageOf(k), MarksOf(k))
           /\ answer' = FALSE
  <2>1. {a \in Areas : Guarded(a)}' = {a \in Areas : Guarded(a)}
    BY <1>1, <1>7, SameGuards
  <2>2. [p \in Xs \X Ys |-> PixelAt(p)]' = [p \in Xs \X Ys |-> PixelAt(p)]
    BY <1>1, <1>7, SamePixels
  <2>3. b \in Areas
    <3>1. MarksOf(k)[Cell(AreaPos(x), AreaPos(y))] # 0
      BY <1>4, <1>7 DEF IsActionPaintAllowed
    <3> QED BY <1>1, <3>1 DEF OnlyAreasProtected
  <2> QED BY <1>5, <1>7, <2>1, <2>2, <2>3 DEF Plane!Refuse
<1> QED BY <1>4, <1>6, <1>7, PaintCases

(* A protection of an area is one of the plane. *)
LEMMA ProtectionMapped ==
    ASSUME Inv, NEW a \in Areas, NEW state \in BOOLEAN, SetAreaProtection(a, state)
    PROVE  Plane!Guard(a) \/ Plane!Open(a)
<1> DEFINE k == ChunkOf(a)
           n == Cell(a[1], a[2])
           marks == [MarksOf(k) EXCEPT ![n] = IF state THEN 1 ELSE 0]
<1>1. /\ TypeOK /\ k \in Chunks /\ n \in Cells
      /\ MarksOf(k) \in [Cells -> {0, 1}]
  BY Addresses, ChunkTypes DEF Inv
<1>2. GetChunk(k, ImageOf(k), marks) /\ answer' = answer
  BY DEF SetAreaProtection
<1>3. [p \in Xs \X Ys |-> PixelAt(p)]' = [p \in Xs \X Ys |-> PixelAt(p)]
  BY <1>1, <1>2, SamePixels
<1>4. ASSUME NEW d \in Areas
      PROVE  Guarded(d)' <=> IF d = a THEN state ELSE Guarded(d)
  <2>1. IsAddress(d) /\ IsAddress(a) /\ Cell(d[1], d[2]) \in Cells
    BY AreaAddresses DEF IsAddress
  <2>2. Guarded(d)' <=> IF ChunkOf(d) = k THEN marks[Cell(d[1], d[2])] = 1 ELSE Guarded(d)
    <3> DEFINE image == ImageOf(k)
    <3>1. TypeOK /\ k \in Chunks /\ GetChunk(k, image, marks)
      BY <1>1, <1>2
    <3> HIDE DEF image, marks, k
    <3> QED BY <2>1, <3>1, GetChunkShows
  <2>3. CASE d = a
    BY <1>1, <2>2, <2>3
  <2>4. CASE d # a
    <3>1. ChunkOf(d) = k => Cell(d[1], d[2]) # n
      BY <2>1, <2>4, AddressIsUnique
    <3>2. ChunkOf(d) = k => marks[Cell(d[1], d[2])] = MarksOf(k)[Cell(d[1], d[2])]
      BY <1>1, <2>1, <3>1
    <3>3. MarksOf(ChunkOf(d))[Cell(d[1], d[2])] = 1 <=> Guarded(d)
      BY <1>1, <2>1, GuardShown
    <3> QED BY <2>2, <2>4, <3>2, <3>3
  <2> QED BY <2>3, <2>4
<1>5. CASE state
  <2>1. {d \in Areas : Guarded(d)}' = {d \in Areas : Guarded(d)} \cup {a}
    BY <1>4, <1>5
  <2> QED BY <1>2, <1>3, <2>1 DEF Plane!Guard
<1>6. CASE ~state
  <2>1. {d \in Areas : Guarded(d)}' = {d \in Areas : Guarded(d)} \ {a}
    BY <1>4, <1>6
  <2> QED BY <1>2, <1>3, <2>1 DEF Plane!Open
<1> QED BY <1>5, <1>6

(* A conversion changes nothing on the plane. *)
LEMMA ConversionMapped ==
    ASSUME Inv, NEW k \in Clusters, SendChunk(k) \/ ConvertNext(k)
    PROVE  UNCHANGED Plane!canvasVars
<1>1. k \in Chunks
  BY DEF Chunks
<1>2. GetChunk(k, ImageOf(k), MarksOf(k)) /\ answer' = answer
  BY DEF SendChunk, ConvertNext
<1> QED BY <1>1, <1>2, SamePixels, SameGuards DEF Plane!canvasVars

(* Every step is a step of the plane, or none. *)
LEMMA NextMapped == Inv /\ [Next]_vars => [Plane!CanvasNext]_Plane!canvasVars
<1> SUFFICES ASSUME Inv, [Next]_vars
             PROVE  [Plane!CanvasNext]_Plane!canvasVars
  OBVIOUS
<1>1. ASSUME NEW x \in Xs, NEW y \in Ys, NEW c \in Colors, Paint(x, y, c)
      PROVE  Plane!CanvasNext
  <2>1. <<x, y>> \in Xs \X Ys
    OBVIOUS
  <2> QED BY <1>1, <2>1, PaintMapped DEF Plane!CanvasNext
<1>2. ASSUME NEW a \in Areas, NEW state \in BOOLEAN, SetAreaProtection(a, state)
      PROVE  Plane!CanvasNext
  BY <1>2, ProtectionMapped DEF Plane!CanvasNext
<1>3. ASSUME NEW k \in Clusters, SendChunk(k) \/ ConvertNext(k)
      PROVE  UNCHANGED Plane!canvasVars
  BY <1>3, ConversionMapped
<1>4. CASE UNCHANGED vars
  BY <1>4 DEF vars, old, Plane!canvasVars, PixelAt, FilePixel, Guarded
<1> QED BY <1>1, <1>2, <1>3, <1>4 DEF Next

(* Every variable keeps its type: places are inside the image of a chunk   *)
(* and indices inside its protection array.                                *)
THEOREM TypeCorrect == Spec => []TypeOK
BY AlwaysInv, PTL DEF Inv

(* World::paint and World::setAreaProtection on chunks behave as on a      *)
(* plane: every pixel of 32 bit coordinates has a place of its own, and is *)
(* protected exactly by the area it is in; and the conversion of a cluster *)
(* (WorldStorage::maybeConvert) changes nothing on that plane.             *)
THEOREM ChunksMakeAPlane == Spec => ImplementsCanvas
BY InitMapped, NextMapped, AlwaysInv, PTL DEF Spec, ImplementsCanvas, Plane!CanvasSpec
=============================================================================

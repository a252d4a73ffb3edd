---------------------------- MODULE MCChunkGrid ----------------------------
(* ChunkGrid on pixels at the edges: of the plane, of chunks and of areas. *)
EXTENDS ChunkGrid

CONSTANT Red  \* a color that is not the background

Lowest == -Int32Max - 1

Highest == Int32Max

MCXs == {-257, -1, 0, 512}

MCYs == {Lowest, Highest}

(* The areas of two of those pixels, and one between them. *)
MCAreas == {<<-1, AreaPos(Lowest)>>, <<32, AreaPos(Highest)>>, <<31, AreaPos(Lowest)>>}

(* Two old clusters, with one region painted in each of them: that of      *)
(* pixel <<-257, Lowest>>, in stripes, and that of <<0, Highest>>.          *)
MCClusters == {<<-1, ChunkPos(Lowest)>>, <<0, ChunkPos(Highest)>>}

Stripes == [m \in 0..255 |-> IF m % 2 = 1 THEN Red ELSE Bg]

MCClusterFile ==
    [k \in MCClusters |-> [n \in 0..1023 |->
        IF \/ k[1] = -1 /\ n = Cell(AreaPos(-257), AreaPos(Lowest))
           \/ k[1] = 0 /\ n = Cell(AreaPos(0), AreaPos(Highest))
        THEN Stripes ELSE NoRegion]]

(* One area of a cluster, and one whose chunk has no cluster. *)
MCOldProtected == {<<-1, AreaPos(Lowest)>>, <<32, AreaPos(Highest)>>}
=============================================================================

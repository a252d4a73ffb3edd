SPECIFICATION Spec
CONSTANTS
    Xs <- MCXs
    Ys <- MCYs
    Areas <- MCAreas
    Colors = {white, red}
    Bg = white
    Red = red
    Clusters <- MCClusters
    ClusterFile <- MCClusterFile
    NoRegion = NoRegion
    OldProtected <- MCOldProtected
INVARIANT TypeOK
PROPERTY ImplementsCanvas

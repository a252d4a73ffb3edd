SPECIFICATION QuietSpec
CONSTANTS
    Players = {p1, p2}
    Requests = {r1}
    Chunks = {c1, c2}
    Pixels = {x1}
    Colors = {white, red}
    white = white
    red = red
    Bg = white
    NoFile = NoFile
    NoImage = NoImage
    MaxChunks = 1
    Stored <- SomeFiles
    OpenFailures = {"view", "load"}
SYMMETRY Symmetry
INVARIANTS
    TypeOK
    NoLostPaint
    CacheCoherent
    FileCoherent
PROPERTY
    ImplementsStore

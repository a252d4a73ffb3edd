SPECIFICATION FairSpec
CONSTANTS
    Players = {p1}
    Requests = {r1, r2}
    Chunks = {c1, c2}
    Pixels = {x1}
    Colors = {white}
    white = white
    red = red
    Bg = white
    NoFile = NoFile
    NoImage = NoImage
    MaxChunks = 1
    Stored <- GuardedFiles
    OpenFailures = {"view"}
INVARIANTS
    TaskLocksChunk
    LoadedWhileNeeded
    WaitersHaveTask
PROPERTY
    WaitingEnds

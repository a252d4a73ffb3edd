SPECIFICATION Spec
CONSTANTS
    Players = {p1}
    Requests = {r1}
    Chunks = {c1}
    Pixels = {x1}
    Colors = {white, red}
    white = white
    red = red
    Bg = white
    NoFile = NoFile
    NoImage = NoImage
    MaxChunks = 1
    Stored <- PlainFiles
    OpenFailures = {"view"}
INVARIANT
    NoLostPaint

SPECIFICATION Spec
CONSTANTS
    Chunks = {c1, c2}
    Images = {white, red}
    Bg = white
    Torn = Torn
    NoFile = NoFile
    NoChunk = NoChunk
    Lost = Lost
SYMMETRY Symmetry
INVARIANTS
    TypeOK
    ContentsSurvive
    ConversionIsSafe
PROPERTY
    ImplementsStore

SPECIFICATION Spec
CONSTANTS
    Ips = {a, b}
    Durations = {0, 1}
    Half = 65536
    Times <- Seconds
    NotBanned = NotBanned
    NoFile = NoFile
INVARIANT BannedOnlyWhileAsked
SYMMETRY Symmetry

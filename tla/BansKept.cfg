SPECIFICATION Spec
CONSTANTS
    Ips = {a, b}
    Durations = {0, 1, 7, 13}
    Half = 65536
    Times <- Seconds
    NotBanned = NotBanned
    NoFile = NoFile
INVARIANTS TypeOK FileCurrent BannedWhileAsked
SYMMETRY Symmetry

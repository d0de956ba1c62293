SPECIFICATION Spec
CONSTANTS
    Device = {dA, dB}
    Path = {p1}
    Content = {c1, c2}
    NoFile = NoFile
    SyncDeletes = FALSE
    MaxVersions = 3
    MaxEdits = 3
    MaxFaults = 0
SYMMETRY Symmetry
INVARIANTS
    ConflictIsOffered

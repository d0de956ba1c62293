SPECIFICATION Spec
CONSTANTS
    Device = {dA, dB}
    Path = {p1}
    Content = {c1, c2}
    NoFile = NoFile
    SyncDeletes = TRUE
    MaxVersions = 3
    MaxEdits = 3
    MaxFaults = 1
SYMMETRY Symmetry
PROPERTIES
    BaseAdvances

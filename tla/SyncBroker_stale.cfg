SPECIFICATION Spec
CONSTANTS
    Device = {A, B, C}
    Dataset = {ds}
    Path = {p}
    DatasetOf <- MCDatasetOf
    Version = {v1, v2}
    NoVersion = NoVersion
    Chunk = {c1}
    Packets = 1
    Quota = 1
    MaxFaults = 1
SYMMETRY Symmetry
INVARIANT
    Obtainable

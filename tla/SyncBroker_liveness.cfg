SPECIFICATION FairSpec
CONSTANTS
    Device = {A, B, C}
    Dataset = {ds}
    Path = {p}
    DatasetOf <- MCDatasetOf
    Version = {v1}
    NoVersion = NoVersion
    Chunk = {c1}
    Packets = 2
    Quota = 1
    MaxFaults = 0
PROPERTIES
    Delivery
    Reclamation

SPECIFICATION FairSpec
CONSTANTS
    Server = {S, D}
    Client = {a}
    Token = {t1, t2}
    None = None
    Files = 2
    MaxSize = 2
    MaxWrites = 2
    MaxQuits = 2
    MaxFaults = 0
INVARIANTS
    CutoverIsCurrent
    FrozenIsOwned
PROPERTY
    CutoverCompletes
CHECK_DEADLOCK FALSE

SPECIFICATION Spec
CONSTANTS
    Server = {S, D}
    Client = {a}
    Token = {t1}
    None = None
    Files = 1
    MaxSize = 1
    MaxWrites = 2
    MaxQuits = 1
    MaxFaults = 1
INVARIANT
    CutoverIsCurrent
CHECK_DEADLOCK FALSE

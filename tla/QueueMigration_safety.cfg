SPECIFICATION Spec
CONSTANTS
    Server = {S, D}
    Client = {a, b}
    Token = {t1, t2}
    None = None
    Files = 2
    MaxSize = 2
    MaxWrites = 2
    MaxQuits = 2
    MaxFaults = 1
SYMMETRY Symmetry
INVARIANTS
    SingleWriter
    InstalledIsSnapshot
    RedirectLeads
CHECK_DEADLOCK FALSE

SPECIFICATION Spec
CONSTANTS
    fa = fa
    fb = fb
    Folder = {fa, fb}
    Server = {S, D}
    None = None
    Initial <- MCInitial
    Offered = {"PUSH"}
    MaxPairs = 2
    MaxActs = 3
    MaxFaults = 1
INVARIANT
    BatchScope
CHECK_DEADLOCK FALSE

SPECIFICATION FairSpec
CONSTANTS
    fa = fa
    fb = fb
    Folder = {fa, fb}
    Server = {S, D}
    None = None
    Initial <- MCInitial
    Offered = {"CHECK", "RUN", "PUSH", "UNBIND", "REFRESH", "DEPLOY", "MIGRATE",
               "RESTORE"}
    MaxPairs = 2
    MaxActs = 3
    MaxFaults = 1
INVARIANTS
    ComparisonsAreCurrent
    MigrationQuiet
    EditingUndisturbed
PROPERTIES
    NoAutoAfterFailure
    WorkEnds
CHECK_DEADLOCK FALSE

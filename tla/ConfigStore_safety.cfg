SPECIFICATION Spec
CONSTANTS
    Hosts = {h1, h2}
    Missing = Missing
    Damaged = Damaged
    NoHost = NoHost
    Blank = Blank
    Fresh = Fresh
    MaxTabs = 2
    MaxIds = 2
    MaxSaves = 3
    MaxFaults = 2
    MaxCrashes = 2
    MaxTampers = 1
SYMMETRY EndpointSymmetry
INVARIANTS
    SavesAreDurable
    AlwaysOpens
    LoginsStayHome
CHECK_DEADLOCK FALSE

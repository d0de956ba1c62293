SPECIFICATION Spec
CONSTANTS
    Command = {c1}
    NoCommand = NoCommand
    InputCap = 1
    OutputCap = 1
    MaxOutput = 2
    MaxConnects = 2
    MaxActs = 4
    MaxFaults = 0
INVARIANTS
    NeverRetried
CHECK_DEADLOCK FALSE

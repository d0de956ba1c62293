SPECIFICATION Spec
CONSTANTS
    Command = {c1, c2}
    NoCommand = NoCommand
    InputCap = 1
    OutputCap = 1
    MaxOutput = 2
    MaxConnects = 2
    MaxActs = 4
    MaxFaults = 1
INVARIANTS
    CommandsOnce
    MessagesOfThisWorker
PROPERTIES
    Answered
    TerminalFlows
CHECK_DEADLOCK FALSE

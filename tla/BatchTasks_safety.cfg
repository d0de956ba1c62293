SPECIFICATION Spec
CONSTANTS
    Step = {1, 2, 3}
    Saved <- MCSaved
    TaskLimit = 2
    RowLimit = 2
    MaxActs = 4
    MaxFaults = 1
INVARIANTS
    ResultsOnTheirRow
    RunsHoldTheirRows
    QueueResumes
PROPERTIES
    OneTaskAtATime
    CancelEnds
    LeavingEnds
CHECK_DEADLOCK FALSE

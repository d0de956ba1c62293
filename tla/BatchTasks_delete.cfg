SPECIFICATION Spec
CONSTANTS
    Step = {1, 2, 3}
    Saved <- MCSaved
    TaskLimit = 2
    RowLimit = 2
    MaxActs = 2
    MaxFaults = 0
INVARIANT RunningTaskLocked
CHECK_DEADLOCK FALSE

SPECIFICATION Spec
CONSTANTS
    Unmeasurable = Unmeasurable
    Unknown = Unknown
    NoExit = NoExit
    NoOutcome = NoOutcome
    e1 = e1
    e2 = e2
    Pin = e1
    OtherBoard = OtherBoard
    Unplanned = 99
    NotRendered = NotRendered
    MaxAttempts = 2
    TaskLists <- OneTask
    LineageLists = {}
    Replicates = {1}
    CellLists <- OneCell
    MaxCells = 1
    Trees = {t1, t2}
    Envs = {e1}
INVARIANTS OneTreePerCell
CHECK_DEADLOCK FALSE

SPECIFICATION Spec
CONSTANTS
    Unmeasurable = Unmeasurable
    Unknown = Unknown
    NoExit = NoExit
    NoOutcome = NoOutcome
    e1 = e1
    e2 = e2
    Pin = e1
    OtherBoard = OtherBoard
    Unplanned = 99
    NotRendered = NotRendered
    MaxAttempts = 2
    TaskLists <- MCTaskLists
    LineageLists <- MCLineageLists
    Replicates = {1, 2}
    CellLists <- MCCellLists
    MaxCells = 2
    Trees = {t1}
    Envs = {e1, e2}
INVARIANTS DenominatorExact PlanIsSignable RowsAreComparable

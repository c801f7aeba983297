SPECIFICATION FairSpec
CONSTANTS
    Unmeasurable = Unmeasurable
    Unknown = Unknown
    NoExit = NoExit
    NoOutcome = NoOutcome
    f1 = f1
    f2 = f2
    c1 = c1
    c2 = c2
    Files = {f1, f2}
    Contents = {c1, c2}
    Link = Link
    NoTree = NoTree
    Ctx <- MCCtx
    Pinned = Pinned
    SandboxRuns <- MCSandboxRuns
    Projections <- MCProjections
    MaxEdits = 1
    MaxDrifts = 2
INVARIANTS TypeOK MeasuredIsBound TornSealMeasuresNothing
PROPERTIES FillsTheCell CellReturns

CONSTANTS
    RunName = {"run1"}
    Key = {"k1"}
    TrustedKey = "k1"
    Context <- Contexts
    Observation <- Observations
    MaxOfKind = 2
    MaxReceipts = 6
SPECIFICATION Spec
INVARIANTS
    PredictionNotEvaded
    OwnTeardown
    DriftHasTwoImages
    HonestChainsVerify
CHECK_DEADLOCK FALSE

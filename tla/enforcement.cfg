CONSTANTS
    Run = {"run1", "run2"}
    Casts <- AloneOrTogether
SPECIFICATION FairSpec
INVARIANTS
    TypeOK
    AdmittedWasCurrent
    FaultNeverAdmitted
    AbaIsGenuine
    RefutationSerialises
    SignedFaultTookPlace
    CompletedMeansVerified
    QuietPrediction
PROPERTIES
    RowSettles
CHECK_DEADLOCK FALSE

SPECIFICATION MintSpec
CONSTANTS
    Unmeasurable = Unmeasurable
    Unknown = Unknown
    NoExit = NoExit
    NoOutcome = NoOutcome
    NoWire = NoWire
    None = None
    Undecodable = {"blob"}
    Tasks <- TwoTasks
    Lineages <- TwoLineages
    Setups <- MCSetups
    review_prompt_hash = "p"
    Responses = {"yes", "no", "cut"}
    VerdictOf <- MCVerdict
    Env = Env
INVARIANTS OnlyLicensedOnDisk EveryReviewCaptured ReplayFaithful AuditorConfirms StatementsAreTheBoards
CONSTRAINT OneError

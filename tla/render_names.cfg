SPECIFICATION Spec
CONSTANTS
    Unmeasurable = Unmeasurable
    Unknown = Unknown
    NoExit = NoExit
    NoOutcome = NoOutcome
    NoWire = NoWire
    None = None
    Undecodable = {}
    Setups <- MCSetups
    review_prompt_hash = "p"
    VerdictOf <- MCVerdict
    Env = Env
    Tasks <- TwoTasks
    Lineages <- LongerLineages
    Responses = {"yes"}
INVARIANTS EveryReceiptHasItsFile

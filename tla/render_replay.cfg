SPECIFICATION Spec
CONSTANTS
    Unmeasurable = Unmeasurable
    Unknown = Unknown
    NoExit = NoExit
    NoOutcome = NoOutcome
    NoWire = NoWire
    None = None
    Undecodable = {}
    Setups <- MCSetups
    review_prompt_hash = "p"
    VerdictOf <- MCVerdict
    Env = Env
    Tasks <- OneTask
    Lineages <- TwoLineages
    Responses = {"yes", "no"}
INVARIANTS ReplayReproduces

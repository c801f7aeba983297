CONSTANTS
    RunId = {r1}
    Process = {p1, p2}
    Free = Free
    Retries = 2
SPECIFICATION FairSpec
INVARIANTS
    TypeOK
    UniqueGrant
    GrantIsDurable
    OneVerdict
    NeverHalfInit
PROPERTIES
    Implements
    EveryCallEnds

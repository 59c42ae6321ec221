SPECIFICATION FairSpec
CONSTANTS
    Requests = {r1, r2, r3}
    None = None
    MaxDamage = 2
    MayCrash = TRUE
INVARIANTS
    OneTransformation
    LooseFileHasOwner
PROPERTY EveryRequestAnswered

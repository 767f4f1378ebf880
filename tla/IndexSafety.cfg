SPECIFICATION FairSpec
CONSTANTS
    Keys = {k1}
    MaxPending = 3
    MaxRestarts = 1
    Reliable = FALSE
INVARIANTS
    TypeOK
    FreshUnlessExcused
PROPERTIES
    EventuallyFresh
    EventsDrain

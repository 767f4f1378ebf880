SPECIFICATION Spec
CONSTANTS
    Keys = {k1}
    MaxPending = 2
    MaxRestarts = 0
    Reliable = TRUE
INVARIANTS
    EventsKeepIndexFresh

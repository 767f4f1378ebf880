SPECIFICATION Spec
CONSTANTS
    Keys = {k1}
    Requests = {r1, r2}
    Nobody = Nobody
    TTL = 1
INVARIANTS
    BusyDropConflicts

SPECIFICATION Spec
CONSTANTS
    Requests = {r1, r2, r3}
    SearchConcurrency = 2
    SearchRate = 4
    TimeoutQueue = 3
SYMMETRY Symmetry
INVARIANTS
    TypeOK
    SlotsCounted
    RateBounded
    PromisesDistinct
PROPERTIES
    OkMeansHandled

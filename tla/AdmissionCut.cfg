SPECIFICATION Spec
CONSTANTS
    Requests = {r1, r2}
    SearchConcurrency = 1
    SearchRate = 1
    TimeoutQueue = 2
INVARIANTS
    NoRequestCut

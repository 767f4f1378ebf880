SPECIFICATION FairSpec
CONSTANTS
    Calls = {c1}
    Workers = {w1, w2}
    MaxId = 3
    MaxAttempts = 2
PROPERTIES
    CallsReturn
    FeederStops

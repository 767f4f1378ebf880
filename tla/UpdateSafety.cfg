SPECIFICATION Spec
CONSTANTS
    Calls = {c1, c2}
    Workers = {w1, w2}
    MaxId = 3
    MaxAttempts = 3
SYMMETRY Symmetry
INVARIANTS
    TypeOK
    OneOperation
    DropsTrue
    SuccessIsAnnounced
    EveryIdAccounted
    SkippedStaysMissing
    LateRowsBounded
PROPERTIES
    TableChangesUnderLock
    ImplementsCatalog

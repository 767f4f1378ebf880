SPECIFICATION Spec
CONSTANTS
    Ids = {1, 2}
    Vocabulary = {w1, w2}
    MaxLimit = 2
INVARIANTS
    IndexReplyRanked

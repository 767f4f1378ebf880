SPECIFICATION Spec
CONSTANTS
    Ids = {1, 2, 3}
    Vocabulary = {w1, w2}
    MaxLimit = 2
SYMMETRY Symmetry
INVARIANTS
    TypeOK
    SearchReplyBest
    IndexReplyBest
    SearchesAgree

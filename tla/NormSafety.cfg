SPECIFICATION Spec
CONSTANTS
    MaxText = 6
    MaxLenDescription = 4
    MaxPhraseLen = 5
    Period = 2
INVARIANTS
    TypeOK
    AllOrNothing
    NoHalfWord
    RefusedForBytes
    LateWordsBounded
    BlameIsRight
CHECK_DEADLOCK FALSE

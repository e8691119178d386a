SPECIFICATION Spec
CONSTANTS
    c0 = c0
    c1 = c1
    Coord = c0
    Clones <- OneClone
    MaxAsk = 1
    NumSnapshots = 1
    MaxResponse = 1
    Answers <- ShortAndLong
    MaxLives = 2
INVARIANTS
    TypeOK
    AnswersAreOwn
    OldBytesAreDropped
    NoRequestHangs
PROPERTY
    ProgressIsFinite
CONSTRAINT OneAtTheEnd

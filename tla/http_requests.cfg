CONSTANTS
    Streams <- MCStreams
    LineLength = 4
    RxLimit = 12
    BodyLength = 2
    MaxConns = 2
    MaxPlain = 1
SPECIFICATION FairSpec
INVARIANTS LinesRead AnsweredComplete Drained NeverMisused RefsKept
PROPERTY Answered
CHECK_DEADLOCK FALSE

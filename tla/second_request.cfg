CONSTANTS
    Streams <- MCStreams
    LineLength = 4
    RxLimit = 12
    BodyLength = 2
    MaxConns = 1
    MaxPlain = 0
SPECIFICATION Spec
INVARIANT AnswersRead
CHECK_DEADLOCK FALSE

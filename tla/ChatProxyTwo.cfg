\* Two requests relayed at once, each with up to two chunks.
SPECIFICATION FairSpec
CONSTANTS
    r1 = r1
    r2 = r2
    NoId = NoId
    Request <- TwoRequests
    MaxChunks = 2
INVARIANTS
    TypeOK
    SignedIsWhole
    CompleteIsSigned
    WellFormedVerifies
PROPERTIES
    ImplementsAnswers
    HandlersEnd
CHECK_DEADLOCK FALSE

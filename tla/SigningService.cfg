\* One chat through two servers, each of which may restart, to one client.
SPECIFICATION ServiceFairSpec
CONSTANTS
    s1 = s1
    s2 = s2
    c1 = c1
    v1 = v1
    Nobody = Nobody
    NoId = NoId
    Server <- TwoServers
    WithRedis <- TwoServers
    Chat <- OneChat
    Verifier <- OneVerifier
    MaxSize = 1
    TTL = 1
    BreakerDuration = 1
    MaxStep = 0
    MaxDelayed = 0
    MaxRestarts = 1
    MaxChunks = 1
INVARIANTS
    VTypeOK
    AcceptedKeyWasInUse
    UnmatchedIsExplained
    CompleteIsServed
    AcceptedAnswerIsWhole
    SignatureFits
PROPERTIES
    VerificationEnds
CHECK_DEADLOCK FALSE

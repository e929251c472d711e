\* One server; its local cache is full with two of the three chats, and its
\* wall clock may be stepped.
SPECIFICATION FairSpec
CONSTANTS
    s1 = s1
    s2 = s2
    c1 = c1
    c2 = c2
    c3 = c3
    Nobody = Nobody
    Server <- OneServer
    WithRedis <- OneServer
    Chat <- ThreeChats
    MaxSize = 2
    TTL = 2
    BreakerDuration = 2
    MaxStep = 1
    MaxDelayed = 0
INVARIANTS
    LruIsTotal
    OwnSignatureServed
PROPERTIES
    StallsAreSpaced
    BreakerHeals

\* Two servers share Redis; both local caches can hold every chat.
SPECIFICATION Spec
CONSTANTS
    s1 = s1
    s2 = s2
    c1 = c1
    c2 = c2
    c3 = c3
    Nobody = Nobody
    Server <- TwoServers
    WithRedis <- TwoServers
    Chat <- TwoChats
    MaxSize = 2
    TTL = 2
    BreakerDuration = 1
    MaxStep = 0
    MaxDelayed = 1
INVARIANTS
    TypeOK
    MissesAreExplained
    CopiesExpireTogether
PROPERTIES
    ImplementsStore

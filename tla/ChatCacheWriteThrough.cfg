\* cache.py:22 says that writes go through to both layers.
SPECIFICATION Spec
CONSTANTS
    s1 = s1
    s2 = s2
    c1 = c1
    c2 = c2
    c3 = c3
    Nobody = Nobody
    Server <- OneServer
    WithRedis <- OneServer
    Chat <- TwoChats
    MaxSize = 2
    TTL = 2
    BreakerDuration = 2
    MaxStep = 0
    MaxDelayed = 0
PROPERTY WritesThroughToBoth

\* verifiers/README.md:134 says that the verifier finds a matching attestation.
SPECIFICATION VSpec
CONSTANTS
    s1 = s1
    s2 = s2
    c1 = c1
    v1 = v1
    Nobody = Nobody
    Server <- TwoServers
    WithRedis <- TwoServers
    Chat <- OneChat
    Verifier <- OneVerifier
    MaxSize = 1
    TTL = 2
    BreakerDuration = 1
    MaxStep = 0
    MaxDelayed = 0
    MaxRestarts = 1
INVARIANT FindsMatchingAttestation
CHECK_DEADLOCK FALSE

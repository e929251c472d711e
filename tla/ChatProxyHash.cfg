\* verifiers/README.md:88 says that the response hash matches.
SPECIFICATION Spec
CONSTANTS
    r1 = r1
    r2 = r2
    NoId = NoId
    Request <- OneRequest
    MaxChunks = 3
INVARIANT ResponseHashMatches
CHECK_DEADLOCK FALSE

\* Three invocations of any tools on a host with two GPUs of one id and an
\* NVSwitch; each may die.
SPECIFICATION Spec
CONSTANTS
    r1 = r1
    r2 = r2
    r3 = r3
    gpu = gpu
    switch = switch
    Run <- ThreeRuns
    Id <- TwoIds
    Count <- TwoGpus
INVARIANTS
    TypeOK
    TriedIsTagged
PROPERTY AbortIsExplained
CHECK_DEADLOCK FALSE

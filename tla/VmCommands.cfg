\* "new" with two runs of the instance or with another "new" and a run; and a
\* run, a dry run and a server on a finished instance.
SPECIFICATION Spec
CONSTANTS
    p1 = p1
    p2 = p2
    p3 = p3
    Process <- ThreeProcesses
    Scenario <- ThreeCommands
INVARIANTS
    TypeOK
    StartsComplete
    RegistryKept
    StartsOnOwnConfig
    PortSurvives
PROPERTIES
    NewRefusesExisting
    DiskKept
CHECK_DEADLOCK FALSE

\* Machines with up to four GPUs on up to three NUMA nodes, and up to
\* one NVSwitch more than bus numbers are left for.
SPECIFICATION Spec
CONSTANTS
    VcpuCount = {1, 3, 4}
    MemorySize <- WholeAndPart
    DiskSize <- TwentyGigabytes
    HostGpus <- GpuSets
    MaxSwitches = 5
INVARIANTS
    CpusAreSplit
    MemoryAddsUp
    BusesAreApart
    PortsHaveOneBus
    RoundingIsLeast
CHECK_DEADLOCK FALSE

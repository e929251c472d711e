\* dstack.py:812 gives 512M as an example of a memory size.
SPECIFICATION Spec
CONSTANTS
    VcpuCount = {1, 2, 3}
    MemorySize <- OneSize
    DiskSize <- TwentyGigabytes
    HostGpus <- NoGpu
    MaxSwitches = 1
INVARIANT SomeMemory
CHECK_DEADLOCK FALSE

CONSTANTS
    Resources = {"cpu", "memory", "storage"}
    ResourceLists <- MCResourceLists
    LimitTypes = {"Container", "Pod"}
    MaxRanges = 2
    MaxItems = 1
    Nil = Nil
INIT Init
NEXT Next
INVARIANTS
    TypeOK
    CpuMemoryBoundsTightest
CHECK_DEADLOCK FALSE

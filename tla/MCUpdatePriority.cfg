CONSTANTS
    Pods = {p1, p2, p3}
    ContainerSets <- MCContainerSets
    Resources = {cpu}
    RequestValues = {1, 2}
    BoundValues = {1, 2}
    Ages <- MCAges
    RanForValues = {9, 10}
    NoRequest = NoRequest
    NoRecommendation = NoRecommendation
    NoStartTime = NoStartTime
    NoTermination = NoTermination
    NotSorted = NotSorted
    NotOffered = NotOffered
    MinChangePriority <- MCMinChangePriority
    PodLifetimeUpdateThreshold = 12
    EvictAfterOOMThreshold = 10
SYMMETRY PodSymmetry
INIT Init
NEXT Next
INVARIANTS
    TypeOK
    PriorityOrder
    CandidatesAreEligible
CHECK_DEADLOCK FALSE

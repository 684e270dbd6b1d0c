CONSTANTS
    Pods = {p1}
    ContainerSets <- MCContainerSets
    Resources = {cpu}
    RequestValues = {NoRequest, 1, 2}
    BoundValues = {0, 1, 2}
    Ages <- MCAges
    RanForValues = {9, 10}
    NoRequest = NoRequest
    NoRecommendation = NoRecommendation
    NoStartTime = NoStartTime
    NoTermination = NoTermination
    NotSorted = NotSorted
    NotOffered = NotOffered
    MinChangePriority <- MCMinChangePriority
    PodLifetimeUpdateThreshold = 12
    EvictAfterOOMThreshold = 10
SYMMETRY PodSymmetry
INIT Init
NEXT Next
INVARIANT
    CandidatesAreEligible
CHECK_DEADLOCK FALSE

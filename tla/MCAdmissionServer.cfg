CONSTANTS
    Resources = {"cpu", "memory"}
    PodResourceLists <- MCPodResourceLists
    RecResourceLists <- MCRecResourceLists
    PolicyBounds <- MCPolicyBounds
    MaxContainers = 2
    UpdateModes = {"Auto", "Off", "Bogus"}
    ScalingModes = {"Auto", "Bogus"}
    MaxServes = 2
    Nil = Nil
    NoResponse = NoResponse
INIT Init
NEXT Next
INVARIANTS
    TypeOK
    PodCreationNeverBlocked
    PatchInstallsRecommendation
    VpaAdmittedIffValid
CHECK_DEADLOCK FALSE

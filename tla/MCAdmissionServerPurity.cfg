CONSTANTS
    Resources = {"cpu", "memory"}
    PodResourceLists <- MCPodResourceLists
    RecResourceLists <- MCRecResourceLists
    PolicyBounds <- MCPolicyBounds
    MaxContainers = 2
    UpdateModes = {"Auto", "Off", "Bogus"}
    ScalingModes = {"Auto", "Bogus"}
    MaxServes = 2
    Nil = Nil
    NoResponse = NoResponse
INIT Init
NEXT Next
INVARIANT AdmissionPurity
CHECK_DEADLOCK FALSE

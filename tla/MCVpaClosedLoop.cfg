CONSTANTS
    Pods = {p1, p2}
    Containers = {"c", "sidecar"}
    Computed <- MCComputed
    Policy <- MCPolicy
    Requests = {1, 2, 3, 4}
    TemplateRequest = 1
    MinReplicas = 1
    EvictionTolerance <- MCEvictionTolerance
    MinChangePriority <- MCMinChangePriority
    MaxWatch = 1
    MaxFailures = 1
    Nil = Nil
SPECIFICATION Spec
INVARIANTS
    TypeOK
PROPERTIES
    StatusEventuallyWritten
    EvictionsStop

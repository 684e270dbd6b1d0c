CONSTANTS
    Aggregates = {a1, a2}
    RecommenderInterval = 2
    CheckpointsWriteTimeout = 2
    MinCheckpointsPerRun = 1
    CheckpointsGCInterval = 3
    AggregateContainerStateGCInterval = 4
    UseCheckpoints = TRUE
    MaxPhaseDuration = 1
    MaxStartup = 5
SPECIFICATION Spec
INVARIANTS
    TypeOK
    GCNeverOverdue
PROPERTY
    DirtyEventuallyCheckpointed

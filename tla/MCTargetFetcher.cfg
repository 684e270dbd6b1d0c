CONSTANTS
    WellKnown <- MCWellKnown
    CustomKinds = {"Scalable"}
    TemplateKinds = {"CronJob"}
    LabelSets = {{}, {"app"}}
    Served <- MCWellKnown
    Mappings <- MCMappings
    ScaleOutcomes = {"NotFound", "Forbidden"}
    TargetRefs <- MCTargetRefs
    MaxFaults = 2
    Nil = Nil
    Nothing = Nothing
SPECIFICATION Spec
INVARIANTS
    TypeOK
    FetchContract
PROPERTIES
    AbstractSpec
    EventuallyResolves

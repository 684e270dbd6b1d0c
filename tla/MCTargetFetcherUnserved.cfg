CONSTANTS
    WellKnown <- MCWellKnown
    CustomKinds = {"Scalable"}
    TemplateKinds = {"CronJob"}
    LabelSets = {{}, {"app"}}
    Served = {"Deployment"}
    Mappings <- MCMappings
    ScaleOutcomes = {"NotFound", "Forbidden"}
    TargetRefs <- MCTargetRefs
    MaxFaults = 2
    Nil = Nil
    Nothing = Nothing
SPECIFICATION Spec
CHECK_DEADLOCK FALSE
PROPERTY
    NewFetcherReturns

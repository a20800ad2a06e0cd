SPECIFICATION Spec
CONSTANTS
    WorldSize = 1
    LastStep = 5
    Targets <- FixedTarget
    SaveFreq = 2
    KeepMax = 2
    BatchesPerEpoch = 2
    TotalEpochs = 2
    EsiSaves = FALSE
    RmErrors = FALSE
    MaxCrashes = 1
INVARIANT
    SamplerOrderPreserved

SPECIFICATION Spec
CONSTANTS
    WorldSize = 1
    LastStep = 4
    Targets <- ExtendedTarget
    SaveFreq = 2
    KeepMax = 2
    BatchesPerEpoch = 2
    TotalEpochs = 2
    EsiSaves = FALSE
    RmErrors = FALSE
    MaxCrashes = 1
INVARIANT
    TrackedCheckpointLoadable

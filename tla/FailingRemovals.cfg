SPECIFICATION Spec
CONSTANTS
    WorldSize = 2
    LastStep = 8
    Targets <- ScheduledTargets
    SaveFreq = 2
    KeepMax = 3
    BatchesPerEpoch = 2
    TotalEpochs = 2
    EsiSaves = FALSE
    RmErrors = TRUE
    MaxCrashes = 1
INVARIANTS
    TrackedCheckpointLoadable
    IInv

SPECIFICATION FairSpec
CONSTANTS
    WorldSize = 2
    LastStep = 5
    Targets <- FixedTarget
    SaveFreq = 2
    KeepMax = 2
    BatchesPerEpoch = 2
    TotalEpochs = 2
    EsiSaves = FALSE
    RmErrors = FALSE
    MaxCrashes = 2
INVARIANTS
    TypeOK
    TrackedCheckpointLoadable
    RetentionBound
    StepsMatchBatches
    NeverStopsShort
PROPERTIES
    ResumeIsExact
    NeverStartsOver
    TrackerMovesForward
    ImplementsResumableTraining
    EventuallySettled

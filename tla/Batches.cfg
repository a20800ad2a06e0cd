SPECIFICATION Spec
CONSTANTS
    e1 = e1
    e2 = e2
    r1 = r1
    r2 = r2
    one = one
    other = other
    Experiments = {e1, e2}
    Runners = {r1, r2}
    Requests = {one, other}
    NoRequest = NoRequest
    Invocations <- SomeInvocations
    MaxEdits = 1
    MaxStarts = 2
INVARIANTS
    TypeOK
    OneIdentityPerDirectory
    BatchUsesOneConfiguration
    TrainedAsRecorded
    ManifestPrecedesArtifacts
    IInv
PROPERTIES
    SuccessMeansComplete
    DryRunTouchesNothing
    ExperimentsAreResumable
SYMMETRY RunnerSymmetry
CHECK_DEADLOCK FALSE

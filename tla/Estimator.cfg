SPECIFICATION Spec
CONSTANTS
    a = a
    b = b
    x = x
    g1 = g1
    g2 = g2
    N = 4
    Groups = {g1, g2}
    Width = 3
    Keys = {a, b, x}
    NoKey = NoKey
    Malformed = Malformed
    NoTrace = NoTrace
    History = 2
    TauReward = 2
    Alpha = 2
    Batches <- SomeBatches
INVARIANTS
    TypeOK
    MergedShareContext
    StepsConserved
    SpansReadAlike
    FallbackNeverRefined
    EarlierTurnsWeighMore
    GenerationsScored
CHECK_DEADLOCK FALSE

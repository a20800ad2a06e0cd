SPECIFICATION Spec
CONSTANTS
    hello = hello
    lookup = lookup
    failure = failure
    ResponseLength = 9
    PromptSlack = 2
    MaxAssistantTurns = 0
    MaxUserTurns = 3
    MaxParallelCalls = 2
    MaxTurns = 4
    MessageLengths <- LongMessages
    Observations <- SomeObservations
    FirstObservation = hello
    ErrorObservation = failure
INVARIANTS
    SpansTileGenerations
    GapsOnlyAtTheEnd
    ContaminatedScoresZero
    ProgressIsCoverage
    LoopInv

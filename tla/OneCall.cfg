SPECIFICATION FairSpec
CONSTANTS
    hello = hello
    lookup = lookup
    failure = failure
    ResponseLength = 9
    PromptSlack = 2
    MaxAssistantTurns = 4
    MaxUserTurns = 0
    MaxParallelCalls = 1
    MaxTurns = 3
    MessageLengths <- ShortMessages
    Observations <- SomeObservations
    FirstObservation = hello
    ErrorObservation = failure
INVARIANTS
    TypeOK
    SpansTileGenerations
    GapsOnlyAtTheEnd
    ContaminatedScoresZero
    ProgressIsCoverage
PROPERTIES
    ActsOnLiveEnvironment
    EveryEnvironmentReleased

SPECIFICATION Spec
CONSTANTS
    hello = hello
    lookup = lookup
    failure = failure
    ResponseLength = 6
    PromptSlack = 2
    MaxAssistantTurns = 4
    MaxUserTurns = 3
    MaxParallelCalls = 1
    MaxTurns = 3
    MessageLengths <- ShortMessages
    Observations <- SomeObservations
    FirstObservation = hello
    ErrorObservation = failure
INVARIANTS
    SpansWithinOutput

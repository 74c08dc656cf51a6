\* README 1.3 against operator< on dated and undated pauses.
CONSTANTS
    N = 2
    Scenarios <- MixedScenarios
    Messages <- SomeMessages
    Leftover = {0}
    MaxPush <- TwoPushes
    MaxNow <- NoTicks
SPECIFICATION Spec
INVARIANT NoPauseSkipped
CHECK_DEADLOCK FALSE

\* README 2.4 against std::min_element over the pauses.
CONSTANTS
    N = 2
    Scenarios <- SoundScenarios
    Messages <- SomeMessages
    Leftover = {0}
    MaxPush <- TwoPushes
    MaxNow <- NoTicks
SPECIFICATION Spec
INVARIANT PausesInFileOrder
CHECK_DEADLOCK FALSE

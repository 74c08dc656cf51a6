\* Processor.h:103 against Source::Restart.
CONSTANTS
    N = 2
    Scenarios <- SoundScenarios
    Messages <- SomeMessages
    Leftover = {0}
    MaxPush <- TwoPushes
    MaxNow <- NoTicks
SPECIFICATION Spec
INVARIANT CurByteIsPosition
CHECK_DEADLOCK FALSE

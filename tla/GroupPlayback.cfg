\* Two channels: every capture and pause file with up to three messages of the App,
\* and one of them with every kind of message and a clock that moves.
CONSTANTS
    N = 2
    Scenarios <- PlaybackScenarios
    Leftover = {0, 1}
    Messages <- SomeMessages
    MaxPush <- ThreePushes
    MaxNow <- ThreeTicks
SPECIFICATION FairSpec
INVARIANTS
    TypeOK
    SentInOrder
    ExactlyOnce
    CompleteReplay
    StatsMatch
    PausesHonoured
    AnnouncedIsNext
    NoticesMatchState
    QuietWhilePaused
    Repeatable
    ElapsedExact
PROPERTIES
    ImplementsLife
    DieIsObeyed
    PlaybackEnds
\* The playback thread ends.
CHECK_DEADLOCK FALSE

\* Every kind of stdin: two letters, a heartbeat or a call that fails.
CONSTANTS
    Files = {"char", "pipe", "other"}
    ShowType = "RequestGroups"
    Failures = {"aborted", "broken", "console"}
    MaxTyped = 2
    ShowModes <- AnyShow
    Commands <- AllKeys
    MaxBeats <- OneBeat
    MaxErrors <- OneError
SPECIFICATION FairSpec
INVARIANTS
    TypeOK
    CommandsInOrder
    JoinIsSafe
    EndsAfterPlayback
    ConsoleRestoredAfterRun
    NoCircularWait
PROPERTIES
    EndsWithPlayback
    QuitObeyed
\* The process ends.
CHECK_DEADLOCK FALSE

\* README 2.5 on --show against App::run.
CONSTANTS
    Files = {"char"}
    ShowType = "RequestGroups"
    Failures = {}
    MaxTyped = 2
    ShowModes <- OnlyShow
    Commands <- OnlyPause
    MaxBeats <- OneBeat
    MaxErrors <- NoError
SPECIFICATION Spec
INVARIANT ShowDoesNotReplay
\* The process ends.
CHECK_DEADLOCK FALSE

\* interface.cpp:92 against a group that died of an exception.
CONSTANTS
    Files = {"char"}
    ShowType = "RequestGroups"
    Failures = {}
    MaxTyped = 2
    ShowModes <- NoShow
    Commands <- QuitOrPause
    MaxBeats <- OneBeat
    MaxErrors <- NoError
SPECIFICATION FairSpec
PROPERTY QuitEndsProgram
\* The process ends.
CHECK_DEADLOCK FALSE

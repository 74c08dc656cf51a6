\* main.cpp:200 against the ThreadDead of the pipe reader.
CONSTANTS
    Files = {"pipe"}
    ShowType = "RequestGroups"
    Failures = {"aborted"}
    MaxTyped = 2
    ShowModes <- NoShow
    Commands <- OnlyPause
    MaxBeats <- NoBeat
    MaxErrors <- OneError
SPECIFICATION Spec
INVARIANT InterfaceDied
\* The process ends.
CHECK_DEADLOCK FALSE

\* options.cpp:248 against what becomes of the command.
CONSTANTS
    Text <- SomeText
    Number <- SomeNumber
    Captures <- SomeCaptures
    Addresses <- SomeAddresses
    Commands <- SomeCommands
SPECIFICATION Spec
INVARIANT MalformedLineIgnored
\* The call returns or throws.
CHECK_DEADLOCK FALSE

\* Files of up to two lines, or three channels, and the options in all combinations.
CONSTANTS
    Text <- SomeText
    Number <- SomeNumber
    Captures <- SomeCaptures
    Addresses <- SomeAddresses
    Commands <- SomeCommands
SPECIFICATION Spec
INVARIANTS
    TypeOK
    ReadAsDocumented
    WholeFilesRead
    PausesComparable
    PlayedAsListed
\* The call returns or throws.
CHECK_DEADLOCK FALSE

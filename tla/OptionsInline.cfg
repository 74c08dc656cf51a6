\* README 2.1 against the order of store() and notify().
CONSTANTS
    Text <- SomeText
    Number <- SomeNumber
    Captures <- SomeCaptures
    Addresses <- SomeAddresses
    Commands <- InlineCommands
SPECIFICATION Spec
INVARIANT InlineChannelPlayed
\* The call returns or throws.
CHECK_DEADLOCK FALSE

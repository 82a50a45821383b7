SPECIFICATION FairSpec
CONSTANTS
    NeedsConfig = {TRUE, FALSE}
    HostGone = 3
    Answer = 5
    ConnectMost = 2
    Redial = 1
    None = None
INVARIANTS
    SessionSaysWhy
    PadIsServed
    NoStraySends
    GivesUpInTime
PROPERTIES
    NotGivenUpEarly
    PlugOutReturns

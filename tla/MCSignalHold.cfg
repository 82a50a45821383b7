SPECIFICATION FairSpec
CONSTANTS
    red = red
    blue = blue
    Kinds = {"ds4", "ds5"}
    Colours = {red, blue}
    NoColour = NoColour
    MaxConnects = 2
    MaxReports = 3
    WritesFail = TRUE
INVARIANTS
    NothingTouchesAClosedPad
    OneSignalAtATime
    PulseAlwaysStops
    HostColourShows
PROPERTIES
    HostRumbleStays
    PlugOutReturns
CHECK_DEADLOCK FALSE

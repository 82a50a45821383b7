CONSTANTS
    ds5 = ds5
    ds4 = ds4
    other = other
    calibration = calibration
    state = state
    Pads <- MCPads
    DualSenses <- MCDualSenses
    Nameless <- MCNameless
    Reports <- MCReports
    Lasting <- MCLasting
    Lengths <- MCLengths
    TooLong <- MCTooLong
    PadsMax = 1
    MaxAsks = 4
    MaxBridges = 3
    MaxRuns = 2
SPECIFICATION Spec
INVARIANTS
    SilentAskedOnce
    UnaskedIsTrue
CHECK_DEADLOCK FALSE

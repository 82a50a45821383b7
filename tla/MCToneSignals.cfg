CONSTANTS
    Ways <- MCWays
    Caps <- MCCaps
    BtWait = 3
    BtPrime = 4
    Ds4Prime = 6
    CardIdle = 12
    MaxLost = 1
SPECIFICATION Spec
INVARIANTS
    SignalEndsWell
    CutInTime
CHECK_DEADLOCK FALSE

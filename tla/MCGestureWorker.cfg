SPECIFICATION GWFairSpec
CONSTANTS
    k1 = k1
    k2 = k2
    Keys = {k1, k2}
    ThreadsFail = TRUE
    MaxWorkers = 3
    MaxStreams = 3
INVARIANTS
    SingleWorker
PROPERTIES
    RequestServed
CHECK_DEADLOCK FALSE

SPECIFICATION FairSpec
CONSTANTS
    k1 = k1
    k2 = k2
    p1 = p1
    p2 = p2
    r1 = r1
    Keys = {k1, k2}
    Pluggers = {p1, p2}
    Releasers = {r1}
    Worker = worker
    Exit = exit
    MaxSessions = 1
    MaxPlugs = 2
INVARIANTS
    TableHoldsRunning
PROPERTIES
    ImplementsOwnership
    ReleasesEnd

SPECIFICATION FairSpec
CONSTANTS
    Keys = {a, b}
    MaxKeys = 1
    Places = {here}
    Nowhere = Nowhere
    HostGone = 3
    ConnectMost = 2
    Redial = 1
INVARIANTS
    SentIsShown
    NoLateKnock
    OutIsOut
PROPERTIES
    KnocksAndUnplugsEnd

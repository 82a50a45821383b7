SPECIFICATION FairSpec
CONSTANTS
    pcA = pcA
    pcB = pcB
    Hosts = {pcA, pcB}
    NoHost = none
    Plugs = TRUE
PROPERTIES
    ReadingSettles

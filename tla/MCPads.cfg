CONSTANTS
    Kinds <- AllKinds
    Inputs <- AllInputs
    XpadInputs <- EventInputs
    Moved <- AllMoved
    Values <- Ends
    QueueCap = 4
    PartNames <- AllParts
    MostParts = 3
    Styles <- AllStyles
SPECIFICATION Spec
INVARIANTS
    DropsHeal
    TablesAgree
    DescriptorsAreRead

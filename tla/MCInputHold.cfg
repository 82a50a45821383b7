CONSTANTS
    Kinds <- AllKinds
    Inputs <- TwoInputs
    QueueCap = 2
    HoldTicks = 2
    MaxDue = 2
SPECIFICATION Spec
INVARIANTS
    SwitchHeldStaysHidden
    NothingLingers
    AsksOncePerHold
PROPERTIES
    HeldSettles

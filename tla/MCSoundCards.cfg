CONSTANTS
    p1 = p1
    p2 = p2
    Pads <- MCPads
    NotesMax = 2
    RetriesMax = 2
    MaxPlugs = 3
    MaxBoots = 2
    MicOn = TRUE
SPECIFICATION Spec
CONSTRAINT BeforeAnyGuess
INVARIANTS
    SoundIsOwn
    NotesAreTrue
PROPERTIES
    PulledCableEndsCapture

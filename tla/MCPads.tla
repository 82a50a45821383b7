------------------------------- MODULE MCPads -------------------------------
EXTENDS Pads

\* Every input the tables tell apart, and those of a cabled Xbox pad.
AllInputs == {"left", "right", "r3", "up", "south", "east", "l2", "ps", "click", "finger1", "finger2"}
EventInputs == {"left", "right", "r3", "up", "down", "south", "east", "l2"}
AllKinds == {"ds5usb", "ds5bt", "ds4usb", "ds4bt", "xbox", "xpad", "events", "described"}
\* A cabled pad's events: a button, a stick, and the directions either way.
AllMoved == {"BTN_A", "RY", "HAT0X", "HAT0Y", "HAPPY1", "HAPPY3", "HAPPY4"}
Ends == {-32768, 0}
AllParts == DOMAIN Parts
AllStyles == {"lean", "pushed", "wide"}
=============================================================================

----------------------------- MODULE MCInputHold -----------------------------
EXTENDS InputHold

\* Two inputs tell "some" from "all"; every kind of device.
TwoInputs == {"a", "b"}
AllKinds == {"steady", "touch", "generic", "xbox", "keyboard", "mouse"}
=============================================================================

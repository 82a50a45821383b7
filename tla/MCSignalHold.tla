---------------------------- MODULE MCSignalHold ----------------------------
(***************************************************************************)
(* SignalHold on small instances, for TLC.                                 *)
(***************************************************************************)
EXTENDS SignalHold

CONSTANTS red, blue
=============================================================================

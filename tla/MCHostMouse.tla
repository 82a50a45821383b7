----------------------------- MODULE MCHostMouse -----------------------------
(***************************************************************************)
(* HostMouse on small instances, for TLC.  A tick is a second; the half    *)
(* second between two attempts is rounded up.                              *)
(***************************************************************************)
EXTENDS HostMouse
=============================================================================

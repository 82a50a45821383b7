--------------------------- MODULE MCGestureWorker ---------------------------
(***************************************************************************)
(* GestureWorker on small instances, for TLC.                              *)
(***************************************************************************)
EXTENDS GestureWorker

CONSTANTS k1, k2
=============================================================================

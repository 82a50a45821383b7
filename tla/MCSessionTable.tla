--------------------------- MODULE MCSessionTable ---------------------------
(***************************************************************************)
(* SessionTable on small instances, for TLC.                               *)
(***************************************************************************)
EXTENDS SessionTable, TLC

CONSTANTS k1, k2, p1, p2, r1

KeySymmetry == Permutations(Keys)
=============================================================================

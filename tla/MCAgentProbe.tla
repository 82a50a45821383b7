---------------------------- MODULE MCAgentProbe ----------------------------
(***************************************************************************)
(* AgentProbe on small instances, for TLC.                                 *)
(***************************************************************************)
EXTENDS AgentProbe

CONSTANTS pcA, pcB
=============================================================================

-------------------------- MODULE MCFeatureMemory --------------------------
EXTENDS FeatureMemory

CONSTANTS ds5, ds4, other, calibration, state

\* A DualSense and two pads of other types, all with a name: more than the tables have
\* room for.
MCPads == {ds5, ds4, other}
MCDualSenses == {ds5}
MCNameless == {}
MCReports == {calibration, state}
MCLasting == {calibration}
MCLengths == {"right", "short", "over"}
MCTooLong == {"over"}
=============================================================================

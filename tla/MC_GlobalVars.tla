---------------------------- MODULE MC_GlobalVars ----------------------------
EXTENDS GlobalVars

CONSTANTS j1, j2, k1, k2, v1, v2

MCJobs == {j1, j2}
MCKeys == {k1, k2}
MCVals == {v1, v2}
MCForeground == {j1}
=============================================================================

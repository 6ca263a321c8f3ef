-------------------------- MODULE MC_SimPointPhase --------------------------
EXTENDS SimPointPhase

CONSTANTS p1, p2, top, cur, old, none

MCPinballs == {p1, p2}

=============================================================================

---------------------------- MODULE MC_RunAllDir ----------------------------
EXTENDS RunAllDir

CONSTANTS p1, p2, p3, top, sub

MCPinballs == {p1, p2, p3}

MCDirsTree == {top, sub}

MCDirsFlat == {top}

MCResults == {0, -1}

PinballSymmetry == Permutations(MCPinballs)

=============================================================================

CONSTANTS
    p1 = p1
    p2 = p2
    p3 = p3
    top = top
    sub = sub
    Pinballs <- MCPinballs
    Dirs <- MCDirsTree
    Top = top
    Icounts = {0, 1, 2}
    MaxThreads = 2
    Results <- MCResults
SPECIFICATION Spec
INVARIANT SuccessMeansAllProcessed

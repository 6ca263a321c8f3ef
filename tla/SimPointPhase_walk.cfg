\* The SimPoint phase over one whole-program directory of two pinballs,
\* each with up to two per-thread result files of inscount 0..2 or none,
\* every subset filtered out, both tracing modes, and for each call every
\* combination of files RunSimPoint may find in the pinball's *.Data dir.
CONSTANTS
    p1 = p1
    p2 = p2
    top = top
    cur = cur
    old = old
    none = none
    Pinballs <- MCPinballs
    Dirs = {top}
    Top = top
    Icounts = {0, 1, 2}
    MaxThreads = 2
    Cur <- cur
    Old <- old
    None <- none
SPECIFICATION Spec
INVARIANT MaxIcountMatches
INVARIANT NoCallAfterError
INVARIANT SuccessMeansAllProcessed
INVARIANT SuccessMeansCurrentCSV
INVARIANT PhaseSuccessMeansCurrentCSVs

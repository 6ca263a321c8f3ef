\* Two jobs of one script, j1 run in the foreground (as by Replay or
\* RelogWhole) and j2 in the background (as by BasicBlockVector), two
\* file-name keys (so that a key drawn twice is reachable) and two mode
\* values (so that a later configuration file can disagree with an earlier one).
CONSTANTS
    j1 = j1
    j2 = j2
    k1 = k1
    k2 = k2
    v1 = v1
    v2 = v2
    Jobs <- MCJobs
    Keys <- MCKeys
    Vals <- MCVals
    Foreground <- MCForeground
SPECIFICATION Spec
INVARIANT TypeOK
INVARIANT Precedence
INVARIANT OptionsAgree
INVARIANT NoGlobalFileLeft

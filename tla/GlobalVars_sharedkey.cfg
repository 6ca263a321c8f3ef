\* Two jobs, j1 in the foreground and j2 in the background, and two keys:
\* the calling script may dump j1's file while j2's still exists.
CONSTANTS
    j1 = j1
    j2 = j2
    k1 = k1
    k2 = k2
    v1 = v1
    v2 = v2
    Jobs <- MCJobs
    Keys <- MCKeys
    Vals <- MCVals
    Foreground <- MCForeground
SPECIFICATION Spec
INVARIANT NoJobLosesItsGlobals

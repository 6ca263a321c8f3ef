\* Either script, run up to three times; the grid engine may start a job
\* before or after the user runs the script again.
CONSTANTS
  b1 = b1
  Benchs <- MCBenchs
  Vars <- MCVars
  Scripts = {"run_jobs", "encola"}
  SeedRanges <- MCSeedRanges
  MaxRuns = 3
  QsubMayFail = TRUE
SPECIFICATION Spec
INVARIANT AtMostOneLiveJob

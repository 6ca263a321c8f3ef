\* Either script, run up to three times, with qsub rejecting some
\* submissions: an invocation that ends normally has left a configuration
\* without a job.
CONSTANTS
  b1 = b1
  Benchs <- MCBenchs
  Vars <- MCVars
  Scripts = {"run_jobs", "encola"}
  SeedRanges <- MCSeedRanges
  MaxRuns = 3
  QsubMayFail = TRUE
SPECIFICATION Spec
INVARIANT EveryConfigQueued

\* Either script, run up to three times, each time with no seed arguments or with
\* seeds 0..1 (two configurations per benchmark, which the encola script
\* names alike) or 1..0 (none).  The BENCHMARK list names b1 twice, and qsub
\* may reject any submission.
CONSTANTS
  b1 = b1
  Benchs <- MCBenchs
  Vars <- MCVars
  Scripts = {"run_jobs", "encola"}
  SeedRanges <- MCSeedRanges
  MaxRuns = 3
  QsubMayFail = TRUE
SPECIFICATION Spec
INVARIANT TypeOK
INVARIANT NoDuplicateOutInRun
INVARIANT NoResubmitAfterStart

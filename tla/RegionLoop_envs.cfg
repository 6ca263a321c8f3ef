\* Three streams in each environment of MCEnvironments: one core or two
\* (the pool saturates and RunCmd has to reap a child before it starts the
\* next one) with jobs that always exit 0, and three cores where relogging
\* jobs may exit non-zero and the relogging tool may keep reporting the same
\* overlapping clusters, so the loop may end with "Too many iterations".
CONSTANTS
  s1 = s1
  s2 = s2
  s3 = s3
  Streams <- MCStreams
  Environments <- MCEnvironments
  MaxClusters = 3
SPECIFICATION Spec
INVARIANT TypeOK
INVARIANT PoolBound
INVARIANT NoSpuriousExhaustion
INVARIANT SuccessMeansMaterialized
INVARIANT StreamPassesBounded
INVARIANT ExhaustedOnlyAfterBound
PROPERTY Termination
PROPERTY RefinesPasses

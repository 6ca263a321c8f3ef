\* Three streams on two cores, and relogging jobs may exit non-zero: a
\* failing child that RunCmd reaps to free a core is never reported.
CONSTANTS
  s1 = s1
  s2 = s2
  s3 = s3
  Streams <- MCStreams
  Environments <- MCEnvironmentsLost
  MaxClusters = 3
SPECIFICATION Spec
INVARIANT SuccessMeansMaterialized

\* Three clusters with distinct last digits, listed in different orders by
\* the simpoints and the weights file.
CONSTANTS
    MaxSlices = 3
    SliceTotals = {1}
    ClusterIds <- MCClusterIdsSmall
    MaxLines = 3
    MaxBlock = 0
SPECIFICATION Spec
INVARIANT WeightPairing

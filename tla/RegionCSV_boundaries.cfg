\* A slice whose counts sum to zero before the representative slice.
CONSTANTS
    MaxSlices = 3
    SliceTotals = {0, 1}
    ClusterIds <- MCClusterIds
    MaxLines = 2
    MaxBlock = 3
SPECIFICATION Spec
INVARIANT SliceBoundaries

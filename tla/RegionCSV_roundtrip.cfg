\* Every input of up to three slices (totals 0 or 1, or no pairs), up to two
\* lines per SimPoint file and blocks 0..3.
CONSTANTS
    MaxSlices = 3
    SliceTotals = {0, 1}
    ClusterIds <- MCClusterIds
    MaxLines = 2
    MaxBlock = 3
SPECIFICATION Spec
INVARIANTS TypeOK RoundTrip PairingWhenSameOrder RepairSingleGap

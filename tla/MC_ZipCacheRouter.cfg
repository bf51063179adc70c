\* Tier coherence: PUTs of small and large values, GET, DELETE, threshold
\* changes racing with classification, and damaged large objects.
CONSTANTS
    Keys = {k1}
    Clients = {c1, c2}
    Ptrs <- MCPtrs
    Sizes <- MCTierSizes
    ThresholdChoices <- MCTierThresholds
    DramCapacity <- MCDramCapacity
    FileBytes <- MCTierFileBytes
    MaxCalls = 5
    DiskFaults = TRUE
    NoEntry = NoEntry
    NullPtr = NullPtr
SYMMETRY MCClientSymmetry
SPECIFICATION Spec
INVARIANT TypeOK
INVARIANT DescriptorsOwnExtents
PROPERTY NoStaleRead

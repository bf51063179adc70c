\* DRAM usage against the capacity zipcache_validate_consistency checks:
\* MEDIUM PUTs of 500000 bytes into 1 MB of DRAM, with the eviction thread
\* free to run or not between them.
CONSTANTS
    Keys = {k1}
    Clients = {c1}
    Ptrs <- MCEvictPtrs
    Sizes <- MCEvictSizes
    ThresholdChoices <- MCEvictThresholds
    DramCapacity <- MCDramCapacity
    FileBytes <- MCTierFileBytes
    MaxCalls = 5
    DiskFaults = FALSE
    NoEntry = NoEntry
    NullPtr = NullPtr
SPECIFICATION Spec
INVARIANT UsageWithinCapacity

\* Eviction: one client fills DRAM past 90% with MEDIUM objects; the clock
\* thread must bring usage back under the trigger, and zipcache_destroy
\* must return whatever the thread is doing; a zipcache_reset_stats between
\* the thread's check and its scan must not wrap the usage counter.
CONSTANTS
    Keys = {k1}
    Clients = {c1}
    Ptrs <- MCEvictPtrs
    Sizes <- MCEvictSizes
    ThresholdChoices <- MCEvictThresholds
    DramCapacity <- MCDramCapacity
    FileBytes <- MCTierFileBytes
    MaxCalls = 5
    DiskFaults = FALSE
    NoEntry = NoEntry
    NullPtr = NullPtr
SPECIFICATION Spec
INVARIANT UsageNeverWraps
PROPERTY EvictionRelieves
PROPERTY DestroyCompletes

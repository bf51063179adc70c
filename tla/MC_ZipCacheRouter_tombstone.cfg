\* PUT-then-GET: a GET after each kind of PUT and after a DELETE.
CONSTANTS
    Keys = {k1}
    Clients = {c1}
    Ptrs <- MCPtrs
    Sizes <- MCTierSizes
    ThresholdChoices <- MCTierThresholds
    DramCapacity <- MCDramCapacity
    FileBytes <- MCTierFileBytes
    MaxCalls = 5
    DiskFaults = FALSE
    NoEntry = NoEntry
    NullPtr = NullPtr
SPECIFICATION Spec
PROPERTY RoundTrip

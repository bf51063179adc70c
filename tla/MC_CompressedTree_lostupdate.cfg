CONSTANTS
    Clients = {c1}
    NoThread = NoThread
    Keys <- MCKeys
    Vals <- MCVals
    MAX_BUFFER_ENTRIES <- MCMaxBufferEntries
    BufferFlushThreshold <- MCBufferFlushThreshold
    MaxCalls = 4
    CodecFaults = TRUE
    LazyModes = {TRUE}
    ConfigToggles = FALSE
SPECIFICATION Spec
INVARIANT
    LogicalMapPreserved

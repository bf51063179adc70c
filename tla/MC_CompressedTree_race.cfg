CONSTANTS
    Clients = {c1}
    NoThread = NoThread
    Keys <- MCKeys
    Vals <- MCVals
    MAX_BUFFER_ENTRIES <- MCMaxBufferEntries
    BufferFlushThreshold <- MCBufferFlushThreshold
    MaxCalls = 4
    CodecFaults = FALSE
    LazyModes = {TRUE}
    ConfigToggles = FALSE
SPECIFICATION Spec
PROPERTY
    NoLeafRace

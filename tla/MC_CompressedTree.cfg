CONSTANTS
    Clients = {c1, c2}
    NoThread = NoThread
    Keys <- MCKeys
    Vals <- MCVals
    MAX_BUFFER_ENTRIES <- MCMaxBufferEntries
    BufferFlushThreshold <- MCBufferFlushThreshold
    MaxCalls = 4
    CodecFaults = FALSE
    LazyModes = {TRUE, FALSE}
    ConfigToggles = FALSE
SPECIFICATION Spec
INVARIANTS
    TypeOK
    LogicalMapPreserved
    CompressedImageCurrent
    FlusherLifecycle
PROPERTIES
    BufferDrains

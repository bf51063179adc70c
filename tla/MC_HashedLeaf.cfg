\* A leaf of four slots in two sub-pages of two slots, as init(16, 32) with
\* the default 16 sub-pages gives two slots per sub-page.
CONSTANTS
    Keys <- MCKeys
    Vals = {7}
    LEAF_ENTRIES = 4
    NUM_SUB_PAGES = 2
    MAX_BUFFER_ENTRIES = 2
    MaxCalls = 4
SPECIFICATION Spec
INVARIANT LeafWellFormed

\* Keys 1, 2 and 4 share sub-page 1; two data values so that a get that
\* returns an older value is told apart from the current one.
CONSTANTS
    Keys = {1, 2, 4}
    Vals = {1, 2}
    SUB_PAGES_PER_SUPER_LEAF = 2
    ENTRIES_PER_SUB_PAGE = 2
    BPLUS_MAX_ORDER = 3
    TotalBlocks = 5
    MaxLeaves = 4
    MaxTotal = 6
    FaultyBlocks = {}
    INVALID_BLOCK_ID = INVALID_BLOCK_ID
SPECIFICATION Spec
PROPERTY SSDMapRefined

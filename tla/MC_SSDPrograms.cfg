\* Both programs under one set of bounds.  Two sub-pages of two entries per
\* super-leaf, so a super-leaf splits at 90% of 4 entries: keys 3 and 9 hash
\* to sub-page 0 and keys 1, 2 and 4 to sub-page 1, so sub-pages fill, both
\* outcomes of a full sub-page occur, and a delete in sub-page 0 has an entry
\* after it to shift down.  Five blocks run out within two splits, and a root
\* of three children refuses a third promoted key.  One data value: the
\* properties are about where pairs are kept and whether a key is found.
CONSTANTS
    Keys = {1, 2, 3, 4, 9}
    Vals = {1}
    SUB_PAGES_PER_SUPER_LEAF = 2
    ENTRIES_PER_SUB_PAGE = 2
    BPLUS_MAX_ORDER = 3
    TotalBlocks = 5
    MaxLeaves = 4
    MaxTotal = 6
    FaultyBlocks = {0}
    INVALID_BLOCK_ID = INVALID_BLOCK_ID
SPECIFICATION ProgSpec
INVARIANTS ProgTypeOK CacheCoherent EntriesInHashedSlot BlocksExclusive
PROPERTY LeafProgramRefinesMap

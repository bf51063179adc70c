CONSTANTS
    Keys = {1, 2, 3, 4, 5}
    Vals = {p1, p2}
    INVALID_OBJECT_POINTER = INVALID_OBJECT_POINTER
    MAX_ENTRIES = 2
    ORDER = 3
    MaxNodes = 10
    InputOrder = "any"
SPECIFICATION Spec
PROPERTY LOMapRefined

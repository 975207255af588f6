CONSTANTS
    PAGE_SIZE = 9
    BMAP_AREA = 3
    ALLOC_AREA = 7
    NEXT_PTR_SIZE = 1
    HEADER = 1
    BITS_PER_BYTE = 2
    BITS_PER_WORD = 4
    Size = {1, 3}
    NumPages = 3
    t1 = t1
    Thread = {t1}
    WithOthers = TRUE
SPECIFICATION Spec
CHECK_DEADLOCK FALSE
INVARIANTS
    NoOverlap
    OwnedMarked
PROPERTIES
    LeaksOnlyRaced

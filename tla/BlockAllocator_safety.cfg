CONSTANTS
    BITMAP_SIZE = 3
    BITMAPS = 3
    FIRST_BITMAP = 0
    t1 = t1
    Thread = {t1}
SPECIFICATION Spec

    
PROPERTIES
    FailOnlyWhenFull
    

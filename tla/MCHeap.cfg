\* Two threads, two pages of heap and three frames to grow into.
SPECIFICATION Spec
CONSTANTS
    t1 = t1
    t2 = t2
    Threads = {t1, t2}
    NoThread = NoThread
    HEADER_SIZE = 3
    ALIGN = 2
    SPLIT_MIN = 2
    PAGE_SIZE = 8
    KHEAP_START = 8
    KHEAP_INITIAL_SIZE = 16
    KHEAP_MIN_SIZE = 8
    Sizes = {1, 5}
    Frames = 3
    MaxCost = 2
    MaxOwned = 2
SYMMETRY Perms
CHECK_DEADLOCK FALSE
INVARIANT ListIsWhole
INVARIANT GrantsAreReal
INVARIANT RetrySucceeds
INVARIANT CopyFits
PROPERTY Implements

\* Six memory maps, runs of up to four pages.
SPECIFICATION Spec
CONSTANTS
    Memmaps <- SmallMaps
    PAGE_SIZE = 2
    MaxCount = 4
CHECK_DEADLOCK FALSE
INVARIANT Accounting
INVARIANT EveryPageOnce
PROPERTY Implements

\* Four boot tables, frames that run out before every page is mapped.
SPECIFICATION Spec
CONSTANTS
    Index = {0, 1, 2}
    Higher = {1, 2}
    Ram = {1, 2, 3, 4, 5, 6, 7, 8, 9, 10}
    Device = {100}
    BootPml4 = 1
    BootTables <- Loader
    BootPages <- LoaderPages
    Memories = {{}, {5, 6, 8}, {5, 6, 7, 8, 9, 10}}
    Pages <- CallerPages
    Requests = {{"RW"}, {"RW", "USER"}}
INVARIANT HigherHalfKept
INVARIANT TlbCoherent
INVARIANT TablesAreATree
PROPERTY Implements

\* Blocks of eight bytes, a heap with room for every file, buses of two
\* devices with three functions, a registry of three.
SPECIFICATION BootSpec
CONSTANTS
    Names = {"a", "b", "c"}
    Archives <- MCArchives
    Machines <- MCMachines
    Screen <- MCScreen
    Corner <- MCCorner
    BLOCK = 8
    LIMIT = 8
    HeapRoom = 25
    SOURCES = 4
    PINS = 4
    DEVICES = 2
    FUNCTIONS = 3
    PCI_MAX_DEVICES = 3
CHECK_DEADLOCK FALSE
INVARIANT FilesFound
INVARIANT ShowsTheFile
INVARIANT LinesReachHandlers
INVARIANT BytesAnnounced
INVARIANT DevicesRegistered
PROPERTY Boots

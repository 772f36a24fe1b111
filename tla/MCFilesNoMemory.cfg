\* A heap with room for any one file of these archives, the longest of which
\* has 38 bytes.
SPECIFICATION FilesSpec
CONSTANTS
    Names = {"a", "b", "c"}
    Archives <- MCArchives
    Screen <- MCScreen
    Corner <- MCCorner
    BLOCK = 8
    LIMIT = 8
    HeapRoom = 39
CHECK_DEADLOCK FALSE
INVARIANT CatSurvivesNoMemory

\* A letter and the blank as keys.
SPECIFICATION Spec
CONSTANTS
    Keys = {"e", " "}
    Chars = {"e", " ", "$", "?"}
    Space = " "
    Prompt <- MCPrompt
    ClearName <- MCClear
    EchoName <- MCEcho
    HistoryName <- MCHistory
    Texts <- MCTexts
    Mark = "?"
    max_cols = 3
    ScreenHeights <- MCHeights
    SCROLLBACK_LINES = 2
    FONT_WIDTH = 1
    FONT_HEIGHT = 2
    width = 3
    Pitch <- MCPitch
    below = 1
    SHELL_BUFFER_SIZE = 6
    HISTORY_SIZE = 2
    SHELL_MAX_ARGS = 2
    MaxRow = 1
    MaxLater = 2
INVARIANT ScreenShowsTail
INVARIANT EchoShown
PROPERTY RingHoldsTail
PROPERTY HistoryIsRecent
PROPERTY RunsTheWords

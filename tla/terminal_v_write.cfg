SPECIFICATION TerminalSpec
CONSTANTS
    Others = {a}
    SHOW = 2
    REDISPLAY = 1
    THRESHOLD = 3
    CLEAVE = 2
    SCROLLROWS = 1
    PIPES = 2
    INFO_MAX = 1
    MaxPosts = 4
    MaxBytes = 2
    MaxCommands = 2
    Letters = {"x"}
    Commands <- MCCommands
    PasteCommand <- MCPaste
    Digits = {3}
    HISTORY_MAX = 2
    WIDTH = 2
    ROWSPASTE = 2
    PAGE = 2
    MaxLine = 2
    MaxPaste = 3
    ROWS = 3
    COLS = 3
    CELL_BYTES = 4
    MAX_PARAMS = 2
    PARAM_CAP = 1
    Digits9 = {"2"}
    MaxFed = 4
    MaxSequence = 5
    BASH_MAX_LINES = 4
    BASH_LINE_MAX = 4
    CONTENT = 1
    MaxOutput = 3
    MAX_UNDO = 2
    ARCHIVE_AT = 2
    ARCHIVE_OFF = 2
    Heights = {1, 2}
    Patterns <- MCPatterns
    MaxMessages = 3
    MaxKeys = 3
    MaxEditFaults = 1
    RawBytes = {1, 97, 255}
    Raws <- MCRaws
    LINE_BUF = 12
    Scribes = {1}
    SCRIBE_ARCHIVE_THRESHOLD = 3
    SCRIBE_ARCHIVE_CLEAVE = 3
    MaxDecisions = 0
    MaxSecond = 0
    PerSecond = 1
    MaxScribeFaults = 0
INVARIANT WriteDeletesMarked
CHECK_DEADLOCK FALSE

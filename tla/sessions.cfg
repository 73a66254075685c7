SPECIFICATION SessionSpec
CONSTANTS
    Codes = {0, 1}
    MaxOutput = 2
    MaxInput = 1
    Readers = {r1, r2}
    Chunks <- MCChunks
    Pattern <- MCPattern
    READ_MAX = 2
    LOOK_MAX = 5
    MaxLog = 9
    MaxReadLog = 7
    MaxPrompts = 4
    MaxLogFaults = 2
    MaxLibOutput = 2
INVARIANT ExitCodeLast
INVARIANT RemovalSound
INVARIANT NoOutputLost
INVARIANT CompletionsOnce
INVARIANT WholePatternFound
PROPERTY ExitCodeComes
PROPERTY WaitWakes
PROPERTY DestroyReturns
CHECK_DEADLOCK FALSE

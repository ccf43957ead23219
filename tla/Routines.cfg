SPECIFICATION RoutinesSpec
CHECK_DEADLOCK FALSE
CONSTANTS
    Letters = {"a", "b"}
    MAX_LENGTH = 7
    CELLS = 14
    BITS = 8
    HEX_DIGITS = 2
    Keys = {42, 54, 29, 56, 58, 28, 14, 16, 25, 26, 38, 39, 50, 51, 60, 72}
    Repeating = {42, 29, 38, 28}
    MAX_HELD = 3
    MAX_QUEUE = 2
    BUFSIZE = 3
    Signs = {"a", "b"}
    Patterns <- PatternSet
    MAX_TEXT = 6
    MAX_FILES = 2
    Garbage = {"a"}
    ROWS = 2
    COLS = 3
    OFFSET = 1
    SLOTS = 6
    LOCATIONS = 8
    Ink = {"x"}
    PLACE = 5
    LENGTHS <- OnOff
    BLINK = 2
    WAIT = 3
    MAX_PICTURE = 4
INVARIANTS SplitsWords MemoryMoved NumbersPrinted KeyMeaning
     GrepReadsOn ListSound FramesDrawn

SPECIFICATION Spec
CONSTANTS
    MAX_TERMINAL_NUM = 2
    MAX_BUFF_LENGTH = 3
    NUM_COLS = 2
    NUM_ROWS = 1
    SHELL_OFFSET = 1
    TAB_WIDTH = 2
    Letters = {"a"}
    Pictures = {0, 1}
    Calls = {"read"}
    Requests = {0, 3}
    LINE_LIMIT = 2
    Overlap = FALSE
    KeyPoints <- QuietPoints
INVARIANTS EditMatches 
PROPERTY ConsolesSeparate

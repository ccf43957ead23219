SPECIFICATION Spec
CONSTANTS
    MAX_TERMINAL_NUM = 1
    MAX_BUFF_LENGTH = 3
    NUM_COLS = 3
    NUM_ROWS = 3
    SHELL_OFFSET = 1
    TAB_WIDTH = 2
    Letters = {"a"}
    Pictures = {0}
    Calls = {"write"}
    Requests = {1, 4}
    LINE_LIMIT = 2
    Overlap = FALSE
    KeyPoints <- QuietPoints
INVARIANTS CursorOnScreen 

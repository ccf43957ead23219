SPECIFICATION Spec
CONSTANTS
    MAX_DEVICES = 3
    MAX_TERMINAL_NUM = 2
    KeyPoints <- Points
INVARIANTS NoSharedProcess

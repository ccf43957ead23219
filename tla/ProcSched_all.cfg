SPECIFICATION Spec
CONSTANTS
    MAX_DEVICES = 2
    MAX_TERMINAL_NUM = 2
    KeyPoints <- Points
INVARIANTS DisplayedIsRunning 
PROPERTIES OthersUndisturbed

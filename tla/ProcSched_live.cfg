SPECIFICATION FairSpec
CONSTANTS
    MAX_DEVICES = 3
    MAX_TERMINAL_NUM = 2
    KeyPoints <- SafePoints
PROPERTIES ImplementsStacks CallsEnd EmptyTerminalGetsShell

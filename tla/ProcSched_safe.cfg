SPECIFICATION Spec
CONSTANTS
    MAX_DEVICES = 4
    MAX_TERMINAL_NUM = 3
    KeyPoints <- SafePoints
INVARIANTS ForemostAttached OwnMemory OwnKernelStack OwnScreen KeyboardAlive NoFault ShellReserve ReservedSlotFree

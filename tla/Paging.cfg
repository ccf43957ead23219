SPECIFICATION PgSpec
CONSTANTS
    MAX_DEVICES = 5
    MAX_TERMINAL_NUM = 3
INVARIANTS OwnFrame KernelKept TlbCoherent

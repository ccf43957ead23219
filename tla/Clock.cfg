SPECIFICATION ClockFairSpec
CONSTANTS
    MAX_FREQ = 4
    DEF_FREQ = 2
    BITS = 4
    p = p
    q = q
    Procs = {p, q}
    Frequencies <- NotLeast
    Devices = {1, 8, 12}
    Exceptions = {14}
    EarlyRequests = FALSE
    MAX_NESTED = 2
INVARIANTS EvenTicks  ServedWhenUp 
PROPERTIES EoiOwn ReadReturns 

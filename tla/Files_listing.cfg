SPECIFICATION Spec
CONSTANTS
    MAX_TERMINAL_NUM = 2
    DEPTH = 1
    MIN_FD = 2
    MAX_FD = 2
    BLOCK_SIZE = 2
    dentry_count = 2
    dentries <- TwoEntries
    inodes <- Inodes
    data_blocks <- Blocks
    Counts = {1}
    Tidy = TRUE
INVARIANTS EndMeansAll

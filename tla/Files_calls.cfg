SPECIFICATION Spec
CONSTANTS
    MAX_TERMINAL_NUM = 2
    DEPTH = 2
    MIN_FD = 2
    MAX_FD = 2
    BLOCK_SIZE = 2
    dentry_count = 3
    dentries <- ThreeEntries
    inodes <- Inodes
    data_blocks <- Blocks
    Counts = {2}
    Tidy = TRUE
INVARIANTS TypeOK ReadsInOrder
 

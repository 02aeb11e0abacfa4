SPECIFICATION FilesSpec
CONSTANTS
    NRemember = 2
    Assoc = 2
    RasSize = 2
    Word = 64
    Branches <- LoopBranches
    Counts = {}
    PassCounts = TRUE
    MaxTrace = 4
CHECK_DEADLOCK FALSE
INVARIANTS
    Lossless

SPECIFICATION Spec
CONSTANTS
    NRemember = 2
    Assoc = 2
    RasSize = 2
    Word = 64
    Branches <- AllBranches
    Counts = {300}
    PassCounts = TRUE
    MaxTrace = 7
CONSTRAINT OneKind
\* Deadlock: the longest trace has been read.
CHECK_DEADLOCK FALSE
INVARIANTS
    TypeOK
    Lossless
    InStep
    NeverAborts
    NoDuplicates
    RecentBranchesAreShort

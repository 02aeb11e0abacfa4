CONSTANTS
    NumTables = 3
    IdxBits = 2
    Addtl = 1
    L1 = 2
    Alpha <- MCDouble
    CtrBits = 2
    Theta = 0
    TCBits = 2
    ACBits = 3
    Adaptations <- MCHistory
    MaxPath = 16
    HistSize = 9
    PCs <- MCPCs
    MaxOps = 6
SPECIFICATION Spec
PROPERTY HistoryFollowsAlias
\* Deadlock: the bound of the exploration is reached.
CHECK_DEADLOCK FALSE

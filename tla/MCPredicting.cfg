SPECIFICATION PSpec
CONSTANTS
    NumArchReg = 3
    NumPhyReg = 7
    RobCapacity = 3
    Width = 2
    FlagsReg = 2
    Experiments = {1, 2, 3, 4}
    Records <- MCRecords
    PCs <- MCPCs
    Started <- MCStarted
    MaxTrace = 5
INVARIANTS
    MemoryOrder
    NoSharing
    PredictsAsDriver
PROPERTY ResetRestores

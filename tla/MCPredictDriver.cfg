CONSTANTS
    NumTables = 2
    IdxBits = 1
    L1 = 2
    Alpha <- MCAlpha
    Theta = 1
    CtrBits = 2
    MaxPath = 16
    HistSize = 3
    PCs <- MCPCs
    Programs = {"gehl", "tables"}
    LineUps <- MCLineUps
SPECIFICATION DriverSpec
INVARIANTS
    HistoriesAgree
    SameGshare
    TournamentParts
PROPERTY Learns

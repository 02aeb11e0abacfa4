CONSTANTS
    NHist = 1
    NGehl = 11
    M <- MCM
    GehlRaw <- MCGehlRaw
    MinStep = 2
    LogG = 20
    LogGehl = 23
    TBits = 16
    BufferHist = 46
    MaxLength = 23
    AddrBits = 7
    KernelBits = {30, 31}
    PathLength = 16
    Word = 32
    PCs <- MCPCs
SPECIFICATION HistorySpec
INVARIANT EveryFoldExact
\* Deadlock: the predictor has made a pointer of garbage.
CHECK_DEADLOCK FALSE

CONSTANTS
    NHist = 3
    NGehl = 2
    M <- MCM
    GehlRaw <- MCGehlRaw
    MinStep = 1
    LogG = 3
    LogGehl = 2
    TBits = 3
    BufferHist = 6
    MaxLength = 4
    AddrBits = 1
    KernelBits = {1}
    PathLength = 4
    Word = 32
    PCs <- MCPCs
    LogL = 1
    CBits = 3
    Swizzle = 1
    MetaBank <- MCMeta
    MetaBits = 1
    MetaShift = 1
    CtrBits = 4
    Fast <- MCFast
    LogTick = 3
    CountLimit = 0
    MaxConfid = 2
    StaticTaken <- MCStatic
    Garbage <- MCGarbage
    MaxMixed = 4
    MaxOther = 8
    MaxAlone = 12
SPECIFICATION Spec
CONSTRAINT Bounded
INVARIANTS
    TypeOK
    HistoryExact
    ThetaPositive
    LoopConfident
PROPERTY AllocatesWhatMissed
\* Deadlock: the predictor has made a pointer of garbage.
CHECK_DEADLOCK FALSE

SPECIFICATION FairDataSpec
CONSTANTS
    NumArchReg = 3
    NumPhyReg = 9
    RobCapacity = 3
    Width = 2
    FlagsReg = 2
    Experiments = {4}
    Records <- DataRecords
    MaxTrace = 5
INVARIANTS
    TypeOK
    NoLeak
    NoUnderflow
    SourcesFollowProgramOrder
    ScoreboardExact
    RawOrder
    SuspendedByMisprediction
    DelayIsExact
PROPERTIES
    RetireInOrder
    ImplementsSequential
    Terminates

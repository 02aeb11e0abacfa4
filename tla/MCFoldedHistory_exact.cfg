CONSTANTS
    HistSize = 7
    Geometries <- MCFixed
SPECIFICATION FoldSpec
INVARIANTS
    FoldExact
    RecentKeptApart

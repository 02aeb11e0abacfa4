CONSTANTS
    HistSize = 5
    Geometries <- MCTwoLengths
SPECIFICATION FoldSpec
INVARIANT ExactOnceSettled

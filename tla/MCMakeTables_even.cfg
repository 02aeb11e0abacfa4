CONSTANT Configurations <- MCEven
SPECIFICATION MakeSpec
INVARIANTS
    ClosedForm
    IndexInRange
    EachAdditionalUsedOnce
\* The constructor returns.
CHECK_DEADLOCK FALSE

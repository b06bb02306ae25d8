SPECIFICATION Spec
CONSTANT Inputs <- MCInputs
INVARIANTS
    WireIsStrict
    ListsAreRead
    EncodingSurvives
    GeometryHolds
    NumbersHold
CHECK_DEADLOCK FALSE

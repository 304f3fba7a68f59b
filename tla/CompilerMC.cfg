SPECIFICATION Spec
CONSTANTS
    Steady = TRUE
    UINT8_MAX = 2
    Sources <- AllSources
INVARIANTS TypeOK HeightsMeet CapturedAreClosed ExportsAreVariables
PROPERTY NamesFound
CHECK_DEADLOCK FALSE

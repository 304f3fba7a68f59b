\* Every program the compiler emits; some properties are about the orderly ones.
SPECIFICATION Spec
CONSTANTS
    Upvalues = {u1, u2, u3}
    Values = {0, 1}
    Closed = Closed
    Dangling = Dangling
    Unused = Unused
    StackInitial = 2
    MaxFrames = 2
    MaxStack = 5
SYMMETRY Symmetry
INVARIANTS TypeOK OpenListFalls FramesNest
INVARIANTS EveryOpenUpvalueListed NoOpenUpvalueAboveTop AllPointersUpdated OneUpvaluePerVariable
PROPERTIES OnlyWritesChangeVariables
\* Capturing stops when the instance has no upvalue object left.
CHECK_DEADLOCK FALSE

\* Captures in any order: a captured variable is lost.
SPECIFICATION AnyOrderSpec
CONSTANTS
    Upvalues = {u1, u2, u3}
    Values = {0, 1}
    Closed = Closed
    Dangling = Dangling
    Unused = Unused
    StackInitial = 2
    MaxFrames = 2
    MaxStack = 5
PROPERTIES CapturedSurviveOverwriting
CHECK_DEADLOCK FALSE

\* A native function called on a full stack: its push turns collection on again.
SPECIFICATION Spec
CONSTANTS
    MaxObjects = 12
    Texts = {"native", "__init__", "__mod__", "module", "f"}
    NativeText = "native"
    InitText = "__init__"
    ModText = "__mod__"
    ModuleText = "module"
    FunctionText = "f"
    Programs <- NativePrograms
    Roomy = FALSE
    StackInitial = 2
    MaxFrames = 2
INVARIANT NoCollectionWhileDisabled
\* A program ends, or the instance has no object left.
CHECK_DEADLOCK FALSE

\* The programs of CollectorMC, on a stack with room for what C code pushes.
SPECIFICATION FairSpec
CONSTANTS
    MaxObjects = 12
    Texts = {"native", "__init__", "__mod__", "module", "f"}
    NativeText = "native"
    InitText = "__init__"
    ModText = "__mod__"
    ModuleText = "module"
    FunctionText = "f"
    Programs <- AllPrograms
    Roomy = TRUE
    StackInitial = 2
    MaxFrames = 2
INVARIANTS TypeOK InUseIsKept StringsAreInterned
PROPERTIES CollectionIsExact CollectionEnds
\* A program ends, or the instance has no object left.
CHECK_DEADLOCK FALSE

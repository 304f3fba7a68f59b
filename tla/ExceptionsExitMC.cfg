\* A return, break or continue out of a try statement leaves its catcher behind.
SPECIFICATION EarlyExitSpec
CONSTANTS
    Types = {"Name", "Type"}
    TypeOf <- MCTypeOf
    CatchLists <- MCCatchLists
    Main = "main"
    Modules = {"lib"}
    None = None
    MaxFrames = 2
    MaxBlocks = 2
    Exceptions = {"e1", "e2"}
    MaxHeight = 3
    MaxCatchers = 3
INVARIANT HandledByLiveTry
CHECK_DEADLOCK FALSE

\* Any way out of a try statement, failing imports, the next line of the REPL.
SPECIFICATION Spec
CONSTANTS
    Types = {"Name", "Type"}
    TypeOf <- MCTypeOf
    CatchLists <- MCCatchLists
    Main = "main"
    Modules = {"lib"}
    None = None
    MaxFrames = 2
    MaxBlocks = 2
    Exceptions = {"e1", "e2"}
    MaxHeight = 3
    MaxCatchers = 2
INVARIANTS TypeOK EveryLiveTryRegistered HeightAboveBlocks
\* The run ends.
CHECK_DEADLOCK FALSE

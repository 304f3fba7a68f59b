\* Control leaves try statements at their ends and by exceptions.
SPECIFICATION StructuredSpec
CONSTANTS
    Types = {"Name", "Type"}
    TypeOf <- MCTypeOf
    CatchLists <- MCCatchLists
    Main = "main"
    Modules = {"lib"}
    None = None
    MaxFrames = 2
    MaxBlocks = 2
    Exceptions = {"e1", "e2", "e3"}
    MaxHeight = 3
    MaxCatchers = 4
INVARIANTS CatchersAreLiveTries 
PROPERTIES InnermostTryCatches RaisedDuringHandling 
\* The run ends.
CHECK_DEADLOCK FALSE

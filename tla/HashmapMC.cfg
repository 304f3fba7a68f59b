\* One ordinary table and the intern table, two sizes of each.
SPECIFICATION FairSpec
CONSTANTS
    Tables = {"strings", "globals"}
    Strings = "strings"
    Keys = {"a1", "a2", "b", "c"}
    Chars <- MCChars
    Hash <- MCHash
    Null = Null
    True = True
    Values = {Null, True}
    Missing = Missing
    NoKey = NoKey
    MinCapacity = 2
    MaxCapacity = 4
INVARIANTS TypeOK ProbesTerminate CapacityIsPowerOfTwo CountIsUsedEntries EveryKeyFound OneObjectPerText
PROPERTIES ImplementsKVStore CallsReturn

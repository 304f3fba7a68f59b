\* Two ordinary tables: copying one into the other, with growth in between.
SPECIFICATION FairSpec
CONSTANTS
    Tables = {"strings", "globals", "methods"}
    Strings = "strings"
    Keys = {"a1", "b"}
    Chars <- MCChars
    Hash <- MCHash
    Null = Null
    True = True
    Values = {Null, True}
    Missing = Missing
    NoKey = NoKey
    MinCapacity = 2
    MaxCapacity = 4
INVARIANTS CopyKeeps
PROPERTIES ImplementsKVStore

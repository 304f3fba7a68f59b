\* Programs that skip no old slot and count updates from a steady end.
SPECIFICATION OrderlySpec
CONSTANTS
    Arrays = {a1, a2}
    Objects = {o1}
    Null = Null
    Junk = Junk
    None = None
    MinCapacity = 2
    MaxCapacity = 4
    MaxDisplay = 1
    Indices <- MCIndices
SYMMETRY Symmetry
INVARIANTS TypeOK LenWithinCapacity ElementsLive
PROPERTIES ImplementsArrayStore

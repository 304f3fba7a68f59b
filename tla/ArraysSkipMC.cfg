\* Every program.
SPECIFICATION Spec
CONSTANTS
    Arrays = {a1, a2}
    Objects = {o1}
    Null = Null
    Junk = Junk
    None = None
    MinCapacity = 2
    MaxCapacity = 4
    MaxDisplay = 1
    Indices <- MCIndices
SYMMETRY Symmetry
PROPERTIES SkippedElementsAreNull

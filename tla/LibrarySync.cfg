SPECIFICATION LSSpec
CONSTANTS
    Docs = {1, 2}
    Names = {n1, n2}
    NoName = NoName
    MaxSuffix = 2
    MaxRev = 2
    MaxEvents = 3
SYMMETRY Symmetry
INVARIANTS EditsKept MirroredAfterTwo NoStrayProjection

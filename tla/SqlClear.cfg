CONSTANTS
    Handles = {h1, h2}
    Families = {f1, f2}
    Ids = {i1, i2}
    CanOutliveFuture = TRUE
    NoId = NoId
    NoHandle = NoHandle
    NoFamily = NoFamily
SYMMETRY Symmetry
SPECIFICATION ClearSpec
INVARIANT
    ClearIsThorough
PROPERTY
    ImplementsContract

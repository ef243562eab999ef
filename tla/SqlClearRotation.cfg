CONSTANTS
    Handles = {h1}
    Families = {f1, f2}
    Ids = {i1, i2}
    CanOutliveFuture = FALSE
    NoId = NoId
    NoHandle = NoHandle
    NoFamily = NoFamily
SYMMETRY Symmetry
SPECIFICATION ClearSpec
PROPERTY
    ClearDestroysAll

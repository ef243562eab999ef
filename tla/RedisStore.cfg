CONSTANTS
    Handles = {h1, h2}
    Families = {f1, f2}
    Ids = {i1, i2}
    CanOutliveFuture = TRUE
    BatchSize = 1
    NoId = NoId
    NoHandle = NoHandle
    NoFamily = NoFamily
SYMMETRY Symmetry
SPECIFICATION RedisSpec
INVARIANT
    ClearIsThorough
PROPERTY
    CommandsImplementContract

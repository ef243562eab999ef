CONSTANTS
    Savers = {s1}
    TicksPerMilli = 2
    MillisPerSecond = 2
    None = None
    Horizon = 8
    Quotes = {"double", "single"}
    Others = {"a"}
    MaxContent = 2
SPECIFICATION Spec
INVARIANTS
    TypeOK
    DeadlineNotEarly
    DeadlineIffExpiry
    RetentionBounded
    IndexFollowsTable
PROPERTIES
    RemovesOnlyExpired
    LoadsMissOnlyExpired

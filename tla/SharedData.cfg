CONSTANTS
    Handles = {h1, h2, h3}
    Cells = {c1, c2, c3}
    Values = {v1, v2}
    NoCell = NoCell
    NoData = NoData
SYMMETRY Symmetry
SPECIFICATION Spec
INVARIANTS
    TypeOK
    SavesAreCounted
    MetadataIsTracked
PROPERTY
    LoadsAreIsolated

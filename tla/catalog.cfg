CONSTANTS
    Uris <- MCUris
    Target <- MCTarget
    MaxSize = 1
    NetFails = TRUE
SPECIFICATION Spec
INVARIANTS
    ListSorted
    HeadIsTarget
PROPERTIES
    CatalogRefined
CHECK_DEADLOCK FALSE

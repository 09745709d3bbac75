CONSTANTS
    Names <- SomeNames
    PropNames <- SomeProps
    Values <- SomeValues
    Size = 30
    MaxSize = 44
    MaxCalls = 6
    MaxEdits = 2
    OverlaySize = 126
    Overlays <- SomeOverlays
SPECIFICATION Spec
VIEW view
CHECK_DEADLOCK FALSE
INVARIANTS
    QueriesAgree
    OverlayMerged
PROPERTIES
    Edits

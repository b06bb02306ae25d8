CONSTANTS
    SigCap = 2
    MaxImages = 3
SPECIFICATION Spec
CHECK_DEADLOCK FALSE
INVARIANTS
    HeaderOnce
    OnlyACutBreaks
    LastSignalCounts

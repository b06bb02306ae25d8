CONSTANTS
    EventCap = 2
    ResetsIsEvent = TRUE
    MaxEvents = 4
    MaxRuns = 3
SPECIFICATION Spec
INVARIANTS
    TypeOK
    NoStaleEvents
    EventsInOrder
    NoStopIsLost
    TicksCoalesce
PROPERTIES
    IsServed

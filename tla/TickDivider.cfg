CONSTANTS
    Subs = {x1, x2}
    Cancels = {c1}
    NoCancel = NoCancel
    Base = 2
    Intervals <- MCIntervals
    MaxTick = 2
    None = None
SPECIFICATION Spec
INVARIANTS
    TypeOK
    RegistryAgrees
    AtMostOneLateTick
    NoTickSkipped
    TicksInOrder
PROPERTY Forgets

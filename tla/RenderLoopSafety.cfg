\* Two modules, each with a goroutine that updates it.
CONSTANTS
    N = 2
    c1 = c1
    c2 = c2
    a = a
    b = b
    Callers = {c1, c2}
    Owner <- MCOwner
    Blocks = {a, b}
    Frames <- MCFrames
    Nobody = Nobody
SPECIFICATION Safe
INVARIANTS
    NoLostUpdate
    LineWellFormed
    LineCarriesFrames
PROPERTY ImplementsStatusLine

\* One module, two goroutines that update it at the same time.
CONSTANTS
    N = 1
    c1 = c1
    c2 = c2
    a = a
    b = b
    Callers = {c1, c2}
    Owner <- MCOwnerShared
    Blocks = {a, b}
    Frames <- MCFrames3
    Nobody = Nobody
SPECIFICATION Spec
INVARIANT WholeFrames
PROPERTY UpdatesAreDrawn

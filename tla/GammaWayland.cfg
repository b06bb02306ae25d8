CONSTANTS
    Outputs = {1, 2}
    Managers = {3, 4}
    ManagerId = 2
    MaxSets = 2
    MaxQueue = 3
SPECIFICATION Safe
CHECK_DEADLOCK FALSE
INVARIANTS
    RampIsCurrent
    AllOutputsTinted
PROPERTY
    ImplementsGammaManager

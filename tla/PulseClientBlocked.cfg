CONSTANTS
    Callers = {c1, c2}
    Nobody = Nobody
    Tags = 2
    MaxRequests = 2
SPECIFICATION Spec

CHECK_DEADLOCK FALSE
PROPERTIES
    RequestReturns

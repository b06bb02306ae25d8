CONSTANTS
    Callers = {c1, c2}
    Nobody = Nobody
    Tags = 2
    MaxRequests = 3
SPECIFICATION Spec
CHECK_DEADLOCK FALSE
INVARIANTS
    TypeOK
    AnswersMatch
    NoUnknownTag
PROPERTIES
    CallsAreReleased

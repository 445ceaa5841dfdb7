SPECIFICATION Spec
CONSTANTS
    Transports <- BothTransports
    MaxRequests = 2
    MaxInFlight = 2
    RetryCount = 1
    TidModulus = 65536
    Faults <- Damage
INVARIANTS
    Books
PROPERTIES
    WholeAnswersMatch

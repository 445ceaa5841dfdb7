SPECIFICATION Spec
CONSTANTS
    Transports <- TcpOnly
    MaxRequests = 3
    MaxInFlight = 2
    RetryCount = 1
    TidModulus = 65536
    Faults <- Drops
INVARIANTS
    EndsOnce
    FailsAfterEveryAttempt
    NoStrandedAnswer
PROPERTIES
    ImplementsService
    EveryRequestEnds

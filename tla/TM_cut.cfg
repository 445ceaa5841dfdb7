SPECIFICATION Spec
CONSTANTS
    Transports <- TcpOnly
    MaxRequests = 1
    MaxInFlight = 1
    RetryCount = 1
    TidModulus = 65536
    Faults <- Cuts
PROPERTIES
    TcpAnswersMatch

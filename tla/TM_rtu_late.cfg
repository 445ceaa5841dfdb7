SPECIFICATION Spec
CONSTANTS
    Transports <- RtuOnly
    MaxRequests = 2
    MaxInFlight = 1
    RetryCount = 0
    TidModulus = 65536
    Faults <- NoFaults
PROPERTIES
    RtuAnswersMatch

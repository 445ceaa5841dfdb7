SPECIFICATION Spec
CONSTANTS
    Types <- BothTypes
    Devices <- TwoDevices
    MaxByHand = 2
INVARIANTS
    RetryScheduled
    ConnectedMeansLinkUp
    FavoritesAreAlive
    DisconnectClosesLink
    EndedStaysEnded
    SessionKeepsItsDevice
    LossesArePaired
PROPERTIES
    PollingResumes
    ConnectingEnds
    TcpReconnects

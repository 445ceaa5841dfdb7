SPECIFICATION Spec
CONSTANTS
    Types <- RtuOnly
    Devices <- TwoDevices
    MaxByHand = 1
PROPERTIES
    SerialReconnects

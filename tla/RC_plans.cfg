SPECIFICATION Spec
CONSTANTS
    TargetChoices <- Scattered
    MaxTargets = 3
    MaxGap = 2
    MaxCount <- Limits
    AddressSpace = 12
INVARIANTS
    ReadsAreExact
    RequestsAreCanonical

SPECIFICATION Spec
CONSTANTS
    Addresses <- ThreeAddresses
    Types <- ThreeTypes
    Ranges <- TwoRanges
    FilterTexts <- AnyOrTwo
    Formattable <- ZeroAndOne
    MaxOneShots = 2
INVARIANTS
    LatestRequestIsAwaited

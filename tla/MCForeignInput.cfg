SPECIFICATION Spec
CONSTANTS
    MaxDepth = 2
    MaxString = 6
    MaxBytes = 20
    MaxEntries = 4
    MaxContent = 20
    MaxValues = 9
    MaxName = 3
    NotFinite <- NotFiniteInst
    ErrorCodes <- Codes
    MaxFrame = 71
    MaxMessage = 4
    Values <- ValuesInst
    Streams <- StreamsInst
    Patches <- PatchesInst
    MaxDamage = 2
    Sizes = {4, 7, 8, 39, 40, 63, 64}
    Versions = {0, 1, 2}
INVARIANTS
    ValuesAreCanonical
    StreamKeepsMessages
    FramesAreExact
    TableChecksAgree
CHECK_DEADLOCK FALSE

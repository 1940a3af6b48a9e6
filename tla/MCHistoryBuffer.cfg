SPECIFICATION Spec
CONSTANTS
    Highbit = 4
    MinTraceback = 2
    TracebackGroup = 2
    RenormalizeInterval = 3
    DistanceMax = 7
    MaxSlices = 5
    SliceInputs <- MCSlices
    DistanceInputs <- MCDistances
INVARIANTS
    RingHoldsUndecided
    TracebackReadsWritten
    SeamlessWhenMerged
    RenormalizeKeepsDifferences
PROPERTIES
    ImplementsStream

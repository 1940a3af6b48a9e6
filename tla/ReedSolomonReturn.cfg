SPECIFICATION MCSpec
CONSTANTS
    Width = 3
    PrimitivePoly = 11
    MinDistance = 4
    FirstRoot = 0
    RootGap = 2
    Transmissions <- AllTransmissions
    Repeated <- ErasuresAndErrors
    MaxCalls = 2
    Pads = {0, 2}
    ShimTransmissions <- MCShimTransmissions
    Library = Library
INVARIANT ReturnsBytesWritten

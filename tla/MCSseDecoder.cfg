SPECIFICATION SseSpec
CONSTANTS
    Order = 6
    Rate = 2
    Poly <- Poly6
    SoftMax = 2
    DistanceMax = 127
    FreeDistance = 8
    MinTraceback = 5
    TracebackGroup = 4
    RenormalizeInterval <- SseInterval
    Lengths = {14, 30, 45}
    Inputs <- MCInputs
    Repeated <- MCInputs
    PathBound = 2
    MaxDecodes = 2
INVARIANT
    SumsStayPositive
PROPERTY
    ImplementsPlain

SPECIFICATION Spec
CONSTANTS
    Order = 4
    Rate = 2
    Poly <- Poly4
    SoftMax = 2
    DistanceMax = 36
    FreeDistance = 6
    MinTraceback = 4
    TracebackGroup = 1
    RenormalizeInterval <- PlainInterval
    Lengths = {7, 9, 12}
    Inputs <- MCInputs
    Repeated <- MixedInputs
    PathBound = 9
    MaxDecodes = 2
INVARIANTS
    DoubleBuffer
    MetricsAreLeastDistances
    DecodesMostLikely
    RecoversMessage
    RingIsCurrent
PROPERTY
    ImplementsSchedule

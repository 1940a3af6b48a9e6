SPECIFICATION EncoderSpec
CONSTANTS
    Width = 3
    Buffers <- MCMessages
    Sizes <- MCSizes
    Fills = {0, 7}
    MaxChunk = 7
    Order = 6
    Rate = 2
    Poly <- r12_6
    SoftMax = 1
    DistanceMax = 15
INVARIANTS
    ReadsBackInOrder
    StreamIsSent
    RoomIsExact
    FlushRoundsUp
    RoomForEveryRound
    WritesCodeword
    EndsInStateZero

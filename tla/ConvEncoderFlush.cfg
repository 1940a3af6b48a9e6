SPECIFICATION EncoderSpec
CONSTANTS
    Width = 8
    Buffers <- FlushMessages
    Sizes = {1}
    Fills = {255}
    MaxChunk = 1
    Order = 6
    Rate = 2
    Poly <- r12_6
    SoftMax = 1
    DistanceMax = 15
INVARIANT LastByteZeroFilled

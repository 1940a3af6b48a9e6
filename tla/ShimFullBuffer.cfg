SPECIFICATION ShimSpec
CONSTANTS
    Kinds = {"conv", "sse", "rs", "viterbi", "rs_char"}
    Blocks <- MCBlocks
    BufferBits <- MCBufferBits
    Surplus <- WholeBlocks
    ChainbackBits = {5, 16}
    DirectBlocks <- MCDirectBlocks
    ShimOrders <- MCShimOrders
    UintRange = 65536
    MaxUpdates = 2
INVARIANT WritesStayInBuffer

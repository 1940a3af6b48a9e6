SPECIFICATION SseSpec
CONSTANTS
    Blocks <- MCBlocks
    Rate = 2
    MaxReads = 12
PROPERTY SseDecodeReturns

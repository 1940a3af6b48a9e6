-------------------------- MODULE MCCodecSessions --------------------------
(***************************************************************************)
(* Objects of every kind.  Direct decodes: the blocks the encoder makes of *)
(* 1..3 bytes with the orders of correct.h, 8*n + order + 1 slices, and    *)
(* blocks where warm-up and tail meet or overlap.  The wrapper: buffers of *)
(* one to three bytes, updates too short, just long enough, not a whole    *)
(* byte, and of one and two bytes.                                         *)
(***************************************************************************)
EXTENDS ViterbiShim

Encoded(orders, lengths) ==
    {<<o, 8 * n + o + 1>> : o \in orders, n \in lengths}

MCDirectBlocks ==
    Encoded({6, 7, 8, 9, 12}, 1 .. 3) \cup Encoded({15}, 1 .. 3)
        \cup {<<o, 2 * (o - 1)>> : o \in {6, 9}}

MCBufferBits == {8, 13, 24}
MCShimOrders == {7, 9, 15}

\* What the wrapper may come to decode.
MCShimBlocks == {<<o, o - 1 + n>> : o \in MCShimOrders, n \in 0 .. 31}

MCBlocks == MCDirectBlocks \cup MCShimBlocks

MCSurplus == {-1, 0, 4, 10, 18}

\* Blocks of one byte, as the encoder makes them.
WholeBlocks == {10}
=============================================================================

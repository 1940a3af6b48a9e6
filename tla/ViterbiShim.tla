---------------------------- MODULE ViterbiShim ----------------------------
(***************************************************************************)
(* The convolutional codec as its callers meet it: an object is created    *)
(* (Lifecycle), decodes block after block (DecodeSchedule) and is          *)
(* destroyed, either directly (kind "conv") or through the libfec wrapper  *)
(* of fec_shim.c (kind "viterbi"), which keeps the decoded bytes in a      *)
(* buffer between update_viterbi_blk and chainback_viterbi.                *)
(*                                                                         *)
(* A byte of the buffer is <<u, j>>, the j-th byte that update number u    *)
(* decoded, or Garbage.                                                    *)
(***************************************************************************)
EXTENDS DecodeSchedule, Lifecycle

CONSTANTS BufferBits,      \* num_decoded_bits handed to create_viterbi
          Surplus,         \* num_encoded_groups, less order-1
          ChainbackBits,   \* num_decoded_bits handed to chainback_viterbi
          DirectBlocks,    \* the blocks decoded without the wrapper
          ShimOrders,      \* the orders of create_viterbi27 ... 615: 7, 9, 15
          UintRange,       \* 2^32 for the code's unsigned int
          MaxUpdates       \* bound: updates of one object

\* Sizes are small beside the range of unsigned int.  Whatever number of bits an
\* update may come to decode, Blocks has the block for it.
ASSUME ShimAssumption ==
    /\ BufferBits \subseteq Nat /\ ChainbackBits \subseteq Nat
    /\ DirectBlocks \subseteq Blocks
    /\ ShimOrders \subseteq 1 .. 16
    /\ UintRange \in Nat /\ UintRange > 32
    /\ MaxUpdates \in Nat
    /\ \A x \in Surplus, o \in ShimOrders :
           x \in Int /\ x + o - 1 >= 0 /\ x + o < UintRange
    /\ \A b \in BufferBits :
           /\ b + 32 < UintRange
           /\ \A o \in ShimOrders, n \in 0 .. b + 7 : <<o, o - 1 + n>> \in Blocks

VARIABLES bufLen,       \* buf_len
          readIter,     \* read_iter - buf
          writeIter,    \* write_iter - buf
          buffer,       \* the bytes behind buf that were written, by offset
          given,        \* num_encoded_groups of the last update
          writeBits,    \* its n_write_bits
          updates,      \* history variable: updates of this object
          decoded,      \* history variable: the bytes decoded since init_viterbi
          delivered     \* history variable: the bytes handed out since then

bufVars  == <<bufLen, readIter, writeIter, buffer>>
callVars == <<given, writeBits, updates, decoded, delivered>>
shimVars == <<bufVars, callVars>>
allVars  == <<scheduleVars, codecVars, shimVars>>

\* Is a decode under way?
Decoding == phase \in {"warmup", "inner", "tail"}

-----------------------------------------------------------------------------
(* The arithmetic.                                                         *)

\* Bytes for so many bits: the last one may be partly used.
Ceil8(bits) == IF bits % 8 # 0 THEN bits \div 8 + 1 ELSE bits \div 8

RemBits == 8 * (bufLen - writeIter)

\* num_encoded_groups - (order - 1), which wraps around below zero.
NWriteBits(groups) == (groups - (order - 1)) % UintRange

\* Mutant: an update may fill its buffer and one byte more.
Reduction_OneByteLate(groups) ==
    IF NWriteBits(groups) > RemBits + 8 THEN NWriteBits(groups) - RemBits - 8 ELSE 0

Reduction(groups) ==
    IF NWriteBits(groups) > RemBits THEN NWriteBits(groups) - RemBits ELSE 0

\* The groups that the update decodes.
DecodedGroups(groups) == (groups - Reduction(groups)) % UintRange

\* Mutant: the bytes handed out are rounded up before the length is cut.
ChainbackBytes_NotCut(bits) == Ceil8(bits)

\* The bytes that chainback hands out.
ChainbackBytes(bits) ==
    LET rem == 8 * (writeIter - readIter)
    IN  Ceil8(IF bits > rem THEN rem ELSE bits)

\* The n bytes that update number u leaves from offset `at` on.
Written(u, at, n) ==
    [k \in DOMAIN buffer \cup at .. at + n - 1 |->
        IF k \in at .. at + n - 1 THEN <<u, k - at>> ELSE buffer[k]]

-----------------------------------------------------------------------------
(* The calls.                                                              *)

ShimInit ==
    /\ Init
    /\ CodecInit
    /\ IF kind = "conv" THEN \E b \in DirectBlocks : order = b[1] ELSE order \in ShimOrders
    /\ bufLen = 0 /\ readIter = 0 /\ writeIter = 0
    /\ buffer = <<>>
    /\ given = 0 /\ writeBits = 0 /\ updates = 0
    /\ decoded = <<>> /\ delivered = <<>>

\* create_viterbi, or the create function of another codec.
CreateCodec(n, bits, wild) ==
    /\ Create(n, wild)
    /\ bufLen' = IF kind = "viterbi" THEN Ceil8(bits) ELSE 0
    /\ readIter' = 0 /\ writeIter' = 0
    /\ buffer' = <<>>
    /\ given' = 0 /\ writeBits' = 0 /\ updates' = 0
    /\ decoded' = <<>> /\ delivered' = <<>>
    /\ UNCHANGED scheduleVars

DestroyCodec(wild) ==
    /\ ~Decoding
    /\ Destroy(wild)
    /\ UNCHANGED <<scheduleVars, shimVars>>

\* init_viterbi.
InitViterbi ==
    /\ kind = "viterbi" /\ handle = "held" /\ misused = {}
    /\ ~Decoding
    /\ readIter' = 0 /\ writeIter' = 0
    /\ decoded' = <<>> /\ delivered' = <<>>
    /\ UNCHANGED <<scheduleVars, codecVars, bufLen, buffer, given, writeBits, updates>>

\* update_viterbi_blk up to the loops of the decode.  It does not look at what
\* the decode returns: when that gives up, the cursor moves all the same.
Update(groups, n, wild) ==
    /\ kind = "viterbi"
    /\ ~Decoding
    /\ updates < MaxUpdates
    /\ PrepareDecode(n, {}, wild)
    /\ given' = groups
    /\ writeBits' = NWriteBits(groups) - Reduction(groups)
    /\ updates' = updates + 1
    /\ \/ /\ Goes(n)
          /\ Start(DecodedGroups(groups))
          /\ UNCHANGED writeIter
       \/ /\ ~Goes(n)
          /\ writeIter' = IF misused' = {} THEN writeIter + writeBits' \div 8 ELSE writeIter
          /\ UNCHANGED scheduleVars
    /\ UNCHANGED <<bufLen, readIter, buffer, decoded, delivered>>

\* correct_convolutional_decode called directly, up to its loops.
DirectDecode(length, n, wild) ==
    /\ kind = "conv"
    /\ ~Decoding
    /\ updates < MaxUpdates
    /\ PrepareDecode(n, {}, wild)
    /\ updates' = updates + 1
    /\ IF Goes(n) THEN Start(length) ELSE UNCHANGED scheduleVars
    /\ UNCHANGED <<bufVars, given, writeBits, decoded, delivered>>

\* A decode of another codec; what follows the initialisation is not its
\* owner's business.
OtherDecode(n, used, wild) ==
    /\ kind \notin {"conv", "viterbi"}
    /\ PrepareDecode(n, used, wild)
    /\ UNCHANGED <<scheduleVars, shimVars>>

\* A step of a decode before its last one.
DecodeStep ==
    /\ WarmupRound \/ WarmupEnd \/ InnerRound \/ EndInner \/ TailRound
    /\ UNCHANGED <<codecVars, shimVars>>

\* The decode returns; the shim moves its cursor past the bytes that it counts
\* on, where the decode has left processed / 8 of them.
Return ==
    /\ Finish
    /\ IF kind = "viterbi"
       THEN /\ buffer' = Written(updates, writeIter, processed \div 8)
            /\ writeIter' = writeIter + writeBits \div 8
            /\ decoded' = decoded \o [j \in 1 .. writeBits \div 8 |-> <<updates, j - 1>>]
       ELSE UNCHANGED <<writeIter, buffer, decoded>>
    /\ UNCHANGED <<codecVars, bufLen, readIter, given, writeBits, updates, delivered>>

\* chainback_viterbi: a byte that was never written is delivered as <<>>.
Chainback(bits) ==
    LET n == ChainbackBytes(bits)
    IN  /\ kind = "viterbi" /\ handle = "held" /\ misused = {}
        /\ ~Decoding
        /\ readIter' = readIter + n
        /\ delivered' = delivered \o
               [j \in 1 .. n |-> IF readIter + j - 1 \in DOMAIN buffer
                                 THEN buffer[readIter + j - 1] ELSE <<>>]
        /\ UNCHANGED <<scheduleVars, codecVars, bufLen, writeIter, buffer,
                       given, writeBits, updates, decoded>>

DecodeSteps == DecodeStep \/ Return

ShimNext ==
    \/ \E n \in Failing(Created(kind)), bits \in BufferBits, wild \in BOOLEAN :
           CreateCodec(n, bits, wild)
    \/ \E wild \in BOOLEAN : DestroyCodec(wild)
    \/ InitViterbi
    \/ \E n \in Failing(Lazy(kind)), wild \in BOOLEAN :
           \/ \E x \in Surplus : Update(order - 1 + x, n, wild)
           \/ \E b \in DirectBlocks : b[1] = order /\ DirectDecode(b[2], n, wild)
           \/ \E used \in UsedBefore : OtherDecode(n, used, wild)
    \/ DecodeSteps
    \/ \E bits \in ChainbackBits : Chainback(bits)
    \/ Crashed /\ UNCHANGED <<scheduleVars, shimVars>>

\* As in DecodeSchedule: a call that has begun goes on.
ShimSpec == ShimInit /\ [][ShimNext]_allVars /\ WF_allVars(DecodeSteps)

-----------------------------------------------------------------------------
(* Properties.                                                             *)

InUpdate == kind = "viterbi" /\ Decoding

\* fec_shim.c:163: "don't overwrite our buffer".  What a decode writes, from the
\* write cursor on, ends in the buffer.
WritesStayInBuffer == InUpdate => writeIter + processed \div 8 <= bufLen

\* The same while there is room at all: cutting the groups in step with the
\* bits keeps the decode inside the buffer, also when num_encoded_groups -
\* (order - 1) wraps around, and when warm-up and tail overlap and more bits
\* are decided than the cursor moves by (fec_shim.c:166-181 with cv_decode.c:6,
\* 41, 156).  The cursors stay in order.
WritesStayWhereRoomIs ==
    /\ 0 <= readIter /\ readIter <= writeIter /\ writeIter <= bufLen
    /\ InUpdate /\ writeIter < bufLen => writeIter + processed \div 8 <= bufLen

\* Chainback hands out what the updates decoded, every byte once and in order,
\* in whatever portions it is fetched and whatever an earlier block left in the
\* buffer (fec_shim.c:178-199) - unless an allocation failed, for then update
\* moves its cursor over bytes that no decode wrote.
ChainbackDeliversDecoded == failed = {} => IsPrefix(delivered, decoded)
=============================================================================

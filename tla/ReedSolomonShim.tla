--------------------------- MODULE ReedSolomonShim ---------------------------
(***************************************************************************)
(* encode_rs_char and decode_rs_char of fec_shim.c, libfec's interface to  *)
(* the Reed-Solomon codec, and callers of either interface.                *)
(*                                                                         *)
(* Where the library takes blocks of any length and erasures as indices    *)
(* into the block, libfec has one padding for all blocks of a codec and    *)
(* erasures as places in the full block of N bytes, padding included.  And *)
(* it decodes in place: the block is the message buffer, too.              *)
(***************************************************************************)
EXTENDS ReedSolomon

CONSTANTS Pads,              \* the paddings of libfec's codecs
          ShimTransmissions, \* records message, noise, erased; for each padding
          Library            \* stands for no padding: the caller has no shim

ASSUME ShimAssumption ==
    /\ Pads \subseteq 0 .. N - MinDistance
    /\ Library \notin Pads
    /\ \A pad \in Pads : ShimTransmissions[pad] \subseteq TransmissionRecords
    /\ \A pad \in Pads : \A t \in ShimTransmissions[pad] :
           /\ t.message \in [1 .. N - pad - MinDistance -> Elements]
           /\ t.noise \in [1 .. N - pad -> Elements]
           /\ t.erased \in Seq(0 .. N - 1)
           /\ Len(t.erased) <= MinDistance
           /\ \A j, k \in 1 .. Len(t.erased) : t.erased[j] = t.erased[k] => j = k

VARIABLES pad,      \* of the shim, or Library
          block,    \* the block of the shim's caller
          given     \* not in the code: the places the caller has erased

shimVars == <<vars, pad, block, given>>

ThroughShim == pad # Library

\* Mutant: the places are taken for indices into the block.
IndexOf_NoPad(place) == place

\* An index of 8 bits: a place in the padding wraps around.
IndexOf(place) == (place - pad) % 2^Width

ForLibrary(t) ==
    [t EXCEPT !.erased = [k \in DOMAIN t.erased |-> IndexOf(t.erased[k])]]
------------------------------------------------------------------------------
ShimInit ==
    /\ Init
    /\ pad \in Pads \cup {Library}
    /\ block = <<>>
    /\ given = <<>>

\* The parity is copied out of the shim's own buffer, behind the caller's
\* message; the channel adds its noise to the caller's block.
EncodeRsChar(t) ==
    /\ Encode(ForLibrary(t))
    /\ block' = [k \in 1 .. N - pad |-> field_add(encoded'[k], t.noise[k])]
    /\ given' = t.erased

\* The message decoded, over the front of the block; the parity stays as it
\* came, and so does everything when the decode fails.
InPlace ==
    IF status' = -1 THEN block
    ELSE msg' \o SubSeq(block, Len(msg') + 1, Len(block))

\* decode_rs_char, step by step.
DecodeRsChar ==
    /\ DecodeStep
    /\ block' = IF phase' = "done" THEN InPlace ELSE block
    /\ UNCHANGED given

ShimRest ==
    /\ phase = "done"
    /\ calls = MaxCalls
    /\ UNCHANGED <<vars, block, given>>

ShimNext ==
    \/ /\ ThroughShim
       /\ \/ \E t \in ShimTransmissions[pad] : EncodeRsChar(t)
          \/ DecodeRsChar
          \/ ShimRest
       /\ UNCHANGED pad
    \/ /\ ~ThroughShim
       /\ Next
       /\ UNCHANGED <<pad, block, given>>

ShimSpec == ShimInit /\ [][ShimNext]_shimVars
------------------------------------------------------------------------------
\* A caller of libfec's interface finds the message in its block as far as the
\* code corrects, with erasures given as places of the full block, those of the
\* padding included; the parity is left as it was received, and a block that
\* cannot be decoded is untouched (fec_shim.c:79-87, rs_decode.c:461-464).
BlockDecodedInPlace ==
    (ThroughShim /\ phase = "done") =>
        LET sent == [k \in 1 .. Len(encoded) |-> field_add(encoded[k], call.noise[k])]
            unknown == {k \in 1 .. Len(encoded) :
                           /\ call.noise[k] # 0
                           /\ \A j \in 1 .. Len(given) : given[j] # pad + k - 1}
        IN  /\ SubSeq(block, msgLength + 1, Len(block)) = SubSeq(sent, msgLength + 1, Len(sent))
            /\ status = -1 => block = sent
            /\ 2 * Cardinality(unknown) + Len(given) <= MinDistance =>
                   SubSeq(block, 1, msgLength) = call.message
==============================================================================

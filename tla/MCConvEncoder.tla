---------------------------- MODULE MCConvEncoder ----------------------------
(***************************************************************************)
(* The codec's reader and writer with bytes of three bits: buffers of one  *)
(* and of three bytes, so that writes of up to seven bits begin and end at *)
(* every place of a byte and cross none, one or two bytes.  Between them   *)
(* encodes of one to three bytes with a code of correct.h: an encode of n  *)
(* bytes takes 6 * n + 14 bits, so that outputs of two bits cross the      *)
(* bytes everywhere and every last byte is partly filled.                  *)
(*                                                                         *)
(* ConvEncoderFlush.cfg takes bytes of eight bits, of which an encode of   *)
(* one byte leaves six in the last one.                                    *)
(***************************************************************************)
EXTENDS ConvEncoder

r12_6 == <<59, 49>>    \* conv_r12_6_polynomial

MCSizes == {1, 3}

MCMessages == {<<a>> : a \in {0, 3, 6}} \cup {<<1, 7>>, <<4, 0>>, <<5, 0, 3>>}

FlushMessages == {<<a>> : a \in {0, 1, 100, 255}}
==============================================================================

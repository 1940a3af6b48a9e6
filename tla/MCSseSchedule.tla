---------------------------- MODULE MCSseSchedule ----------------------------
(***************************************************************************)
(* Blocks of one to three bytes of codes of rate 1/2.                      *)
(***************************************************************************)
EXTENDS SseSchedule

MCBlocks == {<<o, 8 * n + o + 1>> : o \in {6, 7, 9}, n \in 1 .. 3}
=============================================================================

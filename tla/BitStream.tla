----------------------------- MODULE BitStream -----------------------------
(***************************************************************************)
(* A buffer that is written with the bit writer and then read back with    *)
(* the bit reader, as an encoder and a hard decoder pass one on.           *)
(*                                                                         *)
(* Single values, lists and reversed lists of bits are written in any      *)
(* order; when the last byte has been flushed the reader takes the buffer  *)
(* apart in reads of any lengths; then comes a new buffer.  The reader's   *)
(* definitions keep their names here, the writer's are those of Writer.    *)
(***************************************************************************)
EXTENDS BitReader

CONSTANTS Sizes, Fills, MaxChunk    \* see BitWriter

\* The reader fetches the first byte of a buffer before it is asked for a bit.
ASSUME StreamAssumption ==
    Sizes \subseteq Nat \ {0} /\ Fills \subseteq Byte /\ MaxChunk \in Nat

VARIABLES w, sent, open,      \* the writer
          reading             \* has the reader got the buffer?

writerVars == <<w, sent, open>>

Writer == INSTANCE BitWriter

\* The writer's buffer, as the reader sees it.
Contents(x) == [k \in 1 .. x.len |-> x.bytes[k - 1]]

StreamInit ==
    /\ Writer!Init
    /\ r = Reconfigured(Contents(w))
    /\ taken = 0
    /\ last = [n |-> 0, value |-> 0]
    /\ reading = FALSE

NewBuffer(size, byte) ==
    /\ Writer!Reconfigure(size, byte)
    /\ Reconfigure(Contents(w'))
    /\ reading' = FALSE

WriteBits ==
    /\ \/ \E n \in 1 .. Width : \E v \in 0 .. 2^n - 1 : Writer!Write(v, n)
       \/ \E l \in Writer!Chunks :
              \/ Writer!WriteBitlist(l)
              \/ Writer!WriteBitlistReversed(l)
              \/ Writer!Drop(l)
       \/ Writer!FlushByte
    /\ UNCHANGED <<vars, reading>>

\* What was written is passed on.
PassOn ==
    /\ ~open
    /\ ~reading
    /\ reading' = TRUE
    /\ Reconfigure(Contents(w))
    /\ UNCHANGED writerVars

ReadBack(n) ==
    /\ reading
    /\ Read(n)
    /\ UNCHANGED <<writerVars, reading>>

StreamNext ==
    \/ \E size \in Sizes, byte \in Fills : NewBuffer(size, byte)
    \/ WriteBits
    \/ PassOn
    \/ \E n \in 1 .. Width : ReadBack(n)

StreamSpec == StreamInit /\ [][StreamNext]_<<vars, writerVars, reading>>

-----------------------------------------------------------------------------
(* Properties.                                                             *)

\* Whatever the mix of writes and the lengths of the reads, the bits come back
\* in the order in which they were written (bit.c, bit_writer_* against
\* bit_reader_read), but for those of a last byte that was not full: see
\* FlushRoundsUp in BitWriter.
ReadsBackInOrder ==
    reading =>
        \A i \in 0 .. last.n - 1 :
            LET place == taken - last.n + i
            IN  place < Width * (Len(sent) \div Width) =>
                    (last.value \div 2^i) % 2 = sent[place + 1]

\* The accepted bits are in the buffer and the byte under way: see BitWriter.
StreamIsSent == Writer!StreamIsSent

\* Only the lists that do not fit are refused: see BitWriter.
RoomIsExact == Writer!RoomIsExact

\* A flush keeps the closed bytes and rounds the length up: see BitWriter.
FlushRoundsUp == Writer!FlushRoundsUp
=============================================================================

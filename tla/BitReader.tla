------------------------------ MODULE BitReader ------------------------------
(***************************************************************************)
(* bit_reader_t of src/src/convolutional/bit.c: takes a buffer apart into  *)
(* values of a few bits, the inverse of BitWriter's single-value writes.   *)
(* The record r holds the fields of the struct; the buffer is a sequence   *)
(* of bytes, so the code's byte_index k is position k + 1.                 *)
(*                                                                         *)
(* taken and last are not in the code: the number of bits read since the   *)
(* reader was reconfigured, and the arguments and result of the last read. *)
(***************************************************************************)
EXTENDS Bytes

CONSTANT Buffers    \* the byte sequences handed to bit_reader_reconfigure

ASSUME BuffersAssumption ==
    \A b \in Buffers : b # <<>> /\ b \in Seq(Byte)

VARIABLES r, taken, last
vars == <<r, taken, last>>

Reconfigured(bytes) ==
    [bytes |-> bytes, index |-> 0, current |-> bytes[1], currentLen |-> Width]

\* reverse_byte, and through it reverse_table.
reverse_byte(b) ==
    LET top[k \in 0 .. Width] == IF k = 0 THEN 0
                                 ELSE 2 * top[k - 1] + ((b \div 2^(k - 1)) % 2)
    IN  top[Width]

Fetched(x) ==
    [x EXCEPT !.index = @ + 1, !.current = x.bytes[x.index + 2],
              !.currentLen = Width]

\* The next n bits of the byte under way (copy_mask), and a mutant
\* that takes its lowest bits.
Field_LowEnd(x, n) == x.current % 2^n
Field(x, n) == (x.current \div 2^(x.currentLen - n)) % 2^n

\* The value bit_reader_read returns, and the reader it leaves.  When the
\* byte under way is too short, its bits are taken first and the rest comes
\* from the next byte.
ReadBits(x, n) ==
    LET crosses == x.currentLen < n
        head == IF crosses THEN Field(x, x.currentLen) ELSE 0
        more == IF crosses THEN n - x.currentLen ELSE n
        y == IF crosses THEN Fetched(x) ELSE x
        read == head * 2^more + Field(y, more)
    IN  [value |-> reverse_byte(read) \div 2^(Width - n),
         next |-> [y EXCEPT !.currentLen = @ - more]]
------------------------------------------------------------------------------
Init ==
    \E bytes \in Buffers :
        /\ r = Reconfigured(bytes)
        /\ taken = 0
        /\ last = [n |-> 0, value |-> 0]

Reconfigure(bytes) ==
    /\ r' = Reconfigured(bytes)
    /\ taken' = 0
    /\ last' = [n |-> 0, value |-> 0]

\* bit_reader_read checks no bound: the encoder reads 8 * msg_len bits and
\* the hard decoder num_encoded_bits, which the buffer holds.
Read(n) ==
    /\ taken + n <= Len(r.bytes) * Width
    /\ r' = ReadBits(r, n).next
    /\ last' = [n |-> n, value |-> ReadBits(r, n).value]
    /\ taken' = taken + n

Next ==
    \/ \E bytes \in Buffers : Reconfigure(bytes)
    \/ \E n \in 1 .. Width : Read(n)

Spec == Init /\ [][Next]_vars
==============================================================================

------------------------------ MODULE BitWriter ------------------------------
(***************************************************************************)
(* bit_writer_t of src/src/convolutional/bit.c: packs bits, first bit      *)
(* highest, into the bytes of a buffer the caller owns.                    *)
(*                                                                         *)
(* The record w holds the fields of the struct.  current carries the bits  *)
(* of the unfinished byte one place up, because every store of a bit is    *)
(* followed by a shift.  The buffer is a function on its byte indices; the *)
(* bytes the writer has not reached keep what the caller left there.       *)
(*                                                                         *)
(* sent and open are not in the code: sent is the sequence of bits         *)
(* the writer accepted since it was reconfigured, open says that the last  *)
(* byte was not flushed yet.  cv_encode.c reconfigures, writes and flushes *)
(* once; cv_decode.c reconfigures and writes lists, and never flushes.     *)
(***************************************************************************)
EXTENDS Bytes, SequencesExt

CONSTANTS
    Sizes,      \* lengths of the buffers handed to bit_writer_reconfigure
    Fills,      \* what the bytes of those buffers hold beforehand
    MaxChunk    \* longest write of a run

VARIABLES w, sent, open
vars == <<w, sent, open>>

OrBit(b, bit) == IF b % 2 = 0 THEN b + bit ELSE b
Push(b, bits) ==
    LET acc[k \in 0 .. Len(bits)] == IF k = 0 THEN b ELSE 2 * OrBit(acc[k - 1], bits[k])
    IN  acc[Len(bits)]
Truncated(b) == b % 2^Width
MinOf(a, b) == IF a < b THEN a ELSE b

\* The n bits of v in the order bit_writer_write takes them: lowest first.
LowFirst(v, n) == [i \in 1 .. n |-> (v \div 2^(i - 1)) % 2]

Reconfigured(size, byte) ==
    [bytes |-> [i \in 0 .. size - 1 |-> byte],
     len |-> size, index |-> 0, current |-> 0, currentLen |-> 0]

Put1(x, bit) ==
    LET byte == OrBit(x.current, bit)
    IN  IF x.currentLen + 1 = Width
        THEN [x EXCEPT !.bytes[x.index] = byte, !.index = @ + 1,
                       !.current = 0, !.currentLen = 0]
        ELSE [x EXCEPT !.current = Truncated(2 * byte), !.currentLen = @ + 1]

\* One bit after the other.
PutAll(x, bits) ==
    LET after[k \in 0 .. Len(bits)] == IF k = 0 THEN x ELSE Put1(after[k - 1], bits[k])
    IN  after[Len(bits)]

\* The whole bytes of a list go straight to the buffer, the rest becomes the
\* current byte.
PutWhole(x, l) ==
    LET full == Len(l) \div Width
        byteOf(i) == Push(0, SubSeq(l, i * Width + 1, (i + 1) * Width)) \div 2
    IN  [x EXCEPT
           !.bytes = [k \in DOMAIN x.bytes |->
                        IF k \in x.index .. (x.index + full - 1)
                        THEN byteOf(k - x.index) ELSE x.bytes[k]],
           !.index = @ + full,
           !.current = Truncated(Push(0, SubSeq(l, full * Width + 1, Len(l)))),
           !.currentLen = Len(l) % Width]

\* Mutant: the byte under way is never closed, only overwritten.
PutList_Restart(x, l) == PutWhole(x, l)

\* A list first closes the byte under way, when it is long enough to.
PutList(x, l) ==
    LET close == MinOf(Width - x.currentLen, Len(l))
        b == Push(x.current, SubSeq(l, 1, close))
    IN  IF x.currentLen + close = Width
        THEN PutWhole([x EXCEPT !.bytes[x.index] = Truncated(b \div 2), !.index = @ + 1],
                      SubSeq(l, close + 1, Len(l)))
        ELSE [x EXCEPT !.current = Truncated(b), !.currentLen = @ + close]

PutReversed(x, l) ==
    IF x.currentLen = 0 THEN PutWhole(x, Reverse(l)) ELSE PutList(x, Reverse(l))

\* Mutant: the bits of the byte under way are not counted.
Fits_IgnoresCurrent(x, n) == (n + Width - 1) \div Width <= x.len - x.index

\* The room check of both list writers: bytes needed against bytes left.
Fits(x, n) == (n + x.currentLen + Width - 1) \div Width <= x.len - x.index

\* Mutant: the flushed byte is stored but not counted.
Flushed_NotCounted(x) ==
    IF x.currentLen = 0 THEN x
    ELSE [x EXCEPT !.bytes[x.index] = x.current, !.currentLen = 0]

\* The shift is by Width - currentLen although current is already one up.
Flushed(x) ==
    IF x.currentLen = 0 THEN x
    ELSE LET byte == Truncated(x.current * 2^(Width - x.currentLen))
         IN  [x EXCEPT !.current = byte, !.bytes[x.index] = byte,
                       !.index = @ + 1, !.currentLen = 0]

bit_writer_length(x) == x.index
------------------------------------------------------------------------------
\* bit_writer_create with a buffer reconfigures the writer; without one the
\* writer is reconfigured before its first use.
Init ==
    \E size \in Sizes, byte \in Fills :
        /\ w = Reconfigured(size, byte)
        /\ sent = <<>>
        /\ open = TRUE

Reconfigure(size, byte) ==
    /\ w' = Reconfigured(size, byte)
    /\ sent' = <<>>
    /\ open' = TRUE

\* bit_writer_write checks nothing: the encoder sizes its buffer for it.
Write(v, n) ==
    /\ open
    /\ w.index * Width + w.currentLen + n <= w.len * Width
    /\ w' = PutAll(w, LowFirst(v, n))
    /\ sent' = sent \o LowFirst(v, n)
    /\ UNCHANGED open

WriteBitlist(l) ==
    /\ open
    /\ Fits(w, Len(l))
    /\ w' = PutList(w, l)
    /\ sent' = sent \o l
    /\ UNCHANGED open

WriteBitlistReversed(l) ==
    /\ open
    /\ Fits(w, Len(l))
    /\ w' = PutReversed(w, l)
    /\ sent' = sent \o Reverse(l)
    /\ UNCHANGED open

\* A list that does not fit is dropped whole, and nobody is told.
Drop(l) ==
    /\ open
    /\ ~Fits(w, Len(l))
    /\ UNCHANGED vars

FlushByte ==
    /\ open
    /\ w' = Flushed(w)
    /\ open' = FALSE
    /\ UNCHANGED sent

Chunks == UNION {[1 .. n -> Bit] : n \in 1 .. MaxChunk}

Next ==
    \/ \E size \in Sizes, byte \in Fills : Reconfigure(size, byte)
    \/ \E n \in 1 .. Width : \E v \in 0 .. 2^n - 1 : Write(v, n)
    \/ \E l \in Chunks : WriteBitlist(l)
    \/ \E l \in Chunks : WriteBitlistReversed(l)
    \/ \E l \in Chunks : Drop(l)
    \/ FlushByte

Spec == Init /\ [][Next]_vars
------------------------------------------------------------------------------
\* The bits of the first n bytes of the buffer.
Stored(x, n) ==
    [k \in 1 .. n * Width |->
        BitsOf(x.bytes[(k - 1) \div Width], Width)[((k - 1) % Width) + 1]]

\* Everything the writer holds: the closed bytes, then the byte under way.
Stream(x) == Stored(x, x.index) \o BitsOf(x.current \div 2, x.currentLen)

\* Whatever mix of single values and lists was written, across whatever byte
\* boundaries, the buffer and the byte under way hold the accepted bits in
\* their order, each once (bit_writer_write, bit_writer_write_bitlist and
\* bit_writer_write_bitlist_reversed share one representation).
StreamIsSent == open => Stream(w) = sent

\* The room check in bytes of the two list writers refuses exactly the lists
\* whose bits do not fit: the decoder's last bytes are not dropped while there
\* is room, and nothing is written past the end.
RoomIsExact ==
    open => \A n \in 1 .. MaxChunk :
                Fits(w, n) <=> Len(sent) + n <= w.len * Width

\* bit_writer_flush_byte leaves the closed bytes alone and turns a byte under
\* way into one more byte: bit_writer_length is the length in bytes, rounded up.
FlushRoundsUp ==
    ~open =>
        /\ bit_writer_length(w) = (Len(sent) + Width - 1) \div Width
        /\ LET whole == Len(sent) \div Width
           IN  Stored(w, whole) = SubSeq(sent, 1, whole * Width)
==============================================================================

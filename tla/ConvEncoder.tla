----------------------------- MODULE ConvEncoder -----------------------------
(***************************************************************************)
(* correct_convolutional_encode (cv_encode.c): takes the message apart     *)
(* with the bit reader, shifts one bit a round into the register, and      *)
(* writes the register's row of the table with the bit writer; order + 1   *)
(* rounds of zeros empty the register, and the last byte is flushed.       *)
(*                                                                         *)
(* The reader and the writer are those of the codec: they outlive a call,  *)
(* and between two encodes they serve whatever else BitStream lets them    *)
(* do, as they do in correct_convolutional_decode.                         *)
(***************************************************************************)
EXTENDS Trellis, BitStream

VARIABLES register,    \* shiftregister
          phase,       \* where in the function control is
          i            \* the loop counter

encoderVars == <<vars, writerVars, reading, register, phase, i>>

Ceil(n) == (n + Width - 1) \div Width

\* Mutant: the length leaves out the last zero.
encode_len_ShortTail(n) == Rate * (Width * n + Order)

\* correct_convolutional_encode_len, in bits, for n bytes.
encode_len(n) == Rate * (Width * n + Order + 1)

\* A row of the table as fill_table packs it: first bit lowest.
Packed(output) == Total([j \in 1 .. Rate |-> output[j] * 2^(j - 1)])

\* Mutant: the mask of the register is one bit too narrow.
Shifted_ShortMask(x, bit) == (2 * x + bit) % 2^(Order - 1)

Shifted(x, bit) == (2 * x + bit) % 2^Order

------------------------------------------------------------------------------
EncoderInit ==
    /\ StreamInit
    /\ register = 0
    /\ phase = "idle"
    /\ i = 0

\* The buffer is exactly as long as encode_len asks for; `byte` is what the
\* caller left in it.
Start(message, byte) ==
    /\ phase \in {"idle", "done"}
    /\ phase' = "message"
    /\ i' = 0
    /\ register' = 0
    /\ Writer!Reconfigure(Ceil(encode_len(Len(message))), byte)
    /\ Reconfigure(message)
    /\ reading' = FALSE

MessageRound ==
    /\ phase = "message"
    /\ i < Width * Len(r.bytes)
    /\ Read(1)
    /\ register' = Shifted(register, last'.value)
    /\ Writer!Write(Packed(Table[register']), Rate)
    /\ i' = i + 1
    /\ UNCHANGED <<reading, phase>>

MessageEnd ==
    /\ phase = "message"
    /\ ~ (i < Width * Len(r.bytes))
    /\ phase' = "zeros"
    /\ i' = 0
    /\ UNCHANGED <<vars, writerVars, reading, register>>

\* Mutant: enough zeros to empty a state, but not the whole register.
ZeroRounds_StateOnly == Order - 1

ZeroRounds == Order + 1

ZeroRound ==
    /\ phase = "zeros"
    /\ i < ZeroRounds
    /\ register' = Shifted(register, 0)
    /\ Writer!Write(Packed(Table[register']), Rate)
    /\ i' = i + 1
    /\ UNCHANGED <<vars, reading, phase>>

Finish ==
    /\ phase = "zeros"
    /\ ~ (i < ZeroRounds)
    /\ Writer!FlushByte
    /\ phase' = "done"
    /\ UNCHANGED <<vars, reading, register, i>>

\* Any other use of the codec's reader and writer, between two encodes.
OtherUse ==
    /\ phase \in {"idle", "done"}
    /\ phase' = "idle"
    /\ StreamNext
    /\ UNCHANGED <<register, i>>

EncoderNext ==
    \/ \E m \in Buffers, byte \in Fills : Start(m, byte)
    \/ MessageRound \/ MessageEnd
    \/ ZeroRound \/ Finish
    \/ OtherUse

EncoderSpec == EncoderInit /\ [][EncoderNext]_encoderVars
------------------------------------------------------------------------------
Flat(outputs) ==
    [k \in 1 .. Rate * Len(outputs) |-> outputs[((k - 1) \div Rate) + 1][((k - 1) % Rate) + 1]]

\* The message's bits in the order they are sent, highest of a byte first.
MessageBits(m) == [k \in 1 .. Width * Len(m) |-> BitAt(m, k - 1)]

\* A loop goes round once more.
RoundDue ==
    \/ phase = "message" /\ i < Width * Len(r.bytes)
    \/ phase = "zeros" /\ i < ZeroRounds

\* cv_encode.c:33-57 with bit.c: the writer checks no bound, and the loops
\* write exactly the encode_len bits the buffer was sized for, so each round
\* of an encode finds room for its Rate bits, and the last one leaves none.
RoomForEveryRound ==
    LET rounds == IF phase = "message" THEN i ELSE Width * Len(r.bytes) + i
    IN  /\ phase \in {"message", "zeros", "done"} => Len(sent) = Rate * rounds
        /\ RoundDue => w.index * Width + w.currentLen + Rate <= w.len * Width
        /\ phase = "done" => Len(sent) = encode_len(Len(r.bytes))

\* What the writer accepted in an encode is the codeword of the message, each
\* message bit first to last, although reader, table, packing and writer each
\* turn bits around, and the whole bytes of the buffer hold it (cv_encode.c:36-57).
\* A last byte that is not full is the flush's: see LastByteZeroFilled.
WritesCodeword ==
    phase = "done" =>
        LET bits == Flat(Encode(MessageBits(r.bytes)))
            whole == (Len(bits) \div Width) * Width
        IN  /\ sent = bits
            /\ SubSeq(Writer!Stored(w, w.index), 1, whole) = SubSeq(bits, 1, whole)

\* cv_encode.c:59, "0-fill any remaining bits on our final byte": the flush
\* adds zeros to the bits of the last byte and changes none of them.
LastByteZeroFilled ==
    phase = "done" =>
        LET stored == Writer!Stored(w, w.index)
        IN  stored = sent \o Zeros(Len(stored) - Len(sent))

\* The register is empty at the end, which the decoder's flush relies on when
\* it takes the last survivor path from state 0 (history_buffer_flush).
EndsInStateZero == phase = "done" => register = 0

==============================================================================

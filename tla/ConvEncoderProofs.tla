-------------------------- MODULE ConvEncoderProofs --------------------------
(***************************************************************************)
(* The encoder for every code, every width of a byte and messages of every *)
(* length.  Its two loops write exactly the encode_len bits that its       *)
(* caller's buffer was sized for, although the writer checks no bound and  *)
(* the three formulas stand in two functions.  What they write is the      *)
(* codeword: reader, register, table and writer each turn bits around, and *)
(* the order of the codeword comes out.  And the register ends empty.      *)
(***************************************************************************)
EXTENDS ConvEncoder, Recursion, TLAPS

\* The rounds of an encode so far.
Rounds == IF phase = "message" THEN i ELSE Width * Len(r.bytes) + i

InEncode == phase \in {"message", "zeros", "done"}

\* A buffer of whole bytes, and the bits that are written: one output a round.
IInv ==
    /\ phase \in {"idle", "message", "zeros", "done"}
    /\ i \in Nat
    /\ InEncode =>
           /\ "bytes" \in DOMAIN r
           /\ r.bytes \in Buffers
           /\ Len(r.bytes) \in Nat
           /\ \E S : sent \in Seq(S)
           /\ Len(sent) = Rate * Rounds
    /\ phase = "message" => i <= Width * Len(r.bytes)
    /\ phase = "zeros" => i <= ZeroRounds
    /\ phase = "done" => i = ZeroRounds

-----------------------------------------------------------------------------
\* A byte has bits, and every message has bytes.
LEMMA EncoderFacts ==
    /\ Width \in Nat \ {0}
    /\ \A m \in Buffers : m \in Seq(0 .. 2^Width - 1) /\ m # <<>>
  BY WidthAssumption, BuffersAssumption DEF Byte

\* What the assumptions say of the numbers of the code.
LEMMA ConstantFacts ==
    /\ Rate \in Nat /\ Width \in Nat /\ Order \in Nat
    /\ \A m \in Buffers : Len(m) \in Nat
  BY TrellisAssumption, EncoderFacts

\* One more round is Rate more bits.
LEMMA OneMore ==
    ASSUME NEW a \in Nat, NEW n \in Nat
    PROVE  /\ a * n \in Nat
           /\ a * (n + 1) = a * n + a
  OBVIOUS

\* More rounds are no fewer bits.
LEMMA NoFewer ==
    ASSUME NEW a \in Nat, NEW m \in Nat, NEW n \in Nat, m <= n
    PROVE  a * m <= a * n
  OBVIOUS

\* Sequences over different sets, one behind the other.
LEMMA Joined ==
    ASSUME NEW S, NEW T, NEW s \in Seq(S), NEW t \in Seq(T)
    PROVE  /\ s \o t \in Seq(S \cup T)
           /\ Len(s \o t) = Len(s) + Len(t)
<1>1. s \in Seq(S \cup T) /\ t \in Seq(S \cup T)
  OBVIOUS
<1> QED
  BY <1>1

\* The values of the second sequence come behind those of the first.
LEMMA JoinedAt ==
    ASSUME NEW S, NEW s \in Seq(S), NEW t \in Seq(S), NEW j \in 1 .. Len(t)
    PROVE  (s \o t)[Len(s) + j] = t[j]
<1>1. /\ Len(s) \in Nat /\ Len(t) \in Nat
      /\ Len(s) + j \in 1 .. Len(s) + Len(t) /\ ~ (Len(s) + j <= Len(s))
      /\ (Len(s) + j) - Len(s) = j
  OBVIOUS
<1> QED
  BY <1>1

\* A write of a round adds Rate bits (bit.c:31-51).
LEMMA WriteAdds ==
    ASSUME NEW S, sent \in Seq(S), NEW v, Writer!Write(v, Rate)
    PROVE  /\ \E T : sent' \in Seq(T)
           /\ Len(sent') = Len(sent) + Rate
<1> DEFINE bits == Writer!LowFirst(v, Rate)
           T == {bits[k] : k \in 1 .. Rate}
<1>1. sent' = sent \o bits
  BY DEF Writer!Write
<1>2. bits \in [1 .. Rate -> T]
  BY DEF Writer!LowFirst
<1>3. bits \in Seq(T) /\ Len(bits) = Rate
  <2> HIDE DEF T, bits
  <2> QED BY <1>2, ConstantFacts
<1> HIDE DEF bits, T
<1>4. /\ sent \o bits \in Seq(S \cup T)
      /\ Len(sent \o bits) = Len(sent) + Len(bits)
  <2>1. sent \in Seq(S)
    OBVIOUS
  <2> QED
    BY <1>3, <2>1, Joined
<1>5. sent' \in Seq(S \cup T) /\ Len(sent') = Len(sent) + Rate
  BY <1>1, <1>3, <1>4, Zenon
<1> QED
  BY <1>5

\* Reading a bit leaves the message alone (bit.c:279-297).
LEMMA ReadKeeps ==
    ASSUME Read(1), "bytes" \in DOMAIN r
    PROVE  r'.bytes = r.bytes /\ "bytes" \in DOMAIN r'
<1> DEFINE crosses == r.currentLen < 1
           more == IF crosses THEN 1 - r.currentLen ELSE 1
           y == IF crosses THEN Fetched(r) ELSE r
<1>1. r' = [y EXCEPT !.currentLen = @ - more]
  BY DEF Read, ReadBits
<1>2. "bytes" \in DOMAIN y /\ y.bytes = r.bytes
  BY DEF Fetched
<1> HIDE DEF y, more
<1> QED
  BY <1>1, <1>2

\* Every step that stays in an encode writes one output, or none.
LEMMA StartKeeps ==
    ASSUME NEW m \in Buffers, NEW byte \in Fills, Start(m, byte)
    PROVE  IInv'
<1>1. r'.bytes = m /\ "bytes" \in DOMAIN r'
  BY DEF Start, Reconfigure, Reconfigured
<1>2. sent' = <<>> /\ i' = 0 /\ phase' = "message"
  BY DEF Start, Writer!Reconfigure
<1>3. Len(m) \in Nat /\ Width * Len(m) \in Nat
  BY ConstantFacts, OneMore
<1>4. sent' \in Seq({}) /\ Len(sent') = 0
  BY <1>2
<1>5. Rate * 0 = 0
  BY ConstantFacts
<1> QED
  BY <1>1, <1>2, <1>3, <1>4, <1>5 DEF IInv, InEncode, Rounds

\* The outputs of a round.
LEMMA RoundAdds ==
    ASSUME IInv, InEncode, NEW v, Writer!Write(v, Rate)
    PROVE  /\ \E T : sent' \in Seq(T)
           /\ Len(sent') = Rate * (Rounds + 1)
<1>1. PICK S : sent \in Seq(S)
  BY DEF IInv
<1>2. Rounds \in Nat
  BY ConstantFacts, OneMore DEF IInv, Rounds
<1>3. Len(sent') = Rate * Rounds + Rate
  BY <1>1, WriteAdds DEF IInv
<1>4. Rate * (Rounds + 1) = Rate * Rounds + Rate
  BY <1>2, ConstantFacts, OneMore
<1> QED
  BY <1>1, <1>3, <1>4, WriteAdds

\* A round over a bit of the message keeps the count of bits.
LEMMA MessageRoundKeeps ==
    ASSUME IInv, MessageRound
    PROVE  IInv'
<1>1. InEncode /\ Rounds = i
  BY DEF MessageRound, InEncode, Rounds
<1>2. r'.bytes = r.bytes /\ "bytes" \in DOMAIN r'
  BY <1>1, ReadKeeps DEF IInv, MessageRound
<1>3. /\ \E T : sent' \in Seq(T)
      /\ Len(sent') = Rate * (i + 1)
  BY <1>1, RoundAdds DEF MessageRound
<1>4. i' = i + 1 /\ phase' = "message" /\ i \in Nat
      /\ i < Width * Len(r.bytes)
  BY DEF MessageRound, IInv
<1>5. Width * Len(r.bytes) \in Nat
  BY <1>1, ConstantFacts, OneMore DEF IInv
<1>6. i + 1 <= Width * Len(r.bytes)
  BY <1>4, <1>5
<1>7. r'.bytes \in Buffers /\ Len(r'.bytes) \in Nat
  BY <1>1, <1>2 DEF IInv
<1> QED
  BY <1>2, <1>3, <1>4, <1>6, <1>7 DEF IInv, InEncode, Rounds

\* The end of the first loop keeps it.
LEMMA MessageEndKeeps ==
    ASSUME IInv, MessageEnd
    PROVE  IInv'
<1>1. /\ r' = r /\ sent' = sent
      /\ i' = 0 /\ phase' = "zeros" /\ phase = "message"
      /\ ~ (i < Width * Len(r.bytes))
  BY DEF MessageEnd, vars, writerVars
<1>2. Width * Len(r.bytes) \in Nat /\ i \in Nat
      /\ i <= Width * Len(r.bytes)
  BY <1>1, ConstantFacts, OneMore DEF IInv, InEncode
<1>3. i = Width * Len(r.bytes) /\ i = Width * Len(r.bytes) + 0
  BY <1>1, <1>2
<1>4. 0 <= ZeroRounds
  BY ConstantFacts DEF ZeroRounds
<1> QED
  BY <1>1, <1>3, <1>4 DEF IInv, InEncode, Rounds

\* A zero round keeps it.
LEMMA ZeroRoundKeeps ==
    ASSUME IInv, ZeroRound
    PROVE  IInv'
<1>1. InEncode /\ Rounds = Width * Len(r.bytes) + i
  BY DEF ZeroRound, InEncode, Rounds
<1>2. /\ \E T : sent' \in Seq(T)
      /\ Len(sent') = Rate * (Rounds + 1)
  BY <1>1, RoundAdds DEF ZeroRound
<1>3. /\ i' = i + 1 /\ phase' = "zeros" /\ r' = r
      /\ i \in Nat /\ i < ZeroRounds
  BY DEF ZeroRound, IInv, vars
<1>4. Width * Len(r.bytes) \in Nat /\ ZeroRounds \in Nat
  BY <1>1, ConstantFacts, OneMore DEF IInv, ZeroRounds
<1>5. /\ Rounds + 1 = Width * Len(r.bytes) + (i + 1)
      /\ i + 1 <= ZeroRounds
  BY <1>1, <1>3, <1>4
<1>6. Len(sent') = Rate * (Width * Len(r.bytes) + (i + 1))
  BY <1>2, <1>5
<1> QED
  BY <1>1, <1>2, <1>3, <1>5, <1>6 DEF IInv, InEncode, Rounds, ZeroRounds

\* The flush and the return keep it.
LEMMA FinishKeeps ==
    ASSUME IInv, Finish
    PROVE  IInv'
<1>1. /\ sent' = sent /\ r' = r /\ i' = i
      /\ phase' = "done" /\ phase = "zeros" /\ ~ (i < ZeroRounds)
  BY DEF Finish, Writer!FlushByte, vars
<1>2. i = ZeroRounds
  BY <1>1, ConstantFacts DEF IInv, ZeroRounds
<1> QED
  BY <1>1, <1>2 DEF IInv, InEncode, Rounds, ZeroRounds

-----------------------------------------------------------------------------
\* The outputs written are those of the rounds done, and no loop runs past its
\* count: the message's bits, then order + 1 zeros (cv_encode.c:33-57).
THEOREM RoundsAreWritten == EncoderSpec => []IInv
<1>1. EncoderInit => IInv
  BY DEF EncoderInit, IInv, InEncode
<1>2. IInv /\ [EncoderNext]_encoderVars => IInv'
  <2> SUFFICES ASSUME IInv, [EncoderNext]_encoderVars PROVE IInv'
    OBVIOUS
  <2>1. CASE \E m \in Buffers, byte \in Fills : Start(m, byte)
    BY <2>1, StartKeeps
  <2>2. CASE MessageRound
    BY <2>2, MessageRoundKeeps
  <2>3. CASE MessageEnd
    BY <2>3, MessageEndKeeps
  <2>4. CASE ZeroRound
    BY <2>4, ZeroRoundKeeps
  <2>5. CASE Finish
    BY <2>5, FinishKeeps
  <2>6. CASE OtherUse
    BY <2>6 DEF OtherUse, IInv, InEncode
  <2>7. CASE UNCHANGED encoderVars
    BY <2>7 DEF IInv, InEncode, Rounds, ZeroRounds, encoderVars, vars, writerVars
  <2> QED
    BY <2>1, <2>2, <2>3, <2>4, <2>5, <2>6, <2>7 DEF EncoderNext
<1> QED
  BY <1>1, <1>2, PTL DEF EncoderSpec

\* encode_len is Rate bits for every round there will be.
LEMMA LengthOfRounds ==
    ASSUME NEW n \in Nat
    PROVE  encode_len(n) = Rate * (Width * n + ZeroRounds)
<1>1. Width * n \in Nat
  BY ConstantFacts, OneMore
<1>2. (Width * n + Order) + 1 = Width * n + ZeroRounds
  BY <1>1, ConstantFacts DEF ZeroRounds
<1> QED
  BY <1>2 DEF encode_len

\* The bits are counted by the rounds, and come to encode_len.
LEMMA BitsCounted ==
    ASSUME IInv, InEncode
    PROVE  /\ Len(sent) = Rate * Rounds
           /\ RoundDue => Len(sent) + Rate <= encode_len(Len(r.bytes))
           /\ phase = "done" => Len(sent) = encode_len(Len(r.bytes))
<1> DEFINE all == Width * Len(r.bytes) + ZeroRounds
<1>1. Width * Len(r.bytes) \in Nat /\ ZeroRounds \in Nat /\ i \in Nat
  BY ConstantFacts, OneMore DEF IInv, ZeroRounds
<1>2. Len(sent) = Rate * Rounds
  BY DEF IInv
<1>3. /\ Rounds \in Nat /\ all \in Nat
      /\ RoundDue => Rounds + 1 <= all
      /\ phase = "done" => Rounds = all
  BY <1>1 DEF IInv, InEncode, Rounds, RoundDue
<1>4. encode_len(Len(r.bytes)) = Rate * all
  BY LengthOfRounds DEF IInv
<1> HIDE DEF all
<1>5. RoundDue => Rate * (Rounds + 1) <= Rate * all
  BY <1>3, ConstantFacts, NoFewer
<1>6. Rate * (Rounds + 1) = Rate * Rounds + Rate
  BY <1>3, ConstantFacts, OneMore
<1> QED BY <1>2, <1>3, <1>4, <1>5, <1>6

-----------------------------------------------------------------------------
(* Bits and sums of bits.                                                  *)

\* The sums of the model.
LEMMA TotalOfBits ==
    ASSUME NEW n \in Nat, NEW d, AreBits(d, n), NEW f \in [1 .. n -> Nat],
           Weighs(f, d, n)
    PROVE  HasBits(Total(f), d, n)
<1>1. Total(f) = SumTo(f)
  BY DEF Total, SumTo
<1> QED BY <1>1, SumOfBits

\* lookup.c, fill_table: the row of the table holds its output, first bit lowest.
LEMMA PackedBits ==
    ASSUME NEW o \in Outputs
    PROVE  HasBits(Packed(o), o, Rate)
<1> DEFINE f == [j \in 1 .. Rate |-> o[j] * 2^(j - 1)]
<1>1. AreBits(o, Rate)
  BY DEF AreBits, Outputs
<1>2. f \in [1 .. Rate -> Nat]
  <2>1. ASSUME NEW j \in 1 .. Rate PROVE o[j] * 2^(j - 1) \in Nat
    <3>1. j - 1 \in Nat /\ o[j] \in {0, 1}
      BY ConstantFacts DEF Outputs
    <3> QED BY <3>1, WeightIsNat
  <2> QED BY <2>1
<1>3. Weighs(f, o, Rate)
  BY DEF Weighs
<1>4. Packed(o) = Total(f)
  BY DEF Packed
<1> HIDE DEF f
<1>5. HasBits(Total(f), o, Rate)
  BY <1>1, <1>2, <1>3, ConstantFacts, TotalOfBits
<1> QED BY <1>4, <1>5

\* cv_encode.c:43, 52 with bit.c:31-36: the writer takes the row's bits in the
\* order of the output.
LEMMA RowInOrder ==
    ASSUME NEW o \in Outputs
    PROVE  Writer!LowFirst(Packed(o), Rate) = o
<1>1. \A k \in 0 .. Rate - 1 : Digit(Packed(o), k) = o[k + 1]
  BY PackedBits DEF HasBits
<1>2. ASSUME NEW j \in 1 .. Rate PROVE (Packed(o) \div 2^(j - 1)) % 2 = o[j]
  <2>1. j - 1 \in 0 .. Rate - 1 /\ (j - 1) + 1 = j
    BY ConstantFacts
  <2>2. Digit(Packed(o), j - 1) = o[(j - 1) + 1]
    BY <1>1, <2>1
  <2> QED BY <2>1, <2>2 DEF Digit
<1>3. o = [j \in 1 .. Rate |-> o[j]]
  BY DEF Outputs
<1> QED BY <1>2, <1>3 DEF Writer!LowFirst

-----------------------------------------------------------------------------
(* The register.                                                           *)

\* The bits of a register.
LEMMA RegisterBits ==
    ASSUME NEW k \in Nat, NEW bits, AreBits(bits, k)
    PROVE  /\ RegisterAt(bits, k) \in Registers
           /\ \A j \in 0 .. Order - 1 :
                  /\ Digit(RegisterAt(bits, k), j) = RecentBit(bits, k, j)
                  /\ RecentBit(bits, k, j) \in {0, 1}
<1>1. RegisterAt(bits, k) = ShiftRegister(bits, k, Order)
  BY DEF RegisterAt, ShiftRegister, Total, SumTo
<1>2. Order \in Nat
  BY ConstantFacts
<1>3. /\ ShiftRegister(bits, k, Order) \in 0 .. 2^Order - 1
      /\ \A j \in 0 .. Order - 1 :
             /\ Digit(ShiftRegister(bits, k, Order), j) = RecentBit(bits, k, j)
             /\ RecentBit(bits, k, j) \in {0, 1}
  BY <1>2, ShiftRegisterBits
<1> QED BY <1>1, <1>3 DEF Registers

\* cv_encode.c:41-42, 50-51: shifting a bit in gives the register after one more.
LEMMA ShiftedIsNext ==
    ASSUME NEW k \in Nat, NEW bits, AreBits(bits, k + 1)
    PROVE  Shifted(RegisterAt(bits, k), bits[k + 1]) = RegisterAt(bits, k + 1)
<1>1. \A j : RegisterAt(bits, j) = ShiftRegister(bits, j, Order)
  BY DEF RegisterAt, ShiftRegister, Total, SumTo
<1> QED BY <1>1, TrellisAssumption, ShiftRegisterNext DEF Shifted

\* A register into which only zeros went for Order rounds is 0.
LEMMA RegisterEmptied ==
    ASSUME NEW k \in Nat, NEW bits, AreBits(bits, k),
           \A j \in 0 .. Order - 1 : RecentBit(bits, k, j) = 0
    PROVE  RegisterAt(bits, k) = 0
<1> DEFINE z == RegisterAt(bits, k)
<1>0. Order \in Nat /\ 2^Order \in Nat \ {0}
  BY TrellisAssumption, PowerStep
<1>1. z \in 0 .. 2^Order - 1 /\ \A j \in 0 .. Order - 1 : Digit(z, j) = 0
  BY RegisterBits DEF Registers
<1>2. 0 \in 0 .. 2^0 - 1 /\ 0 \in 0 .. 2^Order - 1
  BY <1>0, PowerZero
<1>3. \A j \in 0 .. Order - 1 : Digit(0, j) = 0
  <2> SUFFICES ASSUME NEW j \in 0 .. Order - 1 PROVE Digit(0, j) = 0
    OBVIOUS
  <2>1. j \in Nat /\ 0 <= j
    BY <1>0
  <2> QED BY <2>1, <1>2, BitAbove
<1> HIDE DEF z
<1>4. z = 0
  BY <1>0, <1>1, <1>2, <1>3, BitsDetermine
<1> QED BY <1>4 DEF z

-----------------------------------------------------------------------------
(* The reader.                                                             *)

\* The place n of a sequence of bytes of q bits is in byte a, with l bits left.
Place(n, q, a, l) == n = q * a + (q - l)

\* The reader x has given n bits of the message m and is in the byte of the
\* next one, or just past the byte of the last.
ReaderAt(x, m, n) ==
    /\ DOMAIN x = {"bytes", "index", "current", "currentLen"}
    /\ x.bytes = m
    /\ x.index \in Nat /\ x.currentLen \in 0 .. Width
    /\ x.current = m[x.index + 1]
    /\ Place(n, Width, x.index, x.currentLen)

\* A place's byte and bit are its quotient and its remainder.
LEMMA PlaceOf ==
    ASSUME NEW q \in Nat \ {0}, NEW a \in Nat, NEW l \in 1 .. q, NEW n \in Nat,
           Place(n, q, a, l)
    PROVE  /\ n \div q = a /\ q - 1 - (n % q) = l - 1
           /\ l - 1 \in 0 .. q /\ l - 1 \in Nat
           /\ Place(n + 1, q, a, l - 1)
           /\ \A k \in Nat : n < q * k => a < k
<1> DEFINE c == q - l
           p == q * a
<1>1. c \in 0 .. q - 1 /\ n = p + c /\ p \in Nat
  BY DEF Place
<1>2. n \div q = a /\ n % q = c
  <2>1. n = q * a + c
    BY DEF Place
  <2>2. c \in 0 .. q - 1 /\ n \in Int /\ a \in Int
    BY <1>1
  <2> HIDE DEF c, p
  <2> QED BY <2>1, <2>2, DivisionUnique
<1>3. q - 1 - c = l - 1 /\ l - 1 \in 0 .. q /\ l - 1 \in Nat
  OBVIOUS
<1>4. n + 1 = p + (q - (l - 1))
  <2> HIDE DEF p
  <2> QED BY <1>1
<1>5. ASSUME NEW k \in Nat, n < q * k PROVE a < k
  <2> SUFFICES ASSUME k <= a PROVE FALSE
    OBVIOUS
  <2>1. q * k <= p /\ q * k \in Nat
    BY NoFewer
  <2> HIDE DEF p, c
  <2> QED BY <2>1, <1>1, <1>5
<1> QED BY <1>2, <1>3, <1>4, <1>5 DEF Place

\* bit.c:230-242, reverse_byte of a single bit: it becomes the highest.
LEMMA BitReversed ==
    ASSUME NEW b \in {0, 1}
    PROVE  reverse_byte(b) \div 2^(Width - 1) = b
<1> DEFINE Is(t) == t = [k \in 0 .. Width |-> IF k = 0 THEN 0
                              ELSE 2 * t[k - 1] + ((b \div 2^(k - 1)) % 2)]
           good == [k \in 0 .. Width |-> IF k = 0 THEN 0 ELSE b * 2^(k - 1)]
           W == CHOOSE t : Is(t)
<1>0. Width \in Nat /\ Width >= 1 /\ b \in Nat
  BY EncoderFacts
<1>1. \A k \in 1 .. Width : good[k] = b * 2^(k - 1)
  BY <1>0
<1>2. ASSUME NEW k \in 1 .. Width
      PROVE  good[k] = 2 * good[k - 1] + ((b \div 2^(k - 1)) % 2)
  <2>0. b \in 0 .. 2^1 - 1 /\ 2^1 = 2
    <3>1. 2^(0 + 1) = 2 * 2^0 /\ 0 + 1 = 1
      BY PowerStep
    <3> QED BY <3>1, PowerZero
  <2>1. CASE k = 1
    <3>1. good[1 - 1] = 0 /\ good[1] = b * 1 /\ b \div 1 = b /\ b % 2 = b /\ 1 - 1 = 0
      BY <1>0, PowerZero
    <3> HIDE DEF good
    <3>2. (b \div 2^(1 - 1)) % 2 = b
      BY <3>1, PowerZero
    <3>3. good[1] = 2 * good[1 - 1] + ((b \div 2^(1 - 1)) % 2)
      BY <3>1, <3>2, <1>0
    <3> QED BY <2>1, <3>3
  <2>2. CASE k # 1
    <3>1. k - 1 \in 1 .. Width /\ k - 2 \in Nat /\ (k - 1) - 1 = k - 2 /\ (k - 2) + 1 = k - 1
          /\ k - 1 \in Nat /\ 1 <= k - 1
      BY <2>2, <1>0
    <3>2. Digit(b, k - 1) = 0
      BY <3>1, <2>0, BitAbove
    <3>3. 2^((k - 2) + 1) = 2 * 2^(k - 2) /\ 2^(k - 2) \in Nat
      BY <3>1, PowerStep
    <3>4. good[k - 1] = b * 2^(k - 2) /\ good[k] = b * 2^(k - 1)
      BY <1>1, <3>1
    <3> HIDE DEF good
    <3> DEFINE p == 2^(k - 2)
    <3>5. p \in Nat /\ 2^(k - 1) = 2 * p /\ good[k - 1] = b * p
      BY <3>1, <3>3, <3>4
    <3> HIDE DEF p
    <3>6. b * (2 * p) = 2 * (b * p)
      BY <3>5, <1>0
    <3>7. 2 * (b * p) + 0 = 2 * (b * p)
      BY <3>5, <1>0
    <3> QED BY <3>2, <3>4, <3>5, <3>6, <3>7 DEF Digit
  <2> QED BY <2>1, <2>2
<1>3. Is(good)
  <2>1. \A k \in 0 .. Width : good[k] = IF k = 0 THEN 0
                              ELSE 2 * good[k - 1] + ((b \div 2^(k - 1)) % 2)
    <3>1. good[0] = 0
      BY <1>0
    <3>2. \A k \in 0 .. Width : k = 0 \/ k \in 1 .. Width
      BY <1>0
    <3> HIDE DEF good
    <3> QED BY <1>2, <3>1, <3>2
  <2>2. good = [k \in 0 .. Width |-> good[k]]
    OBVIOUS
  <2> HIDE DEF good
  <2> QED BY <2>1, <2>2
<1>4. Is(W)
  <2> HIDE DEF Is, good
  <2> QED BY <1>3
<1>5. reverse_byte(b) = W[Width]
  BY DEF reverse_byte
<1> HIDE DEF W
<1>6. W = [k \in 0 .. Width |-> IF k = 0 THEN 0
                              ELSE 2 * W[k - 1] + ((b \div 2^(k - 1)) % 2)]
  BY <1>4
<1> DEFINE A == {k \in Nat : k <= Width => W[k] = good[k]}
<1>7. 0 \in A
  BY <1>0, <1>6
<1>8. ASSUME NEW k \in Nat, k \in A PROVE k + 1 \in A
  <2> SUFFICES ASSUME k + 1 <= Width PROVE W[k + 1] = good[k + 1]
    OBVIOUS
  <2>1. k + 1 \in 1 .. Width /\ (k + 1) - 1 = k /\ k + 1 \in 0 .. Width /\ k + 1 # 0
    BY <1>0
  <2>2. good[k + 1] = 2 * good[(k + 1) - 1] + ((b \div 2^((k + 1) - 1)) % 2)
    BY <1>2, <2>1
  <2>3. W[k] = good[k]
    BY <1>8, <2>1, <1>0
  <2> HIDE DEF good
  <2>4. W[k + 1] = 2 * W[(k + 1) - 1] + ((b \div 2^((k + 1) - 1)) % 2)
    BY <1>6, <2>1
  <2> QED BY <2>1, <2>2, <2>3, <2>4
<1>9. Width \in A
  <2>1. \A k \in Nat : k \in A
    <3> HIDE DEF A
    <3> QED BY <1>7, <1>8, SetInduction
  <2> QED BY <2>1, <1>0
<1>10. W[Width] = b * 2^(Width - 1)
  BY <1>0, <1>1, <1>9
<1> DEFINE p == 2^(Width - 1)
<1>11. p \in Nat \ {0}
  BY <1>0, PowerStep
<1> HIDE DEF p, W
<1>12. (b * p) \div p = b
  <2>1. b = 0 \/ b = 1
    OBVIOUS
  <2>2. b * p = p * b + 0 /\ 0 \in 0 .. p - 1 /\ b * p \in Int
    BY <1>11, <2>1
  <2> DEFINE z == b * p
  <2> HIDE DEF z
  <2>3. z \in Int /\ z = p * b + 0
    BY <2>2 DEF z
  <2>4. z \div p = b
    BY <2>2, <2>3, <1>0, <1>11, DivisionUnique
  <2> QED BY <2>4 DEF z
<1> QED BY <1>5, <1>10, <1>12 DEF p

\* bit.c:279-297: a read of one bit returns the next bit of the message, the
\* highest of its byte first, from this byte or the next.
LEMMA ReadsNextBit ==
    ASSUME NEW m, m \in Buffers, NEW n \in Nat, n < Width * Len(m),
           ReaderAt(r, m, n), Read(1)
    PROVE  /\ last'.value = BitAt(m, n)
           /\ last'.value \in {0, 1}
           /\ ReaderAt(r', m, n + 1)
<1> DEFINE crosses == r.currentLen < 1
           head == IF crosses THEN Field(r, r.currentLen) ELSE 0
           more == IF crosses THEN 1 - r.currentLen ELSE 1
           y == IF crosses THEN Fetched(r) ELSE r
           read == head * 2^more + Field(y, more)
<1>0. /\ Width \in Nat /\ Width >= 1 /\ Len(m) \in Nat
      /\ m \in Seq(0 .. 2^Width - 1) /\ 2^Width \in Nat
  BY EncoderFacts, ConstantFacts, PowerStep
<1>1. /\ DOMAIN r = {"bytes", "index", "current", "currentLen"}
      /\ r.bytes = m
      /\ r.index \in Nat /\ r.currentLen \in 0 .. Width
      /\ r.current = m[r.index + 1]
      /\ Place(n, Width, r.index, r.currentLen)
  BY DEF ReaderAt
<1>2. last'.value = reverse_byte(read) \div 2^(Width - 1)
      /\ r' = [y EXCEPT !.currentLen = @ - more]
  BY DEF Read, ReadBits
<1>3. more = 1
  BY <1>0, <1>1
<1>4. /\ DOMAIN y = {"bytes", "index", "current", "currentLen"}
      /\ y.bytes = m
      /\ y.index \in Nat /\ y.currentLen \in 1 .. Width
      /\ y.current = m[y.index + 1]
      /\ Place(n, Width, y.index, y.currentLen)
  <2>1. CASE crosses
    <3>1. y = [r EXCEPT !.index = @ + 1, !.current = r.bytes[r.index + 2], !.currentLen = Width]
      BY <2>1 DEF Fetched
    <3>2. /\ DOMAIN y = {"bytes", "index", "current", "currentLen"}
          /\ y.bytes = m /\ y.index = r.index + 1 /\ y.currentLen = Width
          /\ y.current = m[r.index + 2]
      <4> HIDE DEF y
      <4> QED BY <3>1, <1>1
    <3>3. r.currentLen = 0 /\ (r.index + 1) + 1 = r.index + 2
      BY <2>1, <1>1
    <3>4. Place(n, Width, r.index + 1, Width)
      BY <3>3, <1>0, <1>1 DEF Place
    <3>5. /\ r.index + 1 \in Nat /\ Width \in 1 .. Width
          /\ y.current = m[(r.index + 1) + 1]
      BY <3>2, <3>3, <1>0, <1>1
    <3> HIDE DEF y
    <3> QED BY <3>2, <3>4, <3>5
  <2>2. CASE ~crosses
    BY <2>2, <1>0, <1>1
  <2> QED BY <2>1, <2>2
<1>5. head = 0
  <2>1. CASE crosses
    <3>1. r.currentLen = 0 /\ r.currentLen - r.currentLen = 0
      BY <2>1, <1>1
    <3>2. Field(r, r.currentLen) = (r.current \div 1) % 1
      BY <3>1, PowerZero DEF Field
    <3>3. r.current \in Int
      <4>1. y.index = r.index + 1 /\ y.currentLen = Width
        BY <2>1, <1>1 DEF Fetched
      <4>2. /\ Width \in Nat \ {0} /\ r.index + 1 \in Nat /\ Width \in 1 .. Width
            /\ Place(n, Width, r.index + 1, Width)
        BY <4>1, <1>0, <1>1, <1>4
      <4>3. r.index + 1 < Len(m)
        BY <4>2, <1>0, PlaceOf
      <4>4. r.index + 1 \in 1 .. Len(m)
        BY <4>3, <1>0, <1>1
      <4>5. m[r.index + 1] \in 0 .. 2^Width - 1
        BY <4>4, <1>0
      <4> QED BY <4>5, <1>0, <1>1
    <3>4. (r.current \div 1) % 1 = 0
      BY <3>3
    <3> QED BY <2>1, <3>2, <3>4
  <2>2. CASE ~crosses
    BY <2>2
  <2> QED BY <2>1, <2>2
<1> HIDE DEF y, head, crosses
<1>41. /\ n \div Width = y.index /\ Width - 1 - (n % Width) = y.currentLen - 1
       /\ y.currentLen - 1 \in 0 .. Width /\ y.currentLen - 1 \in Nat
       /\ Place(n + 1, Width, y.index, y.currentLen - 1)
       /\ \A k \in Nat : n < Width * k => y.index < k
  <2>1. Width \in Nat \ {0}
    BY <1>0
  <2>2. /\ y.index \in Nat /\ y.currentLen \in 1 .. Width
        /\ Place(n, Width, y.index, y.currentLen)
    BY <1>4
  <2> QED BY <2>1, <2>2, PlaceOf
<1>6. y.index < Len(m) /\ y.current \in Nat
  <2>2. y.index < Len(m)
    BY <1>0, <1>41
  <2>3. y.index + 1 \in 1 .. Len(m)
    BY <2>2, <1>0, <1>4
  <2>4. m[y.index + 1] \in 0 .. 2^Width - 1
    BY <2>3, <1>0
  <2> QED BY <2>2, <2>4, <1>0, <1>4
<1> DEFINE bit == Digit(y.current, y.currentLen - 1)
<1>7. Field(y, 1) = bit /\ bit \in {0, 1}
  <2>1. 2^1 = 2
    <3>1. 2^(0 + 1) = 2 * 2^0 /\ 0 + 1 = 1
      BY PowerStep
    <3> QED BY <3>1, PowerZero
  <2>2. Field(y, 1) = (y.current \div 2^(y.currentLen - 1)) % 2
    BY <2>1 DEF Field
  <2>3. y.currentLen - 1 \in Nat
    BY <1>4, <1>0
  <2> QED BY <2>2, <2>3, <1>6, BitIsBit DEF Digit
<1>8. read = bit
  <2>1. 2^more \in Nat
    BY <1>3, PowerStep
  <2>2. read = 0 * 2^more + bit
    BY <1>3, <1>5, <1>7
  <2> HIDE DEF bit, read
  <2> QED BY <2>1, <2>2, <1>7
<1> HIDE DEF more, read
<1>9. last'.value = bit
  <2> HIDE DEF bit
  <2>1. reverse_byte(bit) \div 2^(Width - 1) = bit
    BY <1>7, BitReversed
  <2> QED BY <2>1, <1>2, <1>8
<1>10. BitAt(m, n) = bit
  <2>1. BitAt(m, n) = (m[y.index + 1] \div 2^(y.currentLen - 1)) % 2
    BY <1>41 DEF BitAt
  <2> QED BY <2>1, <1>4 DEF Digit
<1>11. ReaderAt(r', m, n + 1)
  <2>1. /\ DOMAIN r' = {"bytes", "index", "current", "currentLen"}
        /\ r'.bytes = m /\ r'.index = y.index /\ r'.current = y.current
        /\ r'.currentLen = y.currentLen - 1
    BY <1>2, <1>3, <1>4
  <2> QED BY <2>1, <1>4, <1>41 DEF ReaderAt
<1> QED BY <1>7, <1>9, <1>10, <1>11

-----------------------------------------------------------------------------
(* The writer.                                                             *)

\* A writer over a buffer of n bytes.
Writers(n) ==
    [bytes : [0 .. n - 1 -> Nat], len : {n},
     index : Nat, current : Nat, currentLen : Nat]

\* The l bits of x, highest first, are those of s behind place p.
Spells(x, l, s, p) ==
    /\ x \in 0 .. 2^l - 1
    /\ \A j \in 1 .. l : Digit(x, l - j) = s[p + j]

\* The closed bytes and the byte under way hold the first n bits of s.
HoldsBits(x, s, n) ==
    /\ x.index \in Nat /\ x.currentLen \in 0 .. Width - 1
    /\ n = Width * x.index + x.currentLen
    /\ \A a \in 0 .. x.index - 1 : Spells(x.bytes[a], Width, s, Width * a)
    /\ \E c \in Nat : /\ x.current = 2 * c
                      /\ Spells(c, x.currentLen, s, Width * x.index)

\* One bit more.
LEMMA SpellsOneMore ==
    ASSUME NEW l \in Nat, NEW x, NEW s, NEW p, Spells(x, l, s, p),
           NEW b \in {0, 1}, s[p + (l + 1)] = b
    PROVE  Spells(2 * x + b, l + 1, s, p) /\ 2 * x + b \in Nat
<1>1. x \in 0 .. 2^l - 1 /\ \A j \in 1 .. l : Digit(x, l - j) = s[p + j]
  BY DEF Spells
<1>2. x \in Nat
  <2>1. 2^l \in Nat
    BY PowerStep
  <2> QED BY <2>1, <1>1
<1> DEFINE y == 2 * x + b
<1>3. /\ y \in 0 .. 2^(l + 1) - 1
      /\ Digit(y, 0) = b
      /\ \A k \in Nat : Digit(y, k + 1) = Digit(x, k)
  BY <1>1, <1>2, BitShiftedIn
<1>4. y \in Nat
  BY <1>2
<1> HIDE DEF y
<1>5. ASSUME NEW j \in 1 .. l + 1 PROVE Digit(y, (l + 1) - j) = s[p + j]
  <2>1. CASE j = l + 1
    <3>1. (l + 1) - j = 0
      BY <2>1
    <3> QED BY <2>1, <3>1, <1>3
  <2>2. CASE j # l + 1
    <3>1. j \in 1 .. l /\ (l - j) + 1 = (l + 1) - j /\ l - j \in Nat
      BY <2>2
    <3>2. Digit(y, (l - j) + 1) = Digit(x, l - j)
      BY <1>3, <3>1
    <3>3. Digit(x, l - j) = s[p + j]
      BY <1>1, <3>1
    <3> QED BY <3>1, <3>2, <3>3
  <2> QED BY <2>1, <2>2
<1> QED BY <1>3, <1>4, <1>5 DEF Spells, y

\* bit.c:38-51: a bit closes the byte under way or makes it longer.
LEMMA PutCases ==
    ASSUME NEW n \in Nat, NEW x \in Writers(n), NEW b \in {0, 1}
    PROVE  LET byte == Writer!OrBit(x.current, b)
               y == Writer!Put1(x, b)
           IN  /\ byte \in Nat
               /\ y \in Writers(n)
               /\ x.currentLen + 1 = Width =>
                      /\ y.index = x.index + 1 /\ y.current = 0 /\ y.currentLen = 0
                      /\ \A a \in 0 .. n - 1 :
                             y.bytes[a] = IF a = x.index THEN byte ELSE x.bytes[a]
               /\ x.currentLen + 1 # Width =>
                      /\ y.index = x.index /\ y.current = (2 * byte) % 2^Width
                      /\ y.currentLen = x.currentLen + 1
                      /\ y.bytes = x.bytes
<1> DEFINE byte == Writer!OrBit(x.current, b)
           y == Writer!Put1(x, b)
<1>0. /\ x.bytes \in [0 .. n - 1 -> Nat] /\ x.len = n
      /\ x.index \in Nat /\ x.current \in Nat /\ x.currentLen \in Nat
      /\ DOMAIN x = {"bytes", "len", "index", "current", "currentLen"}
  BY DEF Writers
<1>1. byte \in Nat
  BY <1>0 DEF Writer!OrBit
<1>2. y = IF x.currentLen + 1 = Width
          THEN [x EXCEPT !.bytes[x.index] = byte, !.index = @ + 1,
                         !.current = 0, !.currentLen = 0]
          ELSE [x EXCEPT !.current = (2 * byte) % 2^Width, !.currentLen = @ + 1]
  BY DEF Writer!Put1, Writer!Truncated
<1> HIDE DEF byte, y
<1>3. CASE x.currentLen + 1 = Width
  <2> DEFINE B == [x.bytes EXCEPT ![x.index] = byte]
  <2>1. B \in [0 .. n - 1 -> Nat]
        /\ \A a \in 0 .. n - 1 : B[a] = IF a = x.index THEN byte ELSE x.bytes[a]
    BY <1>0, <1>1
  <2>2. y = [x EXCEPT !.bytes = B, !.index = @ + 1, !.current = 0, !.currentLen = 0]
    BY <1>2, <1>3
  <2> HIDE DEF B
  <2>3. y = [bytes |-> B, len |-> n, index |-> x.index + 1, current |-> 0, currentLen |-> 0]
    BY <2>2, <1>0 DEF Writers
  <2>4. x.index + 1 \in Nat
    BY <1>0
  <2>5. y \in Writers(n)
    BY <2>1, <2>3, <2>4 DEF Writers
  <2>6. y.index = x.index + 1 /\ y.current = 0 /\ y.currentLen = 0 /\ y.bytes = B
    BY <2>3
  <2> QED BY <1>1, <1>3, <2>1, <2>5, <2>6 DEF byte, y
<1>4. CASE x.currentLen + 1 # Width
  <2> DEFINE t == (2 * byte) % 2^Width
  <2>1. t \in Nat
    <3> DEFINE m == 2^Width
    <3>1. m \in Nat \ {0}
      BY EncoderFacts, PowerStep
    <3> HIDE DEF m
    <3>2. (2 * byte) % m \in Nat
      BY <3>1, <1>1
    <3> QED BY <3>2 DEF m
  <2>2. y = [x EXCEPT !.current = t, !.currentLen = @ + 1]
    BY <1>2, <1>4
  <2> HIDE DEF t
  <2>3. y = [bytes |-> x.bytes, len |-> n, index |-> x.index, current |-> t,
             currentLen |-> x.currentLen + 1]
    BY <2>2, <1>0 DEF Writers
  <2>4. x.currentLen + 1 \in Nat
    BY <1>0
  <2>5. y \in Writers(n)
    BY <2>1, <2>3, <2>4, <1>0 DEF Writers
  <2>6. /\ y.index = x.index /\ y.current = t /\ y.currentLen = x.currentLen + 1
        /\ y.bytes = x.bytes
    BY <2>3
  <2> QED BY <1>1, <1>4, <2>5, <2>6 DEF t, byte, y
<1> QED BY <1>3, <1>4

\* A place among l bits leaves the others free.
LEMMA PlaceFrom ==
    ASSUME NEW q \in Nat \ {0}, NEW a \in Nat, NEW l \in 0 .. q - 1, NEW n,
           n = q * a + l
    PROVE  n \in Nat /\ q - l \in 1 .. q /\ Place(n, q, a, q - l)
<1> DEFINE p == q * a
<1>1. p \in Nat /\ n = p + l
  OBVIOUS
<1> HIDE DEF p
<1>2. n \in Nat /\ q - l \in 1 .. q /\ n = p + (q - (q - l))
  BY <1>1
<1> QED BY <1>2 DEF Place, p

\* Within the buffer, the writer holds one bit more after each.
LEMMA PutHolds ==
    ASSUME NEW size \in Nat, NEW x \in Writers(size), NEW s, NEW n \in Nat,
           HoldsBits(x, s, n), n < Width * size, s[n + 1] \in {0, 1}
    PROVE  HoldsBits(Writer!Put1(x, s[n + 1]), s, n + 1)
<1> DEFINE b == s[n + 1]
           byte == Writer!OrBit(x.current, b)
           y == Writer!Put1(x, b)
           cl == x.currentLen
           p == Width * x.index
<1>0. Width \in Nat \ {0} /\ Width \in Nat /\ b \in {0, 1}
  BY EncoderFacts
<1>1. /\ x.index \in Nat /\ cl \in 0 .. Width - 1 /\ cl \in Nat
      /\ n = p + cl /\ p \in Nat
      /\ \A a \in 0 .. x.index - 1 : Spells(x.bytes[a], Width, s, Width * a)
  <2>1. /\ x.index \in Nat /\ cl \in 0 .. Width - 1 /\ n = p + cl
        /\ \A a \in 0 .. x.index - 1 : Spells(x.bytes[a], Width, s, Width * a)
    BY DEF HoldsBits
  <2>2. p \in Nat
    BY <2>1, <1>0
  <2> HIDE DEF p
  <2> QED BY <2>1, <2>2, <1>0
<1>2. PICK c \in Nat : x.current = 2 * c /\ Spells(c, cl, s, p)
  BY DEF HoldsBits
<1>3. x.index < size
  <2> DEFINE l == Width - cl
  <2>1. n \in Nat /\ l \in 1 .. Width /\ Place(n, Width, x.index, l)
    BY <1>0, <1>1, PlaceFrom
  <2> HIDE DEF b, byte, y, cl, p, l
  <2>2. \A k \in Nat : n < Width * k => x.index < k
    BY <2>1, <1>0, <1>1, PlaceOf
  <2> QED BY <2>2
<1>4. byte = 2 * c + b
  <2>1. (2 * c) % 2 = 0
    OBVIOUS
  <2> QED BY <1>2, <2>1 DEF Writer!OrBit
<1>5. Spells(byte, cl + 1, s, p) /\ byte \in Nat
  <2>1. p + (cl + 1) = n + 1
    <3> HIDE DEF p, cl
    <3> QED BY <1>1
  <2>2. s[p + (cl + 1)] = b
    BY <2>1
  <2> HIDE DEF b, cl, p, byte
  <2> QED BY <2>2, <1>0, <1>1, <1>2, <1>4, SpellsOneMore
<1>6. /\ cl + 1 = Width =>
             /\ y.index = x.index + 1 /\ y.current = 0 /\ y.currentLen = 0
             /\ \A a \in 0 .. size - 1 :
                    y.bytes[a] = IF a = x.index THEN byte ELSE x.bytes[a]
      /\ cl + 1 # Width =>
             /\ y.index = x.index /\ y.current = (2 * byte) % 2^Width
             /\ y.currentLen = cl + 1
             /\ y.bytes = x.bytes
  <2> HIDE DEF b
  <2> QED BY <1>0, PutCases
<1> HIDE DEF y, byte, b
<1>7. CASE cl + 1 = Width
  <2>1. /\ y.index = x.index + 1 /\ y.current = 0 /\ y.currentLen = 0
        /\ \A a \in 0 .. size - 1 :
               y.bytes[a] = IF a = x.index THEN byte ELSE x.bytes[a]
    BY <1>6, <1>7
  <2>2. n + 1 = Width * (x.index + 1) + 0
    <3>1. Width * (x.index + 1) = p + Width
      BY <1>0, <1>1
    <3> HIDE DEF p, cl
    <3> QED BY <3>1, <1>0, <1>1, <1>7
  <2>3. ASSUME NEW a \in 0 .. y.index - 1 PROVE Spells(y.bytes[a], Width, s, Width * a)
    <3>1. a \in 0 .. size - 1 /\ (a # x.index => a \in 0 .. x.index - 1)
      <4> HIDE DEF p, cl
      <4> QED BY <2>1, <1>1, <1>3
    <3>2. CASE a = x.index
      BY <3>1, <3>2, <2>1, <1>5, <1>7
    <3>3. CASE a # x.index
      BY <3>1, <3>3, <2>1, <1>1
    <3> QED BY <3>2, <3>3
  <2>4. \E d \in Nat : y.current = 2 * d /\ Spells(d, y.currentLen, s, Width * y.index)
    <3>1. Spells(0, 0, s, Width * y.index)
      <4>1. 0 \in 0 .. 2^0 - 1
        BY PowerZero
      <4> QED BY <4>1 DEF Spells
    <3>2. y.current = 2 * 0
      BY <2>1
    <3> QED BY <3>1, <3>2, <2>1
  <2>5. /\ y.index \in Nat /\ y.currentLen \in 0 .. Width - 1
        /\ n + 1 = Width * y.index + y.currentLen
    BY <2>1, <2>2, <1>0, <1>1
  <2>6. HoldsBits(y, s, n + 1)
    BY <2>3, <2>4, <2>5 DEF HoldsBits
  <2> QED BY <2>6 DEF y, b
<1>8. CASE cl + 1 # Width
  <2>1. /\ y.index = x.index /\ y.current = (2 * byte) % 2^Width
        /\ y.currentLen = cl + 1 /\ y.bytes = x.bytes
    BY <1>6, <1>8
  <2>2. (2 * byte) % 2^Width = 2 * byte
    <3> DEFINE m == 2^Width
               k == 2^(cl + 1)
    <3>1. byte \in 0 .. k - 1
      BY <1>5 DEF Spells
    <3>2. k \in Nat /\ 2^((cl + 1) + 1) = 2 * k /\ m \in Nat \ {0}
      <4>1. cl + 1 \in Nat
        BY <1>1
      <4> QED BY <4>1, <1>0, PowerStep
    <3>3. 2^((cl + 1) + 1) <= m
      <4>1. (cl + 1) + 1 \in Nat /\ (cl + 1) + 1 <= Width
        <5> HIDE DEF p, cl
        <5> QED BY <1>0, <1>1, <1>8
      <4> QED BY <4>1, <1>0, PowerOrder
    <3> HIDE DEF m, k
    <3> DEFINE z == 2 * byte
    <3>4. z \in 0 .. m - 1 /\ z \in Int /\ z = m * 0 + z
      BY <3>1, <3>2, <3>3
    <3> HIDE DEF z
    <3>5. z % m = z
      BY <3>2, <3>4
    <3> QED BY <3>5 DEF z, m
  <2>3. \E d \in Nat : y.current = 2 * d /\ Spells(d, y.currentLen, s, Width * y.index)
    BY <2>1, <2>2, <1>5
  <2>4. /\ y.index \in Nat /\ y.currentLen \in 0 .. Width - 1
        /\ n + 1 = Width * y.index + y.currentLen
    <3>1. cl + 1 \in 0 .. Width - 1 /\ n + 1 = p + (cl + 1)
      <4> HIDE DEF p, cl
      <4> QED BY <1>0, <1>1, <1>8
    <3> QED BY <3>1, <2>1, <1>1
  <2>5. HoldsBits(y, s, n + 1)
    BY <2>1, <2>3, <2>4, <1>1 DEF HoldsBits
  <2> QED BY <2>5 DEF y, b
<1> QED BY <1>7, <1>8

\* The bits of a sequence behind place n.
Follow(s, n, bits, q) == \A j \in 1 .. q : bits[j] = s[n + j]

\* bit.c:31-36: so it does after a value of q bits.
LEMMA PutAllHolds ==
    ASSUME NEW size \in Nat, NEW x \in Writers(size), NEW s, NEW n \in Nat,
           HoldsBits(x, s, n), NEW q \in Nat, n + q <= Width * size,
           NEW bits \in [1 .. q -> {0, 1}], Follow(s, n, bits, q)
    PROVE  /\ Writer!PutAll(x, bits) \in Writers(size)
           /\ HoldsBits(Writer!PutAll(x, bits), s, n + q)
<1> DEFINE T == Writers(size)
           g == [u \in (1 .. q) \X T |-> Writer!Put1(u[2], bits[u[1]])]
           Is(t) == t = [k \in 0 .. q |-> IF k = 0 THEN x ELSE Writer!Put1(t[k - 1], bits[k])]
           W == CHOOSE t : Is(t)
<1>0. Len(bits) = q
  OBVIOUS
<1>1. ASSUME NEW j \in 1 .. q, NEW u \in T
      PROVE  g[<<j, u>>] = Writer!Put1(u, bits[j]) /\ Writer!Put1(u, bits[j]) \in T
  <2>1. g[<<j, u>>] = Writer!Put1(u, bits[j])
    OBVIOUS
  <2>2. bits[j] \in {0, 1}
    OBVIOUS
  <2>3. Writer!Put1(u, bits[j]) \in T
    BY <2>2, PutCases
  <2> QED BY <2>1, <2>3
<1>2. PICK f : Follows(f, g, q, T, x)
  <2>1. StepOn(g, q, T)
    <3> HIDE DEF g, T
    <3>1. \A j \in 1 .. q, u \in T : g[<<j, u>>] \in T
      BY <1>1
    <3> QED BY <3>1 DEF StepOn
  <2>2. x \in T
    OBVIOUS
  <2> HIDE DEF g, T
  <2> QED BY <2>1, <2>2, RecursionExists
<1>3. /\ f \in [0 .. q -> T] /\ f[0] = x
      /\ \A j \in 1 .. q : f[j] = Writer!Put1(f[j - 1], bits[j])
  <2> HIDE DEF g, T
  <2>1. f \in [0 .. q -> T] /\ f[0] = x /\ \A j \in 1 .. q : f[j] = g[<<j, f[j - 1]>>]
    BY <1>2 DEF Follows
  <2>2. ASSUME NEW j \in 1 .. q PROVE f[j] = Writer!Put1(f[j - 1], bits[j])
    <3>1. f[j - 1] \in T
      BY <2>1
    <3> QED BY <3>1, <2>1, <1>1
  <2> QED BY <2>1, <2>2
<1>4. Is(f)
  <2> HIDE DEF g, T
  <2>1. \A k \in 0 .. q : f[k] = IF k = 0 THEN x ELSE Writer!Put1(f[k - 1], bits[k])
    BY <1>3
  <2>2. f = [k \in 0 .. q |-> f[k]]
    BY <1>3
  <2> QED BY <2>1, <2>2
<1>5. Is(W)
  <2> HIDE DEF Is
  <2> QED BY <1>4
<1>6. Writer!PutAll(x, bits) = W[q]
  BY <1>0 DEF Writer!PutAll
<1> HIDE DEF W, g
<1>7. W = [k \in 0 .. q |-> IF k = 0 THEN x ELSE Writer!Put1(W[k - 1], bits[k])]
  BY <1>5
<1> HIDE DEF T
<1> DEFINE A == {k \in Nat : k <= q => W[k] \in T /\ HoldsBits(W[k], s, n + k)}
<1>8. 0 \in A
  <2>1. W[0] = x /\ n + 0 = n /\ x \in T
    BY <1>7 DEF T
  <2> QED BY <2>1
<1>9. ASSUME NEW k \in Nat, k \in A PROVE k + 1 \in A
  <2> SUFFICES ASSUME k + 1 <= q
               PROVE  W[k + 1] \in T /\ HoldsBits(W[k + 1], s, n + (k + 1))
    OBVIOUS
  <2>1. k + 1 \in 1 .. q /\ k + 1 \in 0 .. q /\ (k + 1) - 1 = k /\ k <= q /\ k + 1 # 0
    OBVIOUS
  <2>2. W[k] \in T /\ HoldsBits(W[k], s, n + k)
    BY <1>9, <2>1
  <2>3. W[k + 1] = Writer!Put1(W[k], bits[k + 1])
    BY <1>7, <2>1
  <2>4. bits[k + 1] \in {0, 1} /\ bits[k + 1] = s[n + (k + 1)]
    BY <2>1 DEF Follow
  <2>5. W[k + 1] \in T
    BY <1>1, <2>1, <2>2, <2>3
  <2> DEFINE e == n + k
             u == W[k]
  <2>6. e \in Nat /\ n + (k + 1) = e + 1 /\ e < Width * size
    <3> DEFINE m == Width * size
    <3>1. m \in Nat /\ n + q <= m
      BY EncoderFacts
    <3> HIDE DEF m
    <3>2. e < m
      BY <3>1, <2>1
    <3> QED BY <3>2 DEF m
  <2>7. u \in Writers(size) /\ HoldsBits(u, s, e) /\ s[e + 1] \in {0, 1}
    BY <2>2, <2>4, <2>6 DEF T
  <2> HIDE DEF e, u
  <2>8. HoldsBits(Writer!Put1(u, s[e + 1]), s, e + 1)
    BY <2>6, <2>7, PutHolds
  <2> QED BY <2>3, <2>4, <2>5, <2>6, <2>8 DEF u
<1>10. q \in A
  <2> HIDE DEF A
  <2> QED BY <1>8, <1>9, SetInduction
<1> QED BY <1>6, <1>10 DEF T

\* Only the bits held matter.
LEMMA HoldsAgree ==
    ASSUME NEW x, NEW s, NEW t, NEW n \in Nat, HoldsBits(x, s, n),
           \A k \in 1 .. n : s[k] = t[k]
    PROVE  HoldsBits(x, t, n)
<1> DEFINE cl == x.currentLen
           p == Width * x.index
<1>0. Width \in Nat \ {0} /\ Width \in Nat
  BY EncoderFacts
<1>1. /\ x.index \in Nat /\ cl \in 0 .. Width - 1
      /\ n = p + cl /\ p \in Nat
      /\ \A a \in 0 .. x.index - 1 : Spells(x.bytes[a], Width, s, Width * a)
  <2>1. /\ x.index \in Nat /\ cl \in 0 .. Width - 1 /\ n = p + cl
        /\ \A a \in 0 .. x.index - 1 : Spells(x.bytes[a], Width, s, Width * a)
    BY DEF HoldsBits
  <2>2. p \in Nat
    BY <2>1, <1>0
  <2> QED BY <2>1, <2>2
<1>2. PICK c \in Nat : x.current = 2 * c /\ Spells(c, cl, s, p)
  BY DEF HoldsBits
<1>3. ASSUME NEW a \in 0 .. x.index - 1 PROVE Spells(x.bytes[a], Width, t, Width * a)
  <2>1. a \in Nat /\ a + 1 \in Nat /\ a + 1 <= x.index
    <3> HIDE DEF p, cl
    <3> QED BY <1>1
  <2>2. Width * (a + 1) <= p /\ Width * (a + 1) = Width * a + Width /\ Width * a \in Nat
    BY <2>1, <1>0, <1>1, NoFewer, OneMore
  <2> DEFINE k == Width * a
  <2>3. k \in Nat /\ k + Width <= n
    <3> HIDE DEF k, p, cl
    <3>1. k + Width <= p /\ k \in Nat
      BY <2>2, <1>0 DEF k
    <3> QED BY <3>1, <1>0, <1>1
  <2> HIDE DEF k
  <2>4. \A j \in 1 .. Width : k + j \in 1 .. n
    BY <2>3, <1>0
  <2>5. Spells(x.bytes[a], Width, s, k)
    BY <1>1 DEF k
  <2>6. Spells(x.bytes[a], Width, t, k)
    BY <2>4, <2>5 DEF Spells
  <2> QED BY <2>6 DEF k
<1>4. Spells(c, cl, t, p)
  <2> HIDE DEF p, cl
  <2>1. \A j \in 1 .. cl : p + j \in 1 .. n
    BY <1>0, <1>1
  <2> QED BY <2>1, <1>2 DEF Spells
<1> QED BY <1>1, <1>2, <1>3, <1>4 DEF HoldsBits

-----------------------------------------------------------------------------
(* The flushed buffer.                                                     *)

\* Every place of n bytes of q bits is a bit of one of them.
LEMMA PlaceSplit ==
    ASSUME NEW q \in Nat \ {0}, NEW n \in Nat, NEW k \in 1 .. n * q
    PROVE  /\ (k - 1) \div q \in 0 .. n - 1
           /\ ((k - 1) % q) + 1 \in 1 .. q
           /\ k = q * ((k - 1) \div q) + (((k - 1) % q) + 1)
<1> DEFINE x == k - 1
           a == x \div q
           c == x % q
<1>0. n * q \in Nat /\ n * q = q * n
  OBVIOUS
<1>1. x \in Nat /\ k = x + 1 /\ k <= q * n
  BY <1>0
<1> HIDE DEF x
<1>2. a \in Nat /\ c \in 0 .. q - 1 /\ x = q * a + c
  BY <1>1
<1> HIDE DEF a, c
<1>3. a < n
  <2> SUFFICES ASSUME n <= a PROVE FALSE
    BY <1>2
  <2>1. q * n <= q * a /\ q * a \in Nat
    BY <1>2, NoFewer
  <2> QED BY <2>1, <1>1, <1>2
<1>4. a \in 0 .. n - 1 /\ c + 1 \in 1 .. q
  BY <1>2, <1>3
<1>5. k = q * a + (c + 1)
  <2> DEFINE p == q * a
  <2>1. p \in Nat /\ x = p + c
    BY <1>2
  <2> HIDE DEF p
  <2>2. k = p + (c + 1)
    BY <2>1, <1>1, <1>2
  <2> QED BY <2>2 DEF p
<1> QED BY <1>4, <1>5 DEF a, c, x

\* u is the bits of the first n bytes of y.
BitsOfBytes(u, y, n) ==
    /\ n * Width \in Nat
    /\ \E C : u \in [1 .. n * Width -> C]
    /\ Len(u) = n * Width
    /\ \A k \in 1 .. n * Width : \E a \in 0 .. n - 1, j \in 1 .. Width :
           k = Width * a + j /\ u[k] = Digit(y.bytes[a], Width - j)

\* The buffer's bits, byte by byte, the highest of a byte first.
LEMMA StoredBits ==
    ASSUME NEW y, NEW n \in Nat
    PROVE  BitsOfBytes(Writer!Stored(y, n), y, n)
<1> DEFINE S == Writer!Stored(y, n)
           bit(k) == Writer!BitsOf(y.bytes[(k - 1) \div Width], Width)[((k - 1) % Width) + 1]
           top == n * Width
<1>0. Width \in Nat \ {0} /\ Width \in Nat
  BY EncoderFacts
<1>1. top \in Nat
  BY <1>0
<1>2. S = [k \in 1 .. top |-> bit(k)]
  BY DEF Writer!Stored
<1>3. ASSUME NEW k \in 1 .. top
      PROVE  \E a \in 0 .. n - 1, j \in 1 .. Width :
                 k = Width * a + j /\ bit(k) = Digit(y.bytes[a], Width - j)
  <2> DEFINE a == (k - 1) \div Width
             j == ((k - 1) % Width) + 1
  <2>1. a \in 0 .. n - 1 /\ j \in 1 .. Width /\ k = Width * a + j
    BY <1>0, PlaceSplit
  <2>2. bit(k) = Writer!BitsOf(y.bytes[a], Width)[j]
    OBVIOUS
  <2> HIDE DEF a, j
  <2>3. Writer!BitsOf(y.bytes[a], Width)[j] = (y.bytes[a] \div 2^(Width - j)) % 2
    BY <2>1 DEF Writer!BitsOf
  <2> QED BY <2>1, <2>2, <2>3 DEF Digit
<1> HIDE DEF bit, top
<1>4. \A k \in 1 .. top : S[k] = bit(k)
  BY <1>2
<1>5. S = [k \in 1 .. top |-> S[k]]
  BY <1>2
<1> HIDE DEF S
<1>6. S \in [1 .. top -> {S[k] : k \in 1 .. top}] /\ Len(S) = top
  <2> DEFINE T == {S[k] : k \in 1 .. top}
  <2>1. \A k \in 1 .. top : S[k] \in T
    OBVIOUS
  <2> HIDE DEF T
  <2>2. S \in [1 .. top -> T]
    BY <1>5, <2>1
  <2>3. Len(S) = top
    BY <1>1, <2>2
  <2> QED BY <2>2, <2>3 DEF T
<1>7. \A k \in 1 .. top : \E a \in 0 .. n - 1, j \in 1 .. Width :
          k = Width * a + j /\ S[k] = Digit(y.bytes[a], Width - j)
  BY <1>3, <1>4
<1>8. \E C : S \in [1 .. top -> C]
  BY <1>6
<1>9. BitsOfBytes(S, y, n)
  BY <1>1, <1>6, <1>7, <1>8 DEF BitsOfBytes, top
<1> QED BY <1>9 DEF S

\* The first n values of two sequences.
LEMMA SamePrefix ==
    ASSUME NEW C, NEW n \in Nat, NEW u \in Seq(C), n <= Len(u),
           NEW B, NEW s \in Seq(B), n <= Len(s),
           \A k \in 1 .. n : u[k] = s[k]
    PROVE  SubSeq(u, 1, n) = SubSeq(s, 1, n)
<1> DEFINE v == SubSeq(u, 1, n)
           t == SubSeq(s, 1, n)
<1>1. v \in Seq(C) /\ Len(v) = n /\ \A k \in 1 .. n : v[k] = u[k]
  OBVIOUS
<1>2. t \in Seq(B) /\ Len(t) = n /\ \A k \in 1 .. n : t[k] = s[k]
  OBVIOUS
<1> HIDE DEF v, t
<1>3. v = [k \in 1 .. n |-> v[k]] /\ t = [k \in 1 .. n |-> t[k]]
  BY <1>1, <1>2
<1>4. v = t
  BY <1>1, <1>2, <1>3
<1> QED BY <1>4 DEF v, t

\* bit.c:213-226: flushing a writer that holds all of s leaves the whole bytes
\* of s in the buffer.
LEMMA FlushKeepsBytes ==
    ASSUME NEW size \in Nat, NEW x \in Writers(size), NEW B, NEW s \in Seq(B),
           HoldsBits(x, s, Len(s)), x.currentLen # 0 => x.index < size
    PROVE  LET y == Writer!Flushed(x)
               whole == (Len(s) \div Width) * Width
           IN  SubSeq(Writer!Stored(y, y.index), 1, whole) = SubSeq(s, 1, whole)
<1> DEFINE y == Writer!Flushed(x)
           stored == Writer!Stored(y, y.index)
           whole == (Len(s) \div Width) * Width
           n == x.index
           p == Width * n
<1>0. Width \in Nat \ {0} /\ Width \in Nat
  BY EncoderFacts
<1>1. /\ n \in Nat /\ x.currentLen \in 0 .. Width - 1
      /\ Len(s) = Width * n + x.currentLen
      /\ \A a \in 0 .. n - 1 : Spells(x.bytes[a], Width, s, Width * a)
  BY DEF HoldsBits
<1>2. whole = p /\ p \in Nat /\ p <= Len(s)
  <2>1. Len(s) \div Width = n
    <3> DEFINE t == Len(s)
               l == x.currentLen
    <3>1. t \in Int /\ n \in Int /\ l \in 0 .. Width - 1 /\ t = Width * n + l
      BY <1>1
    <3> HIDE DEF t, l, n
    <3> QED BY <3>1, <1>0, DivisionUnique DEF t
  <2>2. n * Width = p /\ p \in Nat
    BY <1>0, <1>1
  <2> HIDE DEF p
  <2> QED BY <2>1, <2>2, <1>1 DEF p
<1>3. /\ y.index \in Nat /\ n <= y.index
      /\ \A a \in 0 .. n - 1 : y.bytes[a] = x.bytes[a]
  <2>1. CASE x.currentLen = 0
    BY <2>1, <1>1 DEF Writer!Flushed
  <2>2. CASE x.currentLen # 0
    <3> DEFINE byte == Writer!Truncated(x.current * 2^(Width - x.currentLen))
               D == [x.bytes EXCEPT ![n] = byte]
    <3>1. /\ x.bytes \in [0 .. size - 1 -> Nat]
          /\ DOMAIN x = {"bytes", "len", "index", "current", "currentLen"}
      BY DEF Writers
    <3>2. y = [x EXCEPT !.current = byte, !.bytes[x.index] = byte,
                        !.index = @ + 1, !.currentLen = 0]
      BY <2>2 DEF Writer!Flushed
    <3> HIDE DEF byte, y
    <3>3. \A a \in 0 .. n - 1 : D[a] = x.bytes[a]
      BY <3>1, <1>1, <2>2
    <3>4. y = [x EXCEPT !.current = byte, !.bytes = D, !.index = @ + 1, !.currentLen = 0]
      BY <3>2
    <3> HIDE DEF D
    <3>5. y.bytes = D /\ y.index = n + 1
      BY <3>4, <3>1
    <3> QED BY <3>3, <3>5, <1>1
  <2> QED BY <2>1, <2>2
<1> HIDE DEF y
<1> DEFINE top == y.index * Width
<1>4. /\ top \in Nat
      /\ \E C : stored \in [1 .. top -> C]
      /\ Len(stored) = top
      /\ \A k \in 1 .. top : \E a \in 0 .. y.index - 1, j \in 1 .. Width :
             k = Width * a + j /\ stored[k] = Digit(y.bytes[a], Width - j)
  <2>1. y.index \in Nat
    BY <1>3
  <2>2. BitsOfBytes(Writer!Stored(y, y.index), y, y.index)
    BY <2>1, StoredBits
  <2> QED BY <2>2 DEF BitsOfBytes
<1>5. p <= top
  <2>1. top = Width * y.index
    BY <1>0, <1>3
  <2> QED BY <2>1, <1>0, <1>1, <1>3, NoFewer
<1> HIDE DEF stored, top
<1>6. ASSUME NEW k \in 1 .. p PROVE stored[k] = s[k]
  <2>1. PICK a \in 0 .. y.index - 1, j \in 1 .. Width :
             k = Width * a + j /\ stored[k] = Digit(y.bytes[a], Width - j)
    <3>1. k \in 1 .. top
      BY <1>2, <1>4, <1>5
    <3> QED BY <3>1, <1>4
  <2>2. a \in 0 .. n - 1
    <3> SUFFICES ASSUME n <= a PROVE FALSE
      BY <1>1, <1>3
    <3> DEFINE q == Width * a
    <3>1. a \in Nat /\ p <= q /\ q \in Nat
      BY <1>0, <1>1, <1>3, NoFewer
    <3>2. k = q + j
      BY <2>1
    <3> HIDE DEF p, q
    <3> QED BY <3>1, <3>2, <1>0, <1>2
  <2>3. Spells(x.bytes[a], Width, s, Width * a)
    BY <2>2, <1>1
  <2> QED BY <2>1, <2>2, <2>3, <1>3 DEF Spells
<1>7. PICK C : stored \in [1 .. top -> C]
  BY <1>4
<1>8. stored \in Seq(C)
  BY <1>4, <1>7
<1> HIDE DEF p, whole
<1>9. SubSeq(stored, 1, p) = SubSeq(s, 1, p)
  BY <1>2, <1>4, <1>5, <1>6, <1>8, SamePrefix
<1> QED BY <1>2, <1>9 DEF stored, y, whole

-----------------------------------------------------------------------------
(* The codeword.                                                           *)

\* The bits that go through the register: the message's, then the zeros.
AllBits(m) == MessageBits(m) \o Zeros(Order + 1)

\* Bit k of the codeword.
CodeBit(m, k) == Table[RegisterAt(AllBits(m), ((k - 1) \div Rate) + 1)][((k - 1) % Rate) + 1]

\* The bytes of the buffer.
Size == Ceil(encode_len(Len(r.bytes)))

\* The register holds the bits of the rounds so far, and what is written is
\* the codeword up to there.
RoundsInv ==
    InEncode => /\ register = RegisterAt(AllBits(r.bytes), Rounds)
                /\ sent \in Seq({0, 1})
                /\ \A k \in 1 .. Len(sent) : sent[k] = CodeBit(r.bytes, k)

\* The reader is at the bit of the next round.
ReaderInv == phase = "message" => ReaderAt(r, r.bytes, i)

\* The writer x holds what is written.
HeldBy(x) == x \in Writers(Size) /\ HoldsBits(x, sent, Len(sent))

WriterInv ==
    /\ phase \in {"message", "zeros"} => HeldBy(w)
    /\ phase = "done" => \E x : /\ HeldBy(x)
                                /\ w = Writer!Flushed(x)
                                /\ x.currentLen # 0 => x.index < Size

CodeInv == RoundsInv /\ ReaderInv /\ WriterInv

\* The bits of a message, and the zeros behind them.
LEMMA AllBitsAre ==
    ASSUME NEW m \in Buffers
    PROVE  LET n == Width * Len(m)
           IN  /\ n \in Nat
               /\ Len(AllBits(m)) = n + (Order + 1)
               /\ AreBits(AllBits(m), n + (Order + 1))
               /\ \A k \in 1 .. n : AllBits(m)[k] = BitAt(m, k - 1)
               /\ \A k \in n + 1 .. n + (Order + 1) : AllBits(m)[k] = 0
<1> DEFINE n == Width * Len(m)
           s == MessageBits(m)
           z == Zeros(Order + 1)
<1>0. /\ Width \in Nat \ {0} /\ Len(m) \in Nat /\ Order \in Nat
      /\ m \in Seq(0 .. 2^Width - 1) /\ 2^Width \in Nat
  BY EncoderFacts, ConstantFacts, PowerStep
<1>1. n \in Nat /\ n = Len(m) * Width
  BY <1>0
<1>2. ASSUME NEW k \in 1 .. n PROVE BitAt(m, k - 1) \in {0, 1}
  <2> DEFINE a == (k - 1) \div Width
             c == (k - 1) % Width
  <2>0. k \in 1 .. Len(m) * Width
    BY <1>1
  <2>1. a \in 0 .. Len(m) - 1 /\ c + 1 \in 1 .. Width
    BY <2>0, <1>0, PlaceSplit
  <2>2. BitAt(m, k - 1) = Digit(m[a + 1], Width - 1 - c)
    BY DEF BitAt, Digit
  <2> HIDE DEF a, n
  <2>3. c \in Int
    BY <1>0
  <2> HIDE DEF c
  <2>4. a + 1 \in 1 .. Len(m) /\ Width - 1 - c \in Nat
    BY <2>1, <2>3, <1>0
  <2>5. m[a + 1] \in Nat
    <3>1. m[a + 1] \in 0 .. 2^Width - 1
      BY <2>4, <1>0
    <3> QED BY <3>1, <1>0
  <2> QED BY <2>2, <2>4, <2>5, BitIsBit
<1>3. s \in Seq({0, 1}) /\ Len(s) = n /\ \A k \in 1 .. n : s[k] = BitAt(m, k - 1)
  <2>1. s = [k \in 1 .. n |-> BitAt(m, k - 1)]
    BY DEF MessageBits
  <2> HIDE DEF s, n
  <2>2. s \in [1 .. n -> {0, 1}] /\ \A k \in 1 .. n : s[k] = BitAt(m, k - 1)
    BY <2>1, <1>2
  <2> QED BY <2>2, <1>1
<1>4. z \in Seq({0}) /\ Len(z) = Order + 1 /\ \A k \in 1 .. Order + 1 : z[k] = 0
  BY <1>0 DEF Zeros
<1>5. AllBits(m) = s \o z
  BY DEF AllBits
<1> HIDE DEF s, z, n
<1>6. Len(AllBits(m)) = n + (Order + 1)
  <2>1. s \in Seq({0, 1}) /\ z \in Seq({0})
    BY <1>3, <1>4
  <2>2. Len(s \o z) = Len(s) + Len(z)
    BY <2>1, Joined
  <2> QED BY <2>2, <1>3, <1>4, <1>5
<1>7. \A k \in 1 .. n : AllBits(m)[k] = s[k]
  BY <1>0, <1>1, <1>3, <1>4, <1>5
<1>8. ASSUME NEW k \in n + 1 .. n + (Order + 1) PROVE AllBits(m)[k] = 0
  <2>1. k - n \in 1 .. Order + 1
    BY <1>0, <1>1
  <2>2. AllBits(m)[k] = z[k - n]
    BY <2>1, <1>0, <1>1, <1>3, <1>4, <1>5
  <2> QED BY <2>1, <2>2, <1>4
<1>9. AreBits(AllBits(m), n + (Order + 1))
  <2> SUFFICES ASSUME NEW k \in 1 .. n + (Order + 1) PROVE AllBits(m)[k] \in {0, 1}
    BY DEF AreBits
  <2>1. k \in 1 .. n \/ k \in n + 1 .. n + (Order + 1)
    BY <1>0, <1>1
  <2> QED BY <2>1, <1>2, <1>3, <1>7, <1>8
<1> QED BY <1>1, <1>3, <1>6, <1>7, <1>8, <1>9 DEF n

\* The bits of a shorter prefix are bits as well.
LEMMA FewerBits ==
    ASSUME NEW a \in Nat, NEW b \in Nat, a <= b, NEW d, AreBits(d, b)
    PROVE  AreBits(d, a)
  BY DEF AreBits

\* lookup.c, fill_table: a row of the table is an output.
LEMMA TableRow ==
    ASSUME NEW x \in Registers
    PROVE  Table[x] \in Outputs
<1>1. ASSUME NEW y PROVE Parity(x, y) \in {0, 1}
  <2> DEFINE S == {k \in 0 .. Order - 1 : BitOf(x, k) = 1 /\ BitOf(y, k) = 1}
  <2>1. IsFiniteSet(0 .. Order - 1)
    BY ConstantFacts, FS_Interval
  <2>2. IsFiniteSet(S)
    <3>1. S \subseteq 0 .. Order - 1
      OBVIOUS
    <3> HIDE DEF S
    <3> QED BY <2>1, <3>1, FS_Subset
  <2>3. Cardinality(S) \in Nat
    <3> HIDE DEF S
    <3> QED BY <2>2, FS_CardinalityType
  <2>4. Parity(x, y) = Cardinality(S) % 2
    BY DEF Parity
  <2> HIDE DEF S
  <2> QED BY <2>3, <2>4
<1>2. Table[x] = [j \in 1 .. Rate |-> Parity(x, Poly[j])]
  BY DEF Table
<1> QED BY <1>1, <1>2 DEF Outputs

\* A round behind n outputs writes the next output of the codeword.
LEMMA RoundWrites ==
    ASSUME NEW m \in Buffers, NEW n \in Nat, n < Width * Len(m) + (Order + 1),
           register' = RegisterAt(AllBits(m), n + 1),
           Writer!Write(Packed(Table[register']), Rate),
           sent \in Seq({0, 1}), Len(sent) = Rate * n,
           \A k \in 1 .. Len(sent) : sent[k] = CodeBit(m, k),
           NEW size \in Nat, w \in Writers(size), HoldsBits(w, sent, Len(sent))
    PROVE  /\ sent' \in Seq({0, 1})
           /\ \A k \in 1 .. Len(sent') : sent'[k] = CodeBit(m, k)
           /\ w' \in Writers(size)
           /\ HoldsBits(w', sent', Len(sent'))
<1> DEFINE o == Table[RegisterAt(AllBits(m), n + 1)]
           q == Len(sent)
<1>0. Rate \in Nat \ {0} /\ Rate \in Nat /\ Width \in Nat \ {0} /\ q \in Nat /\ q = Rate * n
  BY TrellisAssumption, EncoderFacts
<1>1. o \in Outputs
  <2>1. AreBits(AllBits(m), n + 1)
    <3> DEFINE t == Width * Len(m)
    <3>1. t \in Nat /\ AreBits(AllBits(m), t + (Order + 1))
      BY AllBitsAre
    <3>2. n < t + (Order + 1) /\ Order \in Nat
      BY ConstantFacts
    <3> HIDE DEF t
    <3>3. n + 1 <= t + (Order + 1) /\ n + 1 \in Nat /\ t + (Order + 1) \in Nat
      BY <3>1, <3>2
    <3> QED BY <3>1, <3>3, FewerBits
  <2>2. RegisterAt(AllBits(m), n + 1) \in Registers
    BY <2>1, RegisterBits
  <2> QED BY <2>2, TableRow
<1>2. Writer!LowFirst(Packed(Table[register']), Rate) = o
  BY <1>1, RowInOrder
<1>3. /\ sent' = sent \o o
      /\ w' = Writer!PutAll(w, o)
      /\ w.index * Width + w.currentLen + Rate <= w.len * Width
  BY <1>2 DEF Writer!Write
<1>4. o \in [1 .. Rate -> {0, 1}]
  BY <1>1 DEF Outputs
<1> HIDE DEF o
<1>5. o \in Seq({0, 1}) /\ Len(o) = Rate
  BY <1>0, <1>4
<1>6. sent' \in Seq({0, 1}) /\ Len(sent') = q + Rate
  <2>1. sent \o o \in Seq({0, 1}) /\ Len(sent \o o) = q + Len(o)
    BY <1>5
  <2> QED BY <2>1, <1>3, <1>5
<1>7. \A k \in 1 .. q : sent'[k] = sent[k]
  BY <1>3, <1>5, <1>0
<1>8. \A j \in 1 .. Rate : sent'[q + j] = o[j]
  <2> SUFFICES ASSUME NEW j \in 1 .. Rate PROVE sent'[q + j] = o[j]
    OBVIOUS
  <2>1. j \in 1 .. Len(o)
    BY <1>5
  <2>2. (sent \o o)[Len(sent) + j] = o[j]
    BY <2>1, <1>5, JoinedAt
  <2> QED BY <2>2, <1>3
<1>9. ASSUME NEW k \in 1 .. Len(sent') PROVE sent'[k] = CodeBit(m, k)
  <2>1. CASE k <= q
    <3>1. k \in 1 .. q
      BY <2>1, <1>6, <1>0
    <3> QED BY <3>1, <1>7
  <2>2. CASE ~ (k <= q)
    <3> DEFINE j == k - q
               c == j - 1
    <3>1. j \in 1 .. Rate /\ q + j = k
      <4> HIDE DEF q
      <4> QED BY <2>2, <1>6, <1>0
    <3>2. c \in 0 .. Rate - 1 /\ k - 1 = Rate * n + c /\ c + 1 = j
      <4>1. c \in 0 .. Rate - 1 /\ k - 1 = q + c /\ c + 1 = j
        <5> HIDE DEF q
        <5> QED BY <3>1, <1>0
      <4> QED BY <4>1, <1>0
    <3> HIDE DEF c, j, q
    <3>3. (k - 1) \div Rate = n /\ (k - 1) % Rate = c
      <4> DEFINE x == k - 1
      <4>1. /\ x \in Int /\ x = Rate * n + c
            /\ Rate \in Nat \ {0} /\ c \in 0 .. Rate - 1 /\ n \in Int
        BY <3>2, <1>6, <1>0
      <4> HIDE DEF x
      <4>2. x \div Rate = n /\ x % Rate = c
        BY <4>1, DivisionUnique
      <4> QED BY <4>2 DEF x
    <3>4. CodeBit(m, k) = o[j]
      BY <3>2, <3>3 DEF CodeBit, o
    <3> QED BY <3>1, <3>4, <1>8
  <2> QED BY <2>1, <2>2
<1>10. w' \in Writers(size) /\ HoldsBits(w', sent', q + Rate)
  <2>1. HoldsBits(w, sent', q)
    <3>1. \A k \in 1 .. q : sent[k] = sent'[k]
      BY <1>7
    <3> DEFINE s == sent'
    <3>2. HoldsBits(w, sent, q)
      OBVIOUS
    <3> HIDE DEF s, q
    <3>3. HoldsBits(w, s, q)
      <4>1. \A k \in 1 .. q : sent[k] = s[k]
        BY <3>1 DEF s
      <4> QED BY <4>1, <3>2, <1>0, HoldsAgree
    <3> QED BY <3>3 DEF s
  <2>2. q + Rate <= Width * size
    <3>1. w.len = size /\ w.index \in Nat
      BY DEF Writers
    <3>2. q = Width * w.index + w.currentLen /\ w.currentLen \in Nat
      <4>1. HoldsBits(w, sent, q)
        OBVIOUS
      <4> HIDE DEF q
      <4>2. q = Width * w.index + w.currentLen /\ w.currentLen \in 0 .. Width - 1
        BY <4>1 DEF HoldsBits
      <4> QED BY <4>2
    <3> HIDE DEF q
    <3>3. w.index * Width = Width * w.index /\ size * Width = Width * size
      BY <3>1, <1>0
    <3> QED BY <3>1, <3>2, <3>3, <1>3
  <2>3. Follow(sent', q, o, Rate)
    BY <1>8 DEF Follow
  <2> DEFINE s == sent'
             y == Writer!PutAll(w, o)
  <2>4. w \in Writers(size) /\ HoldsBits(w, s, q) /\ Follow(s, q, o, Rate)
    BY <2>1, <2>3
  <2> HIDE DEF s, q
  <2>5. y \in Writers(size) /\ HoldsBits(y, s, q + Rate)
    BY <2>2, <2>4, <1>0, <1>4, PutAllHolds
  <2> QED BY <2>5, <1>3 DEF s
<1> QED BY <1>6, <1>9, <1>10

-----------------------------------------------------------------------------
\* The buffer has room for a byte that is partly filled.
LEMMA RoomForLast ==
    ASSUME NEW q \in Nat \ {0}, NEW a \in Nat, NEW l \in 1 .. q - 1, NEW n, n = q * a + l
    PROVE  a < (n + q - 1) \div q
<1> DEFINE x == n + q - 1
           c == l - 1
<1>1. x \in Int /\ c \in 0 .. q - 1 /\ x = q * (a + 1) + c /\ a + 1 \in Int
  <2> DEFINE p == q * a
  <2>1. p \in Nat /\ q * (a + 1) = p + q /\ n = p + l
    OBVIOUS
  <2> HIDE DEF p
  <2> QED BY <2>1
<1> HIDE DEF x, c
<1>2. x \div q = a + 1
  BY <1>1, DivisionUnique
<1> QED BY <1>2 DEF x

\* The bits of an encode.
LEMMA LengthIsNat ==
    ASSUME NEW m \in Buffers
    PROVE  encode_len(Len(m)) \in Nat
<1>1. Width \in Nat /\ Len(m) \in Nat /\ Rate \in Nat /\ Order \in Nat
  BY EncoderFacts, ConstantFacts
<1>2. Width * Len(m) \in Nat
  BY <1>1
<1> DEFINE t == Width * Len(m) + Order + 1
<1>3. t \in Nat
  BY <1>1, <1>2
<1> HIDE DEF t
<1>4. Rate * t \in Nat
  BY <1>1, <1>3
<1> QED BY <1>4 DEF encode_len, t

\* The bytes of an encode.
LEMMA SizeIsNat ==
    ASSUME NEW m \in Buffers
    PROVE  Ceil(encode_len(Len(m))) \in Nat
<1>1. Width \in Nat \ {0}
  BY EncoderFacts
<1>2. encode_len(Len(m)) \in Nat
  BY LengthIsNat
<1> DEFINE n == encode_len(Len(m))
<1> HIDE DEF n
<1>3. n + Width - 1 \in Nat
  BY <1>1, <1>2 DEF n
<1>4. (n + Width - 1) \div Width \in Nat
  BY <1>1, <1>3, Division
<1> QED BY <1>4 DEF Ceil, n

\* A call starts with an empty register, reader and writer.
LEMMA StartCodes ==
    ASSUME NEW m \in Buffers, NEW byte \in Fills, Start(m, byte)
    PROVE  CodeInv'
<1> DEFINE size == Ceil(encode_len(Len(m)))
<1>0. Width \in Nat \ {0} /\ size \in Nat
  BY EncoderFacts, SizeIsNat
<1>1. /\ phase' = "message" /\ i' = 0 /\ register' = 0 /\ sent' = <<>>
      /\ r' = [bytes |-> m, index |-> 0, current |-> m[1], currentLen |-> Width]
      /\ w' = Writer!Reconfigured(size, byte)
  BY DEF Start, Writer!Reconfigure, Reconfigure, Reconfigured
<1>2. r'.bytes = m /\ Len(sent') = 0 /\ sent' \in Seq({0, 1}) /\ Rounds' = 0 /\ Size' = size
  <2>1. r'.bytes = m /\ Len(sent') = 0 /\ sent' \in Seq({0, 1}) /\ Rounds' = 0
    BY <1>1 DEF Rounds
  <2> QED BY <2>1 DEF Size
<1>3. RegisterAt(AllBits(m), 0) = 0
  <2>1. AreBits(AllBits(m), 0)
    BY DEF AreBits
  <2>2. \A j \in 0 .. Order - 1 : RecentBit(AllBits(m), 0, j) = 0
    BY ConstantFacts DEF RecentBit
  <2> QED BY <2>1, <2>2, RegisterEmptied
<1>4. RoundsInv'
  BY <1>1, <1>2, <1>3 DEF RoundsInv
<1>5. ReaderInv'
  <2>1. Place(0, Width, 0, Width)
    BY <1>0 DEF Place
  <2>2. Width \in 0 .. Width
    BY <1>0
  <2>3. ReaderAt(r', m, 0)
    BY <1>1, <2>1, <2>2 DEF ReaderAt
  <2> QED BY <1>1, <1>2, <2>3 DEF ReaderInv
<1>6. w' \in Writers(size) /\ HoldsBits(w', <<>>, 0)
  <2>1. w' = [bytes |-> [k \in 0 .. size - 1 |-> byte],
              len |-> size, index |-> 0, current |-> 0, currentLen |-> 0]
    BY <1>1 DEF Writer!Reconfigured
  <2> HIDE DEF size
  <2>2. w' \in Writers(size)
    <3>1. byte \in Nat
      BY StreamAssumption DEF Byte
    <3> QED BY <2>1, <3>1 DEF Writers
  <2>3. w'.index = 0 /\ w'.current = 0 /\ w'.currentLen = 0
    BY <2>1
  <2>4. Spells(0, 0, <<>>, Width * 0)
    <3>1. 0 \in 0 .. 2^0 - 1
      BY PowerZero
    <3> QED BY <3>1 DEF Spells
  <2>5. HoldsBits(w', <<>>, 0)
    <3>1. 0 = Width * 0 + 0 /\ 0 \in 0 .. Width - 1
      BY <1>0
    <3>2. 0 = 2 * 0 /\ 0 .. 0 - 1 = {}
      OBVIOUS
    <3> QED BY <2>3, <2>4, <3>1, <3>2 DEF HoldsBits
  <2> QED BY <2>2, <2>5
<1>7. WriterInv'
  <2>1. HeldBy(w)'
    BY <1>1, <1>2, <1>6 DEF HeldBy
  <2> QED BY <2>1, <1>1 DEF WriterInv
<1> QED BY <1>4, <1>5, <1>7 DEF CodeInv

\* What an encode has to do with its message.
LEMMA EncodeFacts ==
    ASSUME IInv, CodeInv, InEncode
    PROVE  LET m == r.bytes
               n == Width * Len(m)
           IN  /\ m \in Buffers /\ n \in Nat /\ Size \in Nat /\ Order \in Nat
               /\ Rounds \in Nat /\ Len(sent) = Rate * Rounds
               /\ register = RegisterAt(AllBits(m), Rounds)
               /\ sent \in Seq({0, 1})
               /\ \A k \in 1 .. Len(sent) : sent[k] = CodeBit(m, k)
<1>1. r.bytes \in Buffers /\ Len(sent) = Rate * Rounds /\ i \in Nat
  BY DEF IInv
<1>2. Width * Len(r.bytes) \in Nat
  BY <1>1, ConstantFacts, OneMore
<1>3. Rounds \in Nat
  BY <1>1, <1>2 DEF Rounds
<1>4. Size \in Nat
  BY <1>1, SizeIsNat DEF Size
<1> QED BY <1>1, <1>2, <1>3, <1>4, ConstantFacts DEF CodeInv, RoundsInv

\* A round of either loop.
LEMMA RoundCodes ==
    ASSUME IInv, CodeInv, phase \in {"message", "zeros"},
           r'.bytes = r.bytes, Rounds < Width * Len(r.bytes) + (Order + 1),
           register' = Shifted(register, AllBits(r.bytes)[Rounds + 1]),
           Writer!Write(Packed(Table[register']), Rate),
           Rounds' = Rounds + 1
    PROVE  RoundsInv' /\ HeldBy(w)'
<1> DEFINE m == r.bytes
           n == Rounds
           size == Size
<1>1. /\ m \in Buffers /\ Width * Len(m) \in Nat /\ size \in Nat /\ Order \in Nat
      /\ n \in Nat /\ Len(sent) = Rate * n
      /\ register = RegisterAt(AllBits(m), n)
      /\ sent \in Seq({0, 1})
      /\ \A k \in 1 .. Len(sent) : sent[k] = CodeBit(m, k)
  <2>1. InEncode
    BY DEF InEncode
  <2> QED BY <2>1, EncodeFacts
<1>2. w \in Writers(size) /\ HoldsBits(w, sent, Len(sent))
  BY DEF CodeInv, WriterInv, HeldBy
<1>3. n < Width * Len(m) + (Order + 1)
  OBVIOUS
<1>4. register' = Shifted(register, AllBits(m)[n + 1])
  OBVIOUS
<1>5. Rounds' = n + 1 /\ r'.bytes = m /\ Size' = size
  BY DEF Size
<1> HIDE DEF m, n, size
<1>6. register' = RegisterAt(AllBits(m), n + 1)
  <2>1. AreBits(AllBits(m), n + 1)
    <3> DEFINE t == Width * Len(m)
    <3>1. t \in Nat /\ AreBits(AllBits(m), t + (Order + 1))
      BY <1>1, AllBitsAre
    <3>2. n < t + (Order + 1)
      BY <1>3
    <3> HIDE DEF t
    <3>3. n + 1 <= t + (Order + 1) /\ n + 1 \in Nat /\ t + (Order + 1) \in Nat
      BY <3>1, <3>2, <1>1
    <3> QED BY <3>1, <3>3, FewerBits
  <2>2. Shifted(RegisterAt(AllBits(m), n), AllBits(m)[n + 1]) = RegisterAt(AllBits(m), n + 1)
    BY <2>1, <1>1, ShiftedIsNext
  <2> QED BY <2>2, <1>1, <1>4
<1>7. /\ sent' \in Seq({0, 1})
      /\ \A k \in 1 .. Len(sent') : sent'[k] = CodeBit(m, k)
      /\ w' \in Writers(size)
      /\ HoldsBits(w', sent', Len(sent'))
  BY <1>1, <1>2, <1>3, <1>6, RoundWrites
<1>8. RoundsInv'
  BY <1>5, <1>6, <1>7 DEF RoundsInv
<1>9. HeldBy(w)'
  BY <1>5, <1>7 DEF HeldBy
<1> QED BY <1>8, <1>9

\* A round over a bit of the message writes the next output.
LEMMA MessageRoundCodes ==
    ASSUME IInv, CodeInv, MessageRound
    PROVE  CodeInv'
<1> DEFINE m == r.bytes
           n == Width * Len(m)
<1>1. /\ phase = "message" /\ phase' = "message" /\ i < n /\ i' = i + 1
      /\ Read(1)
      /\ register' = Shifted(register, last'.value)
      /\ Writer!Write(Packed(Table[register']), Rate)
  BY DEF MessageRound
<1>2. InEncode /\ Rounds = i /\ i \in Nat /\ m \in Buffers
  BY <1>1 DEF InEncode, Rounds, IInv
<1>3. n \in Nat /\ Order \in Nat /\ \A k \in 1 .. n : AllBits(m)[k] = BitAt(m, k - 1)
  BY <1>2, ConstantFacts, AllBitsAre
<1>4. ReaderAt(r, m, i)
  BY <1>1 DEF CodeInv, ReaderInv
<1>5. last'.value = BitAt(m, i) /\ ReaderAt(r', m, i + 1)
  BY <1>1, <1>2, <1>4, ReadsNextBit
<1>6. r'.bytes = m
  BY <1>5 DEF ReaderAt
<1>7. last'.value = AllBits(m)[Rounds + 1]
  <2>1. i + 1 \in 1 .. n /\ (i + 1) - 1 = i
    <3> HIDE DEF n
    <3> QED BY <1>1, <1>2, <1>3
  <2>2. AllBits(m)[i + 1] = BitAt(m, (i + 1) - 1)
    BY <2>1, <1>3
  <2> QED BY <2>1, <2>2, <1>2, <1>5
<1>8. Rounds < n + (Order + 1) /\ Rounds' = Rounds + 1
  <2>1. Rounds' = i + 1
    BY <1>1 DEF Rounds
  <2> HIDE DEF n
  <2> QED BY <2>1, <1>1, <1>2, <1>3
<1>9. RoundsInv' /\ HeldBy(w)'
  BY <1>1, <1>6, <1>7, <1>8, RoundCodes
<1>10. ReaderInv' /\ WriterInv'
  BY <1>1, <1>5, <1>6, <1>9 DEF ReaderInv, WriterInv
<1> QED BY <1>9, <1>10 DEF CodeInv

\* The end of the first loop changes no bits.
LEMMA MessageEndCodes ==
    ASSUME IInv, CodeInv, MessageEnd
    PROVE  CodeInv'
<1>1. /\ phase = "message" /\ phase' = "zeros" /\ ~ (i < Width * Len(r.bytes)) /\ i' = 0
      /\ r' = r /\ sent' = sent /\ w' = w /\ register' = register
  BY DEF MessageEnd, vars, writerVars
<1>2. InEncode /\ Rounds = i /\ i \in Nat /\ r.bytes \in Buffers /\ i <= Width * Len(r.bytes)
  BY <1>1 DEF InEncode, Rounds, IInv
<1>3. Width * Len(r.bytes) \in Nat
  BY <1>2, ConstantFacts, OneMore
<1>4. Rounds' = Rounds
  <2>1. Rounds' = Width * Len(r.bytes) + 0
    BY <1>1 DEF Rounds
  <2> QED BY <2>1, <1>1, <1>2, <1>3
<1>5. RoundsInv'
  BY <1>1, <1>2, <1>4 DEF CodeInv, RoundsInv
<1>6. HeldBy(w)'
  BY <1>1 DEF CodeInv, WriterInv, HeldBy, Size
<1>7. ReaderInv' /\ WriterInv'
  BY <1>1, <1>6 DEF ReaderInv, WriterInv
<1> QED BY <1>5, <1>7 DEF CodeInv

\* A zero round writes the next output of the tail.
LEMMA ZeroRoundCodes ==
    ASSUME IInv, CodeInv, ZeroRound
    PROVE  CodeInv'
<1> DEFINE m == r.bytes
           n == Width * Len(m)
<1>1. /\ phase = "zeros" /\ phase' = "zeros" /\ i < ZeroRounds /\ i' = i + 1 /\ r' = r
      /\ register' = Shifted(register, 0)
      /\ Writer!Write(Packed(Table[register']), Rate)
  BY DEF ZeroRound, vars
<1>2. InEncode /\ Rounds = n + i /\ i \in Nat /\ m \in Buffers
  BY <1>1 DEF InEncode, Rounds, IInv
<1>3. /\ n \in Nat /\ Order \in Nat
      /\ \A k \in n + 1 .. n + (Order + 1) : AllBits(m)[k] = 0
  BY <1>2, ConstantFacts, AllBitsAre
<1>4. Rounds' = n + (i + 1)
  BY <1>1 DEF Rounds
<1>5. r'.bytes = m
  BY <1>1
<1> HIDE DEF n
<1>6. Rounds + 1 \in n + 1 .. n + (Order + 1) /\ Rounds < n + (Order + 1) /\ Rounds' = Rounds + 1
  BY <1>1, <1>2, <1>3, <1>4 DEF ZeroRounds
<1>7. AllBits(m)[Rounds + 1] = 0
  BY <1>3, <1>6
<1>8. RoundsInv' /\ HeldBy(w)'
  BY <1>1, <1>5, <1>6, <1>7, RoundCodes DEF n
<1>9. ReaderInv' /\ WriterInv'
  BY <1>1, <1>8 DEF ReaderInv, WriterInv
<1> QED BY <1>8, <1>9 DEF CodeInv

\* The flush writes what is left.
LEMMA FinishCodes ==
    ASSUME IInv, CodeInv, Finish
    PROVE  CodeInv'
<1>1. /\ phase = "zeros" /\ phase' = "done" /\ ~ (i < ZeroRounds) /\ i' = i
      /\ r' = r /\ sent' = sent /\ w' = Writer!Flushed(w) /\ register' = register
  BY DEF Finish, Writer!FlushByte, vars
<1>2. InEncode /\ Rounds' = Rounds /\ Size' = Size
  BY <1>1 DEF InEncode, Rounds, Size
<1>3. RoundsInv'
  BY <1>1, <1>2 DEF CodeInv, RoundsInv
<1>4. HeldBy(w)
  BY <1>1 DEF CodeInv, WriterInv
<1>5. Len(sent) = encode_len(Len(r.bytes))
  <2>1. i = ZeroRounds
    BY <1>1, ConstantFacts DEF IInv, ZeroRounds
  <2>2. Rounds = Width * Len(r.bytes) + ZeroRounds
    BY <1>1, <2>1 DEF Rounds
  <2>3. Len(r.bytes) \in Nat /\ Len(sent) = Rate * Rounds
    BY <1>2 DEF IInv
  <2> QED BY <2>2, <2>3, LengthOfRounds
<1>6. w.currentLen # 0 => w.index < Size
  <2> SUFFICES ASSUME w.currentLen # 0 PROVE w.index < Size
    OBVIOUS
  <2>1. /\ Width \in Nat \ {0} /\ w.index \in Nat /\ w.currentLen \in 1 .. Width - 1
        /\ Len(sent) = Width * w.index + w.currentLen
    BY <1>4, EncoderFacts DEF HeldBy, HoldsBits
  <2>2. w.index < (Len(sent) + Width - 1) \div Width
    BY <2>1, RoomForLast
  <2> QED BY <2>2, <1>5 DEF Size, Ceil
<1>7. WriterInv'
  <2>1. w \in Writers(Size) /\ HoldsBits(w, sent, Len(sent))
    BY <1>4 DEF HeldBy
  <2> DEFINE x == w
  <2>2. x \in Writers(Size') /\ HoldsBits(x, sent', Len(sent'))
        /\ w' = Writer!Flushed(x) /\ (x.currentLen # 0 => x.index < Size')
    BY <2>1, <1>1, <1>2, <1>6
  <2>3. \E y : /\ y \in Writers(Size') /\ HoldsBits(y, sent', Len(sent'))
               /\ w' = Writer!Flushed(y) /\ (y.currentLen # 0 => y.index < Size')
    BY <2>2
  <2> QED BY <2>3, <1>1 DEF WriterInv, HeldBy
<1>8. ReaderInv'
  BY <1>1 DEF ReaderInv
<1> QED BY <1>3, <1>7, <1>8 DEF CodeInv

\* The register, the reader and the writer keep step with the codeword: the
\* rounds of cv_encode.c:33-59 over bit.c.
THEOREM EncodeKeepsStep == EncoderSpec => [](IInv /\ CodeInv)
<1>1. EncoderInit => CodeInv
  BY DEF EncoderInit, CodeInv, RoundsInv, ReaderInv, WriterInv, InEncode
<1>2. IInv /\ CodeInv /\ [EncoderNext]_encoderVars => CodeInv'
  <2> SUFFICES ASSUME IInv, CodeInv, [EncoderNext]_encoderVars PROVE CodeInv'
    OBVIOUS
  <2>1. CASE \E m \in Buffers, byte \in Fills : Start(m, byte)
    BY <2>1, StartCodes
  <2>2. CASE MessageRound
    BY <2>2, MessageRoundCodes
  <2>3. CASE MessageEnd
    BY <2>3, MessageEndCodes
  <2>4. CASE ZeroRound
    BY <2>4, ZeroRoundCodes
  <2>5. CASE Finish
    BY <2>5, FinishCodes
  <2>6. CASE OtherUse
    BY <2>6 DEF OtherUse, CodeInv, RoundsInv, ReaderInv, WriterInv, InEncode
  <2>7. CASE UNCHANGED encoderVars
    BY <2>7 DEF CodeInv, RoundsInv, ReaderInv, WriterInv, HeldBy, Size, InEncode, Rounds,
                encoderVars, vars, writerVars
  <2> QED
    BY <2>1, <2>2, <2>3, <2>4, <2>5, <2>6, <2>7 DEF EncoderNext
<1> QED
  BY <1>1, <1>2, RoundsAreWritten, PTL DEF EncoderSpec

\* cv_encode.c:48-57: the zeros leave nothing in the register, for every code
\* and every message.
THEOREM RegisterEndsEmpty == EncoderSpec => []EndsInStateZero
<1>1. IInv /\ CodeInv => EndsInStateZero
  <2> SUFFICES ASSUME IInv, CodeInv, phase = "done" PROVE register = 0
    BY DEF EndsInStateZero
  <2> DEFINE m == r.bytes
             n == Width * Len(m)
             k == n + (Order + 1)
  <2>1. InEncode
    BY DEF InEncode
  <2>2. /\ m \in Buffers /\ n \in Nat /\ Order \in Nat
        /\ register = RegisterAt(AllBits(m), Rounds)
    BY <2>1, EncodeFacts
  <2>3. Rounds = k
    BY DEF IInv, Rounds, ZeroRounds
  <2>4. /\ AreBits(AllBits(m), k)
        /\ \A j \in n + 1 .. k : AllBits(m)[j] = 0
    BY <2>2, AllBitsAre
  <2> HIDE DEF n, m
  <2>5. ASSUME NEW j \in 0 .. Order - 1 PROVE RecentBit(AllBits(m), k, j) = 0
    <3>1. k - j \in n + 1 .. k
      BY <2>2
    <3> HIDE DEF k
    <3> QED BY <3>1, <2>4 DEF RecentBit
  <2>6. k \in Nat
    BY <2>2
  <2> HIDE DEF k
  <2>7. RegisterAt(AllBits(m), k) = 0
    BY <2>4, <2>5, <2>6, RegisterEmptied
  <2> QED BY <2>2, <2>3, <2>7
<1> QED BY <1>1, EncodeKeepsStep, PTL

\* What is written at the end is the codeword.
LEMMA WrittenIsCodeword ==
    ASSUME IInv, CodeInv, phase = "done"
    PROVE  Flat(Encode(MessageBits(r.bytes))) = sent
<1> DEFINE m == r.bytes
           t == Width * Len(m) + (Order + 1)
           out == Encode(MessageBits(m))
           top == Rate * t
<1>1. InEncode
  BY DEF InEncode
<1>2. /\ m \in Buffers /\ Width * Len(m) \in Nat /\ Order \in Nat
      /\ Len(sent) = Rate * Rounds /\ sent \in Seq({0, 1})
      /\ \A k \in 1 .. Len(sent) : sent[k] = CodeBit(m, k)
  BY <1>1, EncodeFacts
<1>3. Rounds = t
  BY DEF IInv, Rounds, ZeroRounds
<1>4. Rate \in Nat \ {0} /\ t \in Nat /\ top \in Nat /\ top = t * Rate
  <2>1. t \in Nat
    BY <1>2
  <2> HIDE DEF t
  <2> QED BY <2>1, TrellisAssumption
<1>5. out = [k \in 1 .. t |-> Table[RegisterAt(AllBits(m), k)]]
  <2>1. out = Outs(AllBits(m))
    BY DEF Encode, AllBits
  <2>2. Len(AllBits(m)) = t
    BY <1>2, AllBitsAre
  <2> QED BY <2>1, <2>2 DEF Outs
<1>6. Len(sent) = top
  BY <1>2, <1>3
<1> HIDE DEF m, t, out, top
<1>7. Len(out) = t
  BY <1>4, <1>5
<1>8. Flat(out) = [k \in 1 .. top |-> out[((k - 1) \div Rate) + 1][((k - 1) % Rate) + 1]]
  BY <1>7 DEF Flat, top
<1>9. ASSUME NEW k \in 1 .. top
      PROVE  out[((k - 1) \div Rate) + 1][((k - 1) % Rate) + 1] = sent[k]
  <2> DEFINE a == (k - 1) \div Rate
  <2>1. k \in 1 .. t * Rate
    BY <1>4
  <2>2. a \in 0 .. t - 1
    BY <2>1, <1>4, PlaceSplit
  <2>3. sent[k] = Table[RegisterAt(AllBits(m), a + 1)][((k - 1) % Rate) + 1]
    BY <1>2, <1>6 DEF CodeBit
  <2> HIDE DEF a
  <2>4. a + 1 \in 1 .. t
    BY <2>2, <1>4
  <2>5. out[a + 1] = Table[RegisterAt(AllBits(m), a + 1)]
    BY <2>4, <1>5
  <2> QED BY <2>3, <2>5 DEF a
<1>10. sent = [k \in 1 .. top |-> sent[k]]
  BY <1>2, <1>6
<1> QED BY <1>8, <1>9, <1>10 DEF out, m

\* Whole bytes enough for n bits.
LEMMA BytesForBits ==
    ASSUME NEW q \in Nat \ {0}, NEW n \in Nat
    PROVE  n <= ((n + q - 1) \div q) * q
<1> DEFINE x == n + q - 1
           d == x \div q
<1>1. x \in Nat
  OBVIOUS
<1>2. d \in Nat /\ x = q * d + (x % q) /\ x % q \in 0 .. q - 1
  BY <1>1
<1>3. q * d = d * q /\ q * d \in Nat
  BY <1>2
<1> DEFINE p == q * d
           c == x % q
<1>4. p \in Nat /\ n + q - 1 = p + c /\ c \in 0 .. q - 1
  BY <1>2, <1>3
<1> HIDE DEF p, c
<1>5. n <= p
  BY <1>4
<1> QED BY <1>3, <1>5 DEF p

\* cv_encode.c:33-57 with bit.c: for every code and every message, each round
\* finds room for its bits in a buffer of encode_len bits, and the last one
\* leaves none.
THEOREM RoomCorrect == EncoderSpec => []RoomForEveryRound
<1>1. IInv /\ CodeInv => RoomForEveryRound
  <2> SUFFICES ASSUME IInv, CodeInv PROVE RoomForEveryRound
    OBVIOUS
  <2>1. ASSUME RoundDue PROVE w.index * Width + w.currentLen + Rate <= w.len * Width
    <3> DEFINE n == encode_len(Len(r.bytes))
               size == Size
               m == Len(sent)
    <3>1. InEncode /\ phase \in {"message", "zeros"} /\ r.bytes \in Buffers
      BY <2>1 DEF RoundDue, InEncode, IInv
    <3>2. m + Rate <= n
      BY <2>1, <3>1, BitsCounted
    <3>3. w \in Writers(size) /\ HoldsBits(w, sent, m)
      BY <3>1 DEF CodeInv, WriterInv, HeldBy
    <3>4. /\ w.len = size /\ m = Width * w.index + w.currentLen
          /\ w.index \in Nat /\ w.currentLen \in Nat
      BY <3>3, EncoderFacts DEF Writers, HoldsBits
    <3>5. size \in Nat /\ n \in Nat /\ size = (n + Width - 1) \div Width
      BY <3>1, SizeIsNat, LengthIsNat DEF Size, Ceil
    <3>6. n <= size * Width
      BY <3>5, EncoderFacts, BytesForBits
    <3> HIDE DEF n, size, m
    <3>7. Width * w.index = w.index * Width
      BY <3>4, EncoderFacts
    <3>8. size * Width \in Nat /\ Width * w.index \in Nat /\ Rate \in Nat
      BY <3>4, <3>5, EncoderFacts, ConstantFacts
    <3> DEFINE a == w.index * Width
               b == size * Width
               c == w.currentLen
    <3>9. a \in Nat /\ b \in Nat /\ c \in Nat /\ n \in Nat /\ a + c + Rate <= n /\ n <= b
      BY <3>2, <3>4, <3>5, <3>6, <3>7, <3>8
    <3> HIDE DEF a, b, c
    <3>10. a + c + Rate <= b
      BY <3>8, <3>9
    <3> QED BY <3>4, <3>10 DEF a, b, c
  <2>2. InEncode => /\ Len(sent) = Rate * Rounds
                    /\ phase = "done" => Len(sent) = encode_len(Len(r.bytes))
    BY BitsCounted
  <2> QED BY <2>1, <2>2 DEF RoomForEveryRound, InEncode, Rounds
<1> QED BY <1>1, EncodeKeepsStep, PTL

\* cv_encode.c:33-57 with bit.c: for every code, width of a byte and message,
\* the bits written are the codeword of the message, and the whole bytes of the
\* buffer hold them.
THEOREM CodewordIsWritten == EncoderSpec => []WritesCodeword
<1>1. IInv /\ CodeInv => WritesCodeword
  <2> SUFFICES ASSUME IInv, CodeInv, phase = "done" PROVE WritesCodeword
    BY DEF WritesCodeword
  <2>1. Flat(Encode(MessageBits(r.bytes))) = sent
    BY WrittenIsCodeword
  <2>2. InEncode
    BY DEF InEncode
  <2>3. Size \in Nat /\ sent \in Seq({0, 1})
    BY <2>2, EncodeFacts
  <2>4. PICK x : /\ HeldBy(x)
                 /\ w = Writer!Flushed(x)
                 /\ x.currentLen # 0 => x.index < Size
    BY DEF CodeInv, WriterInv
  <2>5. x \in Writers(Size) /\ HoldsBits(x, sent, Len(sent))
    BY <2>4 DEF HeldBy
  <2> DEFINE whole == (Len(sent) \div Width) * Width
             y == Writer!Flushed(x)
  <2>6. SubSeq(Writer!Stored(y, y.index), 1, whole) = SubSeq(sent, 1, whole)
    BY <2>3, <2>4, <2>5, FlushKeepsBytes
  <2>7. y = w
    BY <2>4
  <2> HIDE DEF y
  <2>8. SubSeq(Writer!Stored(w, w.index), 1, whole) = SubSeq(sent, 1, whole)
    BY <2>6, <2>7
  <2> QED BY <2>1, <2>8 DEF WritesCodeword
<1> QED BY <1>1, EncodeKeepsStep, PTL
=============================================================================

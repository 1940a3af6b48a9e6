--------------------------- MODULE BitStreamProofs ---------------------------
(***************************************************************************)
(* Bits survive the writer and the reader of bit.c, for every width of a   *)
(* byte, buffer, mix of writes and lengths of reads.  A number spells bits *)
(* if they are its digits, highest first; every step of the writer and the *)
(* reader, in whatever portions it works, keeps what is spelled.           *)
(***************************************************************************)
EXTENDS BitStream, Recursion

-----------------------------------------------------------------------------
(* Numbers and sequences.                                                  *)

\* One more round is Rate more bits.
LEMMA OneMore ==
    ASSUME NEW a \in Nat, NEW n \in Nat
    PROVE  /\ a * n \in Nat
           /\ a * (n + 1) = a * n + a
  OBVIOUS

\* More rounds are no fewer bits.
LEMMA NoFewer ==
    ASSUME NEW a \in Nat, NEW m \in Nat, NEW n \in Nat, m <= n
    PROVE  a * m <= a * n
  OBVIOUS

\* Sequences over different sets, one behind the other.
LEMMA Joined ==
    ASSUME NEW S, NEW T, NEW s \in Seq(S), NEW t \in Seq(T)
    PROVE  /\ s \o t \in Seq(S \cup T)
           /\ Len(s \o t) = Len(s) + Len(t)
<1>1. s \in Seq(S \cup T) /\ t \in Seq(S \cup T)
  OBVIOUS
<1> QED
  BY <1>1

\* The values of the second sequence come behind those of the first.
LEMMA JoinedAt ==
    ASSUME NEW S, NEW s \in Seq(S), NEW t \in Seq(S), NEW j \in 1 .. Len(t)
    PROVE  (s \o t)[Len(s) + j] = t[j]
<1>1. /\ Len(s) \in Nat /\ Len(t) \in Nat
      /\ Len(s) + j \in 1 .. Len(s) + Len(t) /\ ~ (Len(s) + j <= Len(s))
      /\ (Len(s) + j) - Len(s) = j
  OBVIOUS
<1> QED
  BY <1>1

-----------------------------------------------------------------------------
(* Digits.                                                                 *)

\* Shifted down, a number has its higher digits.
LEMMA BitsMovedDown ==
    ASSUME NEW x \in Nat, NEW a \in Nat
    PROVE  /\ x \div 2^a \in Nat
           /\ \A j \in Nat : Digit(x \div 2^a, j) = Digit(x, a + j)
<1> DEFINE good(e) == /\ x \div 2^e \in Nat
                      /\ \A j \in Nat : Digit(x \div 2^e, j) = Digit(x, e + j)
           S == {e \in Nat : good(e)}
<1>1. 0 \in S
  <2>1. x \div 2^0 = x /\ \A j \in Nat : 0 + j = j
    BY PowerZero
  <2> QED BY <2>1
<1>2. ASSUME NEW e \in Nat, e \in S PROVE e + 1 \in S
  <2> DEFINE m == 2^e
             y == x \div m
  <2>1. m \in Nat \ {0} /\ 2^(e + 1) = 2 * m
    BY PowerStep
  <2>2. y \in Nat /\ \A j \in Nat : Digit(y, j) = Digit(x, e + j)
    BY <1>2
  <2>3. x \div 2^(e + 1) = y \div 2
    <3> HIDE DEF m
    <3> QED BY <2>1, DivisionTwice
  <2> HIDE DEF y, m
  <2>4. y = 2 * (y \div 2) + (y % 2) /\ y \div 2 \in Nat /\ y % 2 \in {0, 1}
    BY <2>2
  <2> DEFINE h == y \div 2
             b == y % 2
  <2>5. h \in Nat /\ b \in {0, 1} /\ y = 2 * h + b
    BY <2>4
  <2> HIDE DEF h, b
  <2>6. \A k \in Nat : Digit(2 * h + b, k + 1) = Digit(h, k)
    BY <2>5, BitShiftedIn
  <2>7. ASSUME NEW j \in Nat PROVE Digit(h, j) = Digit(x, (e + 1) + j)
    <3>1. j + 1 \in Nat /\ e + (j + 1) = (e + 1) + j
      OBVIOUS
    <3> QED BY <3>1, <2>2, <2>5, <2>6
  <2> QED BY <2>3, <2>5, <2>7 DEF h
<1>3. a \in S
  <2> HIDE DEF S
  <2> QED BY <1>1, <1>2, SetInduction
<1> QED BY <1>3

\* One number above another of m digits: the digits of both.
LEMMA BitsJoined ==
    ASSUME NEW x \in Nat, NEW m \in Nat, NEW y \in 0 .. 2^m - 1
    PROVE  /\ x * 2^m + y \in Nat
           /\ \A j \in 0 .. m - 1 : Digit(x * 2^m + y, j) = Digit(y, j)
           /\ \A j \in Nat : Digit(x * 2^m + y, m + j) = Digit(x, j)
           /\ \A l \in Nat : x \in 0 .. 2^l - 1 => x * 2^m + y \in 0 .. 2^(l + m) - 1
<1> DEFINE p == 2^m
           z == x * p + y
<1>1. p \in Nat \ {0}
  BY PowerStep
<1>2. z \in Nat /\ z = p * x + y /\ y \in 0 .. p - 1
  <2>1. x * p \in Nat /\ x * p = p * x /\ y \in 0 .. p - 1
    BY <1>1
  <2> DEFINE q == x * p
  <2>2. q \in Nat /\ z = q + y
    BY <2>1
  <2> HIDE DEF q, p, z
  <2> QED BY <2>1, <2>2, <1>1 DEF q
<1>3. z \div p = x /\ z % p = y
  <2> HIDE DEF z, p
  <2> QED BY <1>1, <1>2, DivisionUnique
<1>4. ASSUME NEW j \in 0 .. m - 1 PROVE Digit(z, j) = Digit(y, j)
  <2> HIDE DEF z
  <2>1. Digit(z % 2^m, j) = Digit(z, j)
    BY <1>2, BitBelow
  <2> QED BY <2>1, <1>3
<1>5. ASSUME NEW j \in Nat PROVE Digit(z, m + j) = Digit(x, j)
  <2> HIDE DEF z
  <2>1. Digit(z \div 2^m, j) = Digit(z, m + j)
    BY <1>2, BitsMovedDown
  <2> QED BY <2>1, <1>3
<1>6. ASSUME NEW l \in Nat, x \in 0 .. 2^l - 1 PROVE z \in 0 .. 2^(l + m) - 1
  <2> DEFINE t == 2^l
  <2>1. t \in Nat \ {0} /\ 2^(l + m) = t * p
    <3>1. l + m \in Nat /\ l \in 0 .. l + m /\ (l + m) - l = m
      OBVIOUS
    <3>2. 2^l * 2^((l + m) - l) = 2^(l + m)
      BY <3>1, PowerSplit
    <3> QED BY <3>1, <3>2, PowerStep
  <2>2. x + 1 <= t /\ x \in Nat
    BY <1>6, <2>1
  <2> HIDE DEF t, p, z
  <2>3. p * (x + 1) <= p * t /\ p * (x + 1) = p * x + p /\ p * t = t * p
    BY <2>1, <2>2, <1>1, NoFewer, OneMore
  <2> DEFINE q == p * x
             u == t * p
  <2>4. q \in Nat /\ u \in Nat /\ q + p <= u /\ z = q + y
    BY <2>1, <2>2, <2>3, <1>1, <1>2
  <2> HIDE DEF q, u
  <2>5. z \in 0 .. u - 1
    BY <2>4, <1>1, <1>2
  <2> QED BY <2>1, <2>5 DEF u
<1> QED BY <1>2, <1>4, <1>5, <1>6 DEF z, p

-----------------------------------------------------------------------------
(* The writer.                                                             *)

\* The place n of a sequence of bytes of q bits is in byte a, with l bits left.
Place(n, q, a, l) == n = q * a + (q - l)

\* The reader x has given n bits of the message m and is in the byte of the
\* next one, or just past the byte of the last.
ReaderAt(x, m, n) ==
    /\ DOMAIN x = {"bytes", "index", "current", "currentLen"}
    /\ x.bytes = m
    /\ x.index \in Nat /\ x.currentLen \in 0 .. Width
    /\ x.current = m[x.index + 1]
    /\ Place(n, Width, x.index, x.currentLen)

\* A place's byte and bit are its quotient and its remainder.
LEMMA PlaceOf ==
    ASSUME NEW q \in Nat \ {0}, NEW a \in Nat, NEW l \in 1 .. q, NEW n \in Nat,
           Place(n, q, a, l)
    PROVE  /\ n \div q = a /\ q - 1 - (n % q) = l - 1
           /\ l - 1 \in 0 .. q /\ l - 1 \in Nat
           /\ Place(n + 1, q, a, l - 1)
           /\ \A k \in Nat : n < q * k => a < k
<1> DEFINE c == q - l
           p == q * a
<1>1. c \in 0 .. q - 1 /\ n = p + c /\ p \in Nat
  BY DEF Place
<1>2. n \div q = a /\ n % q = c
  <2>1. n = q * a + c
    BY DEF Place
  <2>2. c \in 0 .. q - 1 /\ n \in Int /\ a \in Int
    BY <1>1
  <2> HIDE DEF c, p
  <2> QED BY <2>1, <2>2, DivisionUnique
<1>3. q - 1 - c = l - 1 /\ l - 1 \in 0 .. q /\ l - 1 \in Nat
  OBVIOUS
<1>4. n + 1 = p + (q - (l - 1))
  <2> HIDE DEF p
  <2> QED BY <1>1
<1>5. ASSUME NEW k \in Nat, n < q * k PROVE a < k
  <2> SUFFICES ASSUME k <= a PROVE FALSE
    OBVIOUS
  <2>1. q * k <= p /\ q * k \in Nat
    BY NoFewer
  <2> HIDE DEF p, c
  <2> QED BY <2>1, <1>1, <1>5
<1> QED BY <1>2, <1>3, <1>4, <1>5 DEF Place

\* A writer over a buffer of n bytes.
Writers(n) ==
    [bytes : [0 .. n - 1 -> Nat], len : {n},
     index : Nat, current : Nat, currentLen : Nat]

\* The l bits of x, highest first, are those of s behind place p.
Spells(x, l, s, p) ==
    /\ x \in 0 .. 2^l - 1
    /\ \A j \in 1 .. l : Digit(x, l - j) = s[p + j]

\* The closed bytes and the byte under way hold the first n bits of s.
HoldsBits(x, s, n) ==
    /\ x.index \in Nat /\ x.currentLen \in 0 .. Width - 1
    /\ n = Width * x.index + x.currentLen
    /\ \A a \in 0 .. x.index - 1 : Spells(x.bytes[a], Width, s, Width * a)
    /\ \E c \in Nat : /\ x.current = 2 * c
                      /\ Spells(c, x.currentLen, s, Width * x.index)

\* One bit more.
LEMMA SpellsOneMore ==
    ASSUME NEW l \in Nat, NEW x, NEW s, NEW p, Spells(x, l, s, p),
           NEW b \in {0, 1}, s[p + (l + 1)] = b
    PROVE  Spells(2 * x + b, l + 1, s, p) /\ 2 * x + b \in Nat
<1>1. x \in 0 .. 2^l - 1 /\ \A j \in 1 .. l : Digit(x, l - j) = s[p + j]
  BY DEF Spells
<1>2. x \in Nat
  <2>1. 2^l \in Nat
    BY PowerStep
  <2> QED BY <2>1, <1>1
<1> DEFINE y == 2 * x + b
<1>3. /\ y \in 0 .. 2^(l + 1) - 1
      /\ Digit(y, 0) = b
      /\ \A k \in Nat : Digit(y, k + 1) = Digit(x, k)
  BY <1>1, <1>2, BitShiftedIn
<1>4. y \in Nat
  BY <1>2
<1> HIDE DEF y
<1>5. ASSUME NEW j \in 1 .. l + 1 PROVE Digit(y, (l + 1) - j) = s[p + j]
  <2>1. CASE j = l + 1
    <3>1. (l + 1) - j = 0
      BY <2>1
    <3> QED BY <2>1, <3>1, <1>3
  <2>2. CASE j # l + 1
    <3>1. j \in 1 .. l /\ (l - j) + 1 = (l + 1) - j /\ l - j \in Nat
      BY <2>2
    <3>2. Digit(y, (l - j) + 1) = Digit(x, l - j)
      BY <1>3, <3>1
    <3>3. Digit(x, l - j) = s[p + j]
      BY <1>1, <3>1
    <3> QED BY <3>1, <3>2, <3>3
  <2> QED BY <2>1, <2>2
<1> QED BY <1>3, <1>4, <1>5 DEF Spells, y

\* What x says of its lowest l digits, whatever is above them.
Shows(x, l, s, p) == x \in Nat /\ \A j \in 1 .. l : Digit(x, l - j) = s[p + j]

\* Cut out of the middle, digits are the bits from there.
LEMMA SpellsMiddle ==
    ASSUME NEW l \in Nat, NEW x, NEW s, NEW p \in Nat, Shows(x, l, s, p),
           NEW k \in Nat, NEW e \in Nat, k + e <= l
    PROVE  Spells((x \div 2^e) % 2^k, k, s, p + (l - (k + e)))
<1> DEFINE y == x \div 2^e
           z == y % 2^k
           u == l - (k + e)
<1>1. x \in Nat /\ \A j \in 1 .. l : Digit(x, l - j) = s[p + j]
  BY DEF Shows
<1>2. y \in Nat /\ \A j \in Nat : Digit(y, j) = Digit(x, e + j)
  BY <1>1, BitsMovedDown
<1> HIDE DEF y
<1>3. z \in 0 .. 2^k - 1 /\ \A j \in 0 .. k - 1 : Digit(z, j) = Digit(y, j)
  BY <1>2, BitBelow
<1> HIDE DEF z
<1>4. ASSUME NEW j \in 1 .. k PROVE Digit(z, k - j) = s[(p + u) + j]
  <2>1. k - j \in 0 .. k - 1 /\ k - j \in Nat
    OBVIOUS
  <2>2. u + j \in 1 .. l /\ l - (u + j) = e + (k - j) /\ p + (u + j) = (p + u) + j
    OBVIOUS
  <2>3. Digit(x, l - (u + j)) = s[p + (u + j)]
    BY <2>2, <1>1
  <2> HIDE DEF u
  <2> QED BY <2>1, <2>2, <2>3, <1>2, <1>3
<1> QED BY <1>3, <1>4 DEF Spells, z, y, u

\* Joined, two numbers spell one after the other.
LEMMA SpellsJoined ==
    ASSUME NEW l \in Nat, NEW m \in Nat, NEW x, NEW y, NEW s, NEW p \in Nat,
           Spells(x, l, s, p), Spells(y, m, s, p + l)
    PROVE  Spells(x * 2^m + y, l + m, s, p)
<1> DEFINE z == x * 2^m + y
<1>1. /\ x \in 0 .. 2^l - 1 /\ \A j \in 1 .. l : Digit(x, l - j) = s[p + j]
      /\ y \in 0 .. 2^m - 1 /\ \A j \in 1 .. m : Digit(y, m - j) = s[(p + l) + j]
  BY DEF Spells
<1>2. x \in Nat
  <2>1. 2^l \in Nat
    BY PowerStep
  <2> QED BY <2>1, <1>1
<1>3. /\ \A j \in 0 .. m - 1 : Digit(z, j) = Digit(y, j)
      /\ \A j \in Nat : Digit(z, m + j) = Digit(x, j)
      /\ z \in 0 .. 2^(l + m) - 1
  BY <1>1, <1>2, BitsJoined
<1> HIDE DEF z
<1>4. ASSUME NEW j \in 1 .. l + m PROVE Digit(z, (l + m) - j) = s[p + j]
  <2>1. CASE j <= l
    <3>1. j \in 1 .. l /\ l - j \in Nat /\ (l + m) - j = m + (l - j)
      BY <2>1
    <3> QED BY <3>1, <1>1, <1>3
  <2>2. CASE j > l
    <3>1. /\ j - l \in 1 .. m /\ m - (j - l) \in 0 .. m - 1
          /\ (l + m) - j = m - (j - l) /\ (p + l) + (j - l) = p + j
      BY <2>2
    <3>2. Digit(y, m - (j - l)) = s[(p + l) + (j - l)]
      BY <3>1, <1>1
    <3> QED BY <3>1, <3>2, <1>3
  <2> QED BY <2>1, <2>2
<1> QED BY <1>3, <1>4 DEF Spells, z

\* bit.c:38-51: a bit closes the byte under way or makes it longer.
LEMMA PutCases ==
    ASSUME NEW n \in Nat, NEW x \in Writers(n), NEW b \in {0, 1}
    PROVE  LET byte == Writer!OrBit(x.current, b)
               y == Writer!Put1(x, b)
           IN  /\ byte \in Nat
               /\ y \in Writers(n)
               /\ x.currentLen + 1 = Width =>
                      /\ y.index = x.index + 1 /\ y.current = 0 /\ y.currentLen = 0
                      /\ \A a \in 0 .. n - 1 :
                             y.bytes[a] = IF a = x.index THEN byte ELSE x.bytes[a]
               /\ x.currentLen + 1 # Width =>
                      /\ y.index = x.index /\ y.current = (2 * byte) % 2^Width
                      /\ y.currentLen = x.currentLen + 1
                      /\ y.bytes = x.bytes
<1> DEFINE byte == Writer!OrBit(x.current, b)
           y == Writer!Put1(x, b)
<1>0. /\ x.bytes \in [0 .. n - 1 -> Nat] /\ x.len = n
      /\ x.index \in Nat /\ x.current \in Nat /\ x.currentLen \in Nat
      /\ DOMAIN x = {"bytes", "len", "index", "current", "currentLen"}
  BY DEF Writers
<1>1. byte \in Nat
  BY <1>0 DEF Writer!OrBit
<1>2. y = IF x.currentLen + 1 = Width
          THEN [x EXCEPT !.bytes[x.index] = byte, !.index = @ + 1,
                         !.current = 0, !.currentLen = 0]
          ELSE [x EXCEPT !.current = (2 * byte) % 2^Width, !.currentLen = @ + 1]
  BY DEF Writer!Put1, Writer!Truncated
<1> HIDE DEF byte, y
<1>3. CASE x.currentLen + 1 = Width
  <2> DEFINE B == [x.bytes EXCEPT ![x.index] = byte]
  <2>1. B \in [0 .. n - 1 -> Nat]
        /\ \A a \in 0 .. n - 1 : B[a] = IF a = x.index THEN byte ELSE x.bytes[a]
    BY <1>0, <1>1
  <2>2. y = [x EXCEPT !.bytes = B, !.index = @ + 1, !.current = 0, !.currentLen = 0]
    BY <1>2, <1>3
  <2> HIDE DEF B
  <2>3. y = [bytes |-> B, len |-> n, index |-> x.index + 1, current |-> 0, currentLen |-> 0]
    BY <2>2, <1>0 DEF Writers
  <2>4. x.index + 1 \in Nat
    BY <1>0
  <2>5. y \in Writers(n)
    BY <2>1, <2>3, <2>4 DEF Writers
  <2>6. y.index = x.index + 1 /\ y.current = 0 /\ y.currentLen = 0 /\ y.bytes = B
    BY <2>3
  <2> QED BY <1>1, <1>3, <2>1, <2>5, <2>6 DEF byte, y
<1>4. CASE x.currentLen + 1 # Width
  <2> DEFINE t == (2 * byte) % 2^Width
  <2>1. t \in Nat
    <3> DEFINE m == 2^Width
    <3>1. m \in Nat \ {0}
      BY WidthAssumption, PowerStep
    <3> HIDE DEF m
    <3>2. (2 * byte) % m \in Nat
      BY <3>1, <1>1
    <3> QED BY <3>2 DEF m
  <2>2. y = [x EXCEPT !.current = t, !.currentLen = @ + 1]
    BY <1>2, <1>4
  <2> HIDE DEF t
  <2>3. y = [bytes |-> x.bytes, len |-> n, index |-> x.index, current |-> t,
             currentLen |-> x.currentLen + 1]
    BY <2>2, <1>0 DEF Writers
  <2>4. x.currentLen + 1 \in Nat
    BY <1>0
  <2>5. y \in Writers(n)
    BY <2>1, <2>3, <2>4, <1>0 DEF Writers
  <2>6. /\ y.index = x.index /\ y.current = t /\ y.currentLen = x.currentLen + 1
        /\ y.bytes = x.bytes
    BY <2>3
  <2> QED BY <1>1, <1>4, <2>5, <2>6 DEF t, byte, y
<1> QED BY <1>3, <1>4

\* A place among l bits leaves the others free.
LEMMA PlaceFrom ==
    ASSUME NEW q \in Nat \ {0}, NEW a \in Nat, NEW l \in 0 .. q - 1, NEW n,
           n = q * a + l
    PROVE  n \in Nat /\ q - l \in 1 .. q /\ Place(n, q, a, q - l)
<1> DEFINE p == q * a
<1>1. p \in Nat /\ n = p + l
  OBVIOUS
<1> HIDE DEF p
<1>2. n \in Nat /\ q - l \in 1 .. q /\ n = p + (q - (q - l))
  BY <1>1
<1> QED BY <1>2 DEF Place, p

\* Within the buffer, the writer holds one bit more after each.
LEMMA PutHolds ==
    ASSUME NEW size \in Nat, NEW x \in Writers(size), NEW s, NEW n \in Nat,
           HoldsBits(x, s, n), n < Width * size, s[n + 1] \in {0, 1}
    PROVE  HoldsBits(Writer!Put1(x, s[n + 1]), s, n + 1)
<1> DEFINE b == s[n + 1]
           byte == Writer!OrBit(x.current, b)
           y == Writer!Put1(x, b)
           cl == x.currentLen
           p == Width * x.index
<1>0. Width \in Nat \ {0} /\ Width \in Nat /\ b \in {0, 1}
  BY WidthAssumption
<1>1. /\ x.index \in Nat /\ cl \in 0 .. Width - 1 /\ cl \in Nat
      /\ n = p + cl /\ p \in Nat
      /\ \A a \in 0 .. x.index - 1 : Spells(x.bytes[a], Width, s, Width * a)
  <2>1. /\ x.index \in Nat /\ cl \in 0 .. Width - 1 /\ n = p + cl
        /\ \A a \in 0 .. x.index - 1 : Spells(x.bytes[a], Width, s, Width * a)
    BY DEF HoldsBits
  <2>2. p \in Nat
    BY <2>1, <1>0
  <2> HIDE DEF p
  <2> QED BY <2>1, <2>2, <1>0
<1>2. PICK c \in Nat : x.current = 2 * c /\ Spells(c, cl, s, p)
  BY DEF HoldsBits
<1>3. x.index < size
  <2>1. n \in Nat /\ Width - cl \in 1 .. Width /\ Place(n, Width, x.index, Width - cl)
    BY <1>0, <1>1, PlaceFrom
  <2>2. \A k \in Nat : n < Width * k => x.index < k
    <3> HIDE DEF cl, p
    <3>1. \A l \in 1 .. Width : Place(n, Width, x.index, l) =>
              \A k \in Nat : n < Width * k => x.index < k
      BY <2>1, <1>0, <1>1, PlaceOf
    <3> QED BY <2>1, <3>1
  <2> QED BY <2>2
<1>4. byte = 2 * c + b
  <2>1. (2 * c) % 2 = 0
    OBVIOUS
  <2> QED BY <1>2, <2>1 DEF Writer!OrBit
<1>5. Spells(byte, cl + 1, s, p) /\ byte \in Nat
  <2>1. p + (cl + 1) = n + 1
    <3> HIDE DEF p, cl
    <3> QED BY <1>1
  <2>2. s[p + (cl + 1)] = b
    BY <2>1
  <2> HIDE DEF b, cl, p, byte
  <2> QED BY <2>2, <1>0, <1>1, <1>2, <1>4, SpellsOneMore
<1>6. /\ cl + 1 = Width =>
             /\ y.index = x.index + 1 /\ y.current = 0 /\ y.currentLen = 0
             /\ \A a \in 0 .. size - 1 :
                    y.bytes[a] = IF a = x.index THEN byte ELSE x.bytes[a]
      /\ cl + 1 # Width =>
             /\ y.index = x.index /\ y.current = (2 * byte) % 2^Width
             /\ y.currentLen = cl + 1
             /\ y.bytes = x.bytes
  <2> HIDE DEF b
  <2> QED BY <1>0, PutCases
<1> HIDE DEF y, byte, b
<1>7. CASE cl + 1 = Width
  <2>1. /\ y.index = x.index + 1 /\ y.current = 0 /\ y.currentLen = 0
        /\ \A a \in 0 .. size - 1 :
               y.bytes[a] = IF a = x.index THEN byte ELSE x.bytes[a]
    BY <1>6, <1>7
  <2>2. n + 1 = Width * (x.index + 1) + 0
    <3>1. Width * (x.index + 1) = p + Width
      BY <1>0, <1>1
    <3> HIDE DEF p, cl
    <3> QED BY <3>1, <1>0, <1>1, <1>7
  <2>3. ASSUME NEW a \in 0 .. y.index - 1 PROVE Spells(y.bytes[a], Width, s, Width * a)
    <3>1. a \in 0 .. size - 1 /\ (a # x.index => a \in 0 .. x.index - 1)
      <4> HIDE DEF p, cl
      <4> QED BY <2>1, <1>1, <1>3
    <3>2. CASE a = x.index
      BY <3>1, <3>2, <2>1, <1>5, <1>7
    <3>3. CASE a # x.index
      BY <3>1, <3>3, <2>1, <1>1
    <3> QED BY <3>2, <3>3
  <2>4. \E d \in Nat : y.current = 2 * d /\ Spells(d, y.currentLen, s, Width * y.index)
    <3>1. Spells(0, 0, s, Width * y.index)
      <4>1. 0 \in 0 .. 2^0 - 1
        BY PowerZero
      <4> QED BY <4>1 DEF Spells
    <3>2. y.current = 2 * 0
      BY <2>1
    <3> QED BY <3>1, <3>2, <2>1
  <2>5. /\ y.index \in Nat /\ y.currentLen \in 0 .. Width - 1
        /\ n + 1 = Width * y.index + y.currentLen
    BY <2>1, <2>2, <1>0, <1>1
  <2>6. HoldsBits(y, s, n + 1)
    BY <2>3, <2>4, <2>5 DEF HoldsBits
  <2> QED BY <2>6 DEF y, b
<1>8. CASE cl + 1 # Width
  <2>1. /\ y.index = x.index /\ y.current = (2 * byte) % 2^Width
        /\ y.currentLen = cl + 1 /\ y.bytes = x.bytes
    BY <1>6, <1>8
  <2>2. (2 * byte) % 2^Width = 2 * byte
    <3> DEFINE m == 2^Width
               k == 2^(cl + 1)
    <3>1. byte \in 0 .. k - 1
      BY <1>5 DEF Spells
    <3>2. k \in Nat /\ 2^((cl + 1) + 1) = 2 * k /\ m \in Nat \ {0}
      <4>1. cl + 1 \in Nat
        BY <1>1
      <4> QED BY <4>1, <1>0, PowerStep
    <3>3. 2^((cl + 1) + 1) <= m
      <4>1. (cl + 1) + 1 \in Nat /\ (cl + 1) + 1 <= Width
        <5> HIDE DEF p, cl
        <5> QED BY <1>0, <1>1, <1>8
      <4> QED BY <4>1, <1>0, PowerOrder
    <3> HIDE DEF m, k
    <3> DEFINE z == 2 * byte
    <3>4. z \in 0 .. m - 1 /\ z \in Int /\ z = m * 0 + z
      BY <3>1, <3>2, <3>3
    <3> HIDE DEF z
    <3>5. z % m = z
      BY <3>2, <3>4
    <3> QED BY <3>5 DEF z, m
  <2>3. \E d \in Nat : y.current = 2 * d /\ Spells(d, y.currentLen, s, Width * y.index)
    BY <2>1, <2>2, <1>5
  <2>4. /\ y.index \in Nat /\ y.currentLen \in 0 .. Width - 1
        /\ n + 1 = Width * y.index + y.currentLen
    <3>1. cl + 1 \in 0 .. Width - 1 /\ n + 1 = p + (cl + 1)
      <4> HIDE DEF p, cl
      <4> QED BY <1>0, <1>1, <1>8
    <3> QED BY <3>1, <2>1, <1>1
  <2>5. HoldsBits(y, s, n + 1)
    BY <2>1, <2>3, <2>4, <1>1 DEF HoldsBits
  <2> QED BY <2>5 DEF y, b
<1> QED BY <1>7, <1>8

\* The bits of a sequence behind place n.
Follow(s, n, bits, q) == \A j \in 1 .. q : bits[j] = s[n + j]

\* bit.c:31-36: so it does after a value of q bits.
LEMMA PutAllHolds ==
    ASSUME NEW size \in Nat, NEW x \in Writers(size), NEW s, NEW n \in Nat,
           HoldsBits(x, s, n), NEW q \in Nat, n + q <= Width * size,
           NEW bits \in [1 .. q -> {0, 1}], Follow(s, n, bits, q)
    PROVE  /\ Writer!PutAll(x, bits) \in Writers(size)
           /\ HoldsBits(Writer!PutAll(x, bits), s, n + q)
<1> DEFINE T == Writers(size)
           g == [u \in (1 .. q) \X T |-> Writer!Put1(u[2], bits[u[1]])]
           Is(t) == t = [k \in 0 .. q |-> IF k = 0 THEN x ELSE Writer!Put1(t[k - 1], bits[k])]
           W == CHOOSE t : Is(t)
<1>0. Len(bits) = q
  OBVIOUS
<1>1. ASSUME NEW j \in 1 .. q, NEW u \in T
      PROVE  g[<<j, u>>] = Writer!Put1(u, bits[j]) /\ Writer!Put1(u, bits[j]) \in T
  <2>1. g[<<j, u>>] = Writer!Put1(u, bits[j])
    OBVIOUS
  <2>2. bits[j] \in {0, 1}
    OBVIOUS
  <2>3. Writer!Put1(u, bits[j]) \in T
    BY <2>2, PutCases
  <2> QED BY <2>1, <2>3
<1>2. PICK f : Follows(f, g, q, T, x)
  <2>1. StepOn(g, q, T)
    <3> HIDE DEF g, T
    <3>1. \A j \in 1 .. q, u \in T : g[<<j, u>>] \in T
      BY <1>1
    <3> QED BY <3>1 DEF StepOn
  <2>2. x \in T
    OBVIOUS
  <2> HIDE DEF g, T
  <2> QED BY <2>1, <2>2, RecursionExists
<1>3. /\ f \in [0 .. q -> T] /\ f[0] = x
      /\ \A j \in 1 .. q : f[j] = Writer!Put1(f[j - 1], bits[j])
  <2> HIDE DEF g, T
  <2>1. f \in [0 .. q -> T] /\ f[0] = x /\ \A j \in 1 .. q : f[j] = g[<<j, f[j - 1]>>]
    BY <1>2 DEF Follows
  <2>2. ASSUME NEW j \in 1 .. q PROVE f[j] = Writer!Put1(f[j - 1], bits[j])
    <3>1. f[j - 1] \in T
      BY <2>1
    <3> QED BY <3>1, <2>1, <1>1
  <2> QED BY <2>1, <2>2
<1>4. Is(f)
  <2> HIDE DEF g, T
  <2>1. \A k \in 0 .. q : f[k] = IF k = 0 THEN x ELSE Writer!Put1(f[k - 1], bits[k])
    BY <1>3
  <2>2. f = [k \in 0 .. q |-> f[k]]
    BY <1>3
  <2> QED BY <2>1, <2>2
<1>5. Is(W)
  <2> HIDE DEF Is
  <2> QED BY <1>4
<1>6. Writer!PutAll(x, bits) = W[q]
  BY <1>0 DEF Writer!PutAll
<1> HIDE DEF W, g
<1>7. W = [k \in 0 .. q |-> IF k = 0 THEN x ELSE Writer!Put1(W[k - 1], bits[k])]
  BY <1>5
<1> HIDE DEF T
<1> DEFINE A == {k \in Nat : k <= q => W[k] \in T /\ HoldsBits(W[k], s, n + k)}
<1>8. 0 \in A
  <2>1. W[0] = x /\ n + 0 = n /\ x \in T
    BY <1>7 DEF T
  <2> QED BY <2>1
<1>9. ASSUME NEW k \in Nat, k \in A PROVE k + 1 \in A
  <2> SUFFICES ASSUME k + 1 <= q
               PROVE  W[k + 1] \in T /\ HoldsBits(W[k + 1], s, n + (k + 1))
    OBVIOUS
  <2>1. k + 1 \in 1 .. q /\ k + 1 \in 0 .. q /\ (k + 1) - 1 = k /\ k <= q /\ k + 1 # 0
    OBVIOUS
  <2>2. W[k] \in T /\ HoldsBits(W[k], s, n + k)
    BY <1>9, <2>1
  <2>3. W[k + 1] = Writer!Put1(W[k], bits[k + 1])
    BY <1>7, <2>1
  <2>4. bits[k + 1] \in {0, 1} /\ bits[k + 1] = s[n + (k + 1)]
    BY <2>1 DEF Follow
  <2>5. W[k + 1] \in T
    BY <1>1, <2>1, <2>2, <2>3
  <2> DEFINE e == n + k
             u == W[k]
  <2>6. e \in Nat /\ n + (k + 1) = e + 1 /\ e < Width * size
    <3> DEFINE m == Width * size
    <3>1. m \in Nat /\ n + q <= m
      BY WidthAssumption
    <3> HIDE DEF m
    <3>2. e < m
      BY <3>1, <2>1
    <3> QED BY <3>2 DEF m
  <2>7. u \in Writers(size) /\ HoldsBits(u, s, e) /\ s[e + 1] \in {0, 1}
    BY <2>2, <2>4, <2>6 DEF T
  <2> HIDE DEF e, u
  <2>8. HoldsBits(Writer!Put1(u, s[e + 1]), s, e + 1)
    BY <2>6, <2>7, PutHolds
  <2> QED BY <2>3, <2>4, <2>5, <2>6, <2>8 DEF u
<1>10. q \in A
  <2> HIDE DEF A
  <2> QED BY <1>8, <1>9, SetInduction
<1> QED BY <1>6, <1>10 DEF T

\* Only the bits held matter.
LEMMA HoldsAgree ==
    ASSUME NEW x, NEW s, NEW t, NEW n \in Nat, HoldsBits(x, s, n),
           \A k \in 1 .. n : s[k] = t[k]
    PROVE  HoldsBits(x, t, n)
<1> DEFINE cl == x.currentLen
           p == Width * x.index
<1>0. Width \in Nat \ {0} /\ Width \in Nat
  BY WidthAssumption
<1>1. /\ x.index \in Nat /\ cl \in 0 .. Width - 1
      /\ n = p + cl /\ p \in Nat
      /\ \A a \in 0 .. x.index - 1 : Spells(x.bytes[a], Width, s, Width * a)
  <2>1. /\ x.index \in Nat /\ cl \in 0 .. Width - 1 /\ n = p + cl
        /\ \A a \in 0 .. x.index - 1 : Spells(x.bytes[a], Width, s, Width * a)
    BY DEF HoldsBits
  <2>2. p \in Nat
    BY <2>1, <1>0
  <2> QED BY <2>1, <2>2
<1>2. PICK c \in Nat : x.current = 2 * c /\ Spells(c, cl, s, p)
  BY DEF HoldsBits
<1>3. ASSUME NEW a \in 0 .. x.index - 1 PROVE Spells(x.bytes[a], Width, t, Width * a)
  <2>1. a \in Nat /\ a + 1 \in Nat /\ a + 1 <= x.index
    <3> HIDE DEF p, cl
    <3> QED BY <1>1
  <2>2. Width * (a + 1) <= p /\ Width * (a + 1) = Width * a + Width /\ Width * a \in Nat
    BY <2>1, <1>0, <1>1, NoFewer, OneMore
  <2> DEFINE k == Width * a
  <2>3. k \in Nat /\ k + Width <= n
    <3> HIDE DEF k, p, cl
    <3>1. k + Width <= p /\ k \in Nat
      BY <2>2, <1>0 DEF k
    <3> QED BY <3>1, <1>0, <1>1
  <2> HIDE DEF k
  <2>4. \A j \in 1 .. Width : k + j \in 1 .. n
    BY <2>3, <1>0
  <2>5. Spells(x.bytes[a], Width, s, k)
    BY <1>1 DEF k
  <2>6. Spells(x.bytes[a], Width, t, k)
    BY <2>4, <2>5 DEF Spells
  <2> QED BY <2>6 DEF k
<1>4. Spells(c, cl, t, p)
  <2> HIDE DEF p, cl
  <2>1. \A j \in 1 .. cl : p + j \in 1 .. n
    BY <1>0, <1>1
  <2> QED BY <2>1, <1>2 DEF Spells
<1> QED BY <1>1, <1>2, <1>3, <1>4 DEF HoldsBits

-----------------------------------------------------------------------------
(* Lists of bits.                                                          *)

\* m bits of a list from place a on.
LEMMA CutFacts ==
    ASSUME NEW q \in Nat, NEW l \in [1 .. q -> {0, 1}], NEW a \in Nat, NEW m \in Nat,
           a + m <= q
    PROVE  LET u == SubSeq(l, a + 1, a + m)
           IN  /\ u \in [1 .. m -> {0, 1}] /\ Len(u) = m
               /\ \A j \in 1 .. m : u[j] = l[a + j]
<1> DEFINE u == SubSeq(l, a + 1, a + m)
<1>1. l \in Seq({0, 1}) /\ Len(l) = q
  OBVIOUS
<1>2. u = [j \in 1 .. m |-> l[a + j]]
  <2>1. (a + m) - (a + 1) + 1 = m /\ \A j \in 1 .. m : (a + 1) + j - 1 = a + j
    OBVIOUS
  <2>2. u \in Seq({0, 1}) /\ Len(u) = m /\ \A j \in 1 .. m : u[j] = l[a + j]
    BY <1>1, <2>1
  <2>3. DOMAIN u = 1 .. m
    BY <2>2
  <2> QED BY <2>2, <2>3
<1>3. \A j \in 1 .. m : l[a + j] \in {0, 1}
  <2> SUFFICES ASSUME NEW j \in 1 .. m PROVE l[a + j] \in {0, 1}
    OBVIOUS
  <2>1. a + j \in 1 .. q
    OBVIOUS
  <2> QED BY <2>1
<1> HIDE DEF u
<1>4. u \in [1 .. m -> {0, 1}]
  BY <1>2, <1>3
<1>5. Len(u) = m
  BY <1>4
<1> QED BY <1>2, <1>4, <1>5 DEF u

\* bit.c:73-80, 124-128, 159-167, 204-210: a run of q bits pushed into a byte
\* under way, which is one place up, spells them behind what was there.
LEMMA PushSpells ==
    ASSUME NEW l \in Nat, NEW c \in Nat, NEW s, NEW p \in Nat, Spells(c, l, s, p),
           NEW q \in Nat, NEW bits \in [1 .. q -> {0, 1}], Follow(s, p + l, bits, q)
    PROVE  \E d \in Nat : Writer!Push(2 * c, bits) = 2 * d /\ Spells(d, l + q, s, p)
<1> DEFINE step(a, j) == 2 * Writer!OrBit(a, bits[j])
           g == [u \in (1 .. q) \X Nat |-> step(u[2], u[1])]
           Is(t) == t = [k \in 0 .. q |-> IF k = 0 THEN 2 * c ELSE step(t[k - 1], k)]
           W == CHOOSE t : Is(t)
<1>0. Len(bits) = q
  OBVIOUS
<1>1. ASSUME NEW j \in 1 .. q, NEW a \in Nat
      PROVE  g[<<j, a>>] = step(a, j) /\ step(a, j) \in Nat
  <2>1. bits[j] \in {0, 1}
    OBVIOUS
  <2>2. Writer!OrBit(a, bits[j]) \in Nat
    BY <2>1 DEF Writer!OrBit
  <2> QED BY <2>2
<1> HIDE DEF step
<1>2. PICK f : Follows(f, g, q, Nat, 2 * c)
  <2>1. StepOn(g, q, Nat)
    <3> HIDE DEF g
    <3>1. \A j \in 1 .. q, a \in Nat : g[<<j, a>>] \in Nat
      BY <1>1
    <3> QED BY <3>1 DEF StepOn
  <2>2. 2 * c \in Nat
    OBVIOUS
  <2> HIDE DEF g
  <2> QED BY <2>1, <2>2, RecursionExists
<1>3. /\ f \in [0 .. q -> Nat] /\ f[0] = 2 * c
      /\ \A j \in 1 .. q : f[j] = step(f[j - 1], j)
  <2> HIDE DEF g
  <2>1. f \in [0 .. q -> Nat] /\ f[0] = 2 * c /\ \A j \in 1 .. q : f[j] = g[<<j, f[j - 1]>>]
    BY <1>2 DEF Follows
  <2>2. ASSUME NEW j \in 1 .. q PROVE f[j] = step(f[j - 1], j)
    <3>1. f[j - 1] \in Nat
      BY <2>1
    <3> QED BY <3>1, <2>1, <1>1
  <2> QED BY <2>1, <2>2
<1>4. Is(f)
  <2> HIDE DEF g
  <2>1. \A k \in 0 .. q : f[k] = IF k = 0 THEN 2 * c ELSE step(f[k - 1], k)
    BY <1>3
  <2>2. f = [k \in 0 .. q |-> f[k]]
    BY <1>3
  <2> QED BY <2>1, <2>2
<1>5. Is(W)
  <2> HIDE DEF Is
  <2> QED BY <1>4
<1>6. Writer!Push(2 * c, bits) = W[q]
  BY <1>0 DEF Writer!Push, step
<1> HIDE DEF W, g
<1>7. W = [k \in 0 .. q |-> IF k = 0 THEN 2 * c ELSE step(W[k - 1], k)]
  BY <1>5
<1> DEFINE A == {k \in Nat : k <= q =>
                     \E d \in Nat : W[k] = 2 * d /\ Spells(d, l + k, s, p)}
<1>8. 0 \in A
  <2>1. W[0] = 2 * c /\ l + 0 = l
    BY <1>7
  <2> QED BY <2>1
<1>9. ASSUME NEW k \in Nat, k \in A PROVE k + 1 \in A
  <2> SUFFICES ASSUME k + 1 <= q
               PROVE  \E d \in Nat : W[k + 1] = 2 * d /\ Spells(d, l + (k + 1), s, p)
    OBVIOUS
  <2>1. k + 1 \in 1 .. q /\ k + 1 \in 0 .. q /\ (k + 1) - 1 = k /\ k <= q /\ k + 1 # 0
    OBVIOUS
  <2>2. PICK d \in Nat : W[k] = 2 * d /\ Spells(d, l + k, s, p)
    BY <1>9, <2>1
  <2>3. W[k + 1] = step(2 * d, k + 1)
    BY <1>7, <2>1, <2>2
  <2> DEFINE b == bits[k + 1]
             e == 2 * d + b
  <2>4. b \in {0, 1} /\ b = s[p + ((l + k) + 1)]
    <3>1. bits[k + 1] = s[(p + l) + (k + 1)] /\ (p + l) + (k + 1) = p + ((l + k) + 1)
      BY <2>1 DEF Follow
    <3> QED BY <3>1, <2>1
  <2>5. step(2 * d, k + 1) = 2 * e
    <3>1. (2 * d) % 2 = 0
      OBVIOUS
    <3> QED BY <3>1 DEF step, Writer!OrBit
  <2> HIDE DEF b
  <2>6. Spells(e, (l + k) + 1, s, p) /\ e \in Nat
    <3>1. l + k \in Nat
      OBVIOUS
    <3> QED BY <3>1, <2>2, <2>4, SpellsOneMore
  <2> HIDE DEF e
  <2>7. (l + k) + 1 = l + (k + 1)
    OBVIOUS
  <2> QED BY <2>3, <2>5, <2>6, <2>7
<1>10. q \in A
  <2> HIDE DEF A
  <2> QED BY <1>8, <1>9, SetInduction
<1> QED BY <1>6, <1>10

\* A number of fewer digits than a byte has fits into one, also one place up.
LEMMA FitsByte ==
    ASSUME NEW k \in 0 .. Width, NEW d \in Nat, NEW s, NEW p, Spells(d, k, s, p)
    PROVE  /\ Writer!Truncated((2 * d) \div 2) = d
           /\ k < Width => Writer!Truncated(2 * d) = 2 * d
<1> DEFINE m == 2^Width
           t == 2^k
<1>0. Width \in Nat /\ k \in Nat /\ k <= Width
  BY WidthAssumption
<1>1. m \in Nat \ {0} /\ t \in Nat \ {0} /\ t <= m /\ d \in 0 .. t - 1
  <2>1. t <= m
    BY <1>0, PowerOrder
  <2>2. d \in 0 .. t - 1
    BY DEF Spells
  <2> QED BY <2>1, <2>2, <1>0, PowerStep
<1>2. (2 * d) \div 2 = d
  OBVIOUS
<1>3. d % m = d
  <2>1. d \in 0 .. m - 1 /\ d \in Int /\ d = m * 0 + d
    BY <1>1
  <2> HIDE DEF m, t
  <2> QED BY <2>1, <1>1, DivisionUnique
<1>4. ASSUME k < Width PROVE (2 * d) % m = 2 * d
  <2>1. 2 * t <= m
    <3>1. k + 1 \in Nat /\ k + 1 <= Width
      BY <1>0, <1>4
    <3>2. 2^(k + 1) <= m /\ 2^(k + 1) = 2 * t
      BY <3>1, <1>0, PowerOrder, PowerStep
    <3> QED BY <3>2
  <2> DEFINE z == 2 * d
  <2>2. z \in 0 .. m - 1 /\ z \in Int /\ z = m * 0 + z
    <3> HIDE DEF m, t
    <3> QED BY <2>1, <1>1
  <2> HIDE DEF m, t, z
  <2>3. z % m = z
    BY <2>2, <1>1, DivisionUnique
  <2> QED BY <2>3 DEF z
<1> HIDE DEF m
<1> QED BY <1>2, <1>3, <1>4 DEF Writer!Truncated, m

\* Nothing spells no bits.
LEMMA SpellsNothing ==
    ASSUME NEW s, NEW p
    PROVE  Spells(0, 0, s, p)
<1>1. 0 \in 0 .. 2^0 - 1
  BY PowerZero
<1> QED BY <1>1 DEF Spells

\* The closed bytes hold the bits of s.
HoldsBytes(x, s) ==
    /\ x.index \in Nat
    /\ \A a \in 0 .. x.index - 1 : Spells(x.bytes[a], Width, s, Width * a)

\* A cut of a list that follows place n of s follows a later place.
LEMMA CutSpells ==
    ASSUME NEW q \in Nat, NEW l \in [1 .. q -> {0, 1}], NEW s, NEW n \in Nat,
           Follow(s, n, l, q), NEW a \in Nat, NEW m \in Nat, a + m <= q
    PROVE  \E d \in Nat : /\ Writer!Push(0, SubSeq(l, a + 1, a + m)) = 2 * d
                          /\ Spells(d, m, s, n + a)
<1> DEFINE u == SubSeq(l, a + 1, a + m)
           p == n + a
<1>1. u \in [1 .. m -> {0, 1}] /\ \A j \in 1 .. m : u[j] = l[a + j]
  BY CutFacts
<1> HIDE DEF u
<1>2. p \in Nat /\ p + 0 = p
  OBVIOUS
<1>3. Follow(s, p + 0, u, m)
  <2>1. ASSUME NEW j \in 1 .. m PROVE u[j] = s[p + j]
    <3>1. a + j \in 1 .. q /\ n + (a + j) = p + j
      OBVIOUS
    <3> QED BY <3>1, <1>1 DEF Follow
  <2> QED BY <2>1, <1>2 DEF Follow
<1> HIDE DEF p
<1>4. Spells(0, 0, s, p)
  BY SpellsNothing
<1>5. \E d \in Nat : Writer!Push(2 * 0, u) = 2 * d /\ Spells(d, 0 + m, s, p)
  <2> DEFINE z == 0
  <2>1. z \in Nat /\ Follow(s, p + z, u, m) /\ Spells(z, z, s, p)
    BY <1>3, <1>4
  <2> HIDE DEF z
  <2>2. \E d \in Nat : Writer!Push(2 * z, u) = 2 * d /\ Spells(d, z + m, s, p)
    BY <2>1, <1>1, <1>2, PushSpells
  <2> QED BY <2>2 DEF z
<1>6. 2 * 0 = 0 /\ 0 + m = m
  OBVIOUS
<1> QED BY <1>5, <1>6 DEF u, p

\* bit.c:104-132, 184-214: the whole bytes of a list go to the buffer, the rest
\* becomes the byte under way.
LEMMA PutWholeHolds ==
    ASSUME NEW size \in Nat, NEW x \in Writers(size), NEW s, HoldsBytes(x, s),
           NEW q \in Nat, NEW l \in [1 .. q -> {0, 1}],
           Follow(s, Width * x.index, l, q), Width * x.index + q <= Width * size
    PROVE  /\ Writer!PutWhole(x, l) \in Writers(size)
           /\ HoldsBits(Writer!PutWhole(x, l), s, Width * x.index + q)
<1> DEFINE full == q \div Width
           rest == q % Width
           i == x.index
           n == Width * i
           byteOf(j) == Writer!Push(0, SubSeq(l, j * Width + 1, (j + 1) * Width)) \div 2
           low == Writer!Push(0, SubSeq(l, full * Width + 1, q))
           y == Writer!PutWhole(x, l)
<1>0. Width \in Nat \ {0} /\ Width \in Nat /\ Len(l) = q
  BY WidthAssumption
<1>1. full \in Nat /\ rest \in 0 .. Width - 1 /\ q = Width * full + rest
  <2>1. q \in Int
    OBVIOUS
  <2> QED BY <2>1, <1>0, Division
<1>2. i \in Nat /\ n \in Nat /\ \A a \in 0 .. i - 1 : Spells(x.bytes[a], Width, s, Width * a)
  BY <1>0 DEF HoldsBytes
<1>3. ASSUME NEW j \in 0 .. full - 1
      PROVE  Spells(byteOf(j), Width, s, Width * (i + j)) /\ byteOf(j) \in Nat
  <2> DEFINE a == Width * j
  <2>1. /\ a \in Nat /\ a + Width <= q
        /\ j * Width + 1 = a + 1 /\ (j + 1) * Width = a + Width
        /\ n + a = Width * (i + j)
    <3>1. a \in Nat /\ j * Width = a /\ (j + 1) * Width = a + Width
      BY <1>0
    <3>2. Width * (j + 1) <= Width * full /\ Width * (j + 1) = a + Width
      <4>1. j \in Nat /\ j + 1 \in Nat /\ j + 1 <= full
        BY <1>1
      <4> QED BY <4>1, <1>0, <1>1, NoFewer, OneMore
    <3>3. n + a = Width * (i + j)
      BY <1>0, <1>2
    <3>4. Width * full \in Nat
      BY <1>0, <1>1
    <3> HIDE DEF a, full, rest
    <3>5. a + Width <= q
      BY <3>1, <3>2, <3>4, <1>0, <1>1
    <3> QED BY <3>1, <3>3, <3>5
  <2> HIDE DEF a
  <2> DEFINE u == Writer!Push(0, SubSeq(l, a + 1, a + Width))
  <2>2. PICK d \in Nat : u = 2 * d /\ Spells(d, Width, s, n + a)
    <3> HIDE DEF n
    <3>1. Follow(s, n, l, q)
      BY DEF n
    <3> QED BY <3>1, <2>1, <1>0, <1>2, CutSpells
  <2>3. byteOf(j) = u \div 2
    BY <2>1
  <2> HIDE DEF u
  <2>4. (2 * d) \div 2 = d
    OBVIOUS
  <2>5. byteOf(j) = d
    BY <2>2, <2>3, <2>4
  <2> QED BY <2>1, <2>2, <2>5
<1>4. \E d \in Nat : low = 2 * d /\ Spells(d, rest, s, Width * (i + full))
  <2> DEFINE a == Width * full
  <2>1. a \in Nat /\ full * Width = a /\ n + a = Width * (i + full)
    <3> HIDE DEF full, rest, i
    <3> QED BY <1>0, <1>1, <1>2
  <2>2. a + rest = q /\ a + rest <= q /\ rest \in Nat
    <3> HIDE DEF full, rest
    <3>1. q = a + rest
      BY <1>1
    <3> HIDE DEF a
    <3> QED BY <3>1, <2>1, <1>0, <1>1
  <2>3. low = Writer!Push(0, SubSeq(l, a + 1, a + rest))
    <3>1. full * Width + 1 = a + 1 /\ q = a + rest
      BY <2>1, <2>2
    <3> HIDE DEF a, full, rest
    <3> QED BY <3>1 DEF low
  <2>4. Follow(s, n, l, q)
    OBVIOUS
  <2> HIDE DEF a, low, n, full, rest, i, byteOf, y
  <2>5. \E d \in Nat : /\ Writer!Push(0, SubSeq(l, a + 1, a + rest)) = 2 * d
                       /\ Spells(d, rest, s, n + a)
    <3>1. a + rest <= q /\ a \in Nat /\ rest \in Nat /\ n \in Nat
      BY <2>1, <2>2, <1>2
    <3> QED BY <3>1, <2>4, CutSpells
  <2>6. \E d \in Nat : low = 2 * d /\ Spells(d, rest, s, n + a)
    BY <2>3, <2>5
  <2> QED BY <2>1, <2>6
<1>5. /\ y \in Writers(size)
      /\ y.index = i + full
      /\ y.current = Writer!Truncated(low) /\ y.currentLen = rest
      /\ \A k \in 0 .. size - 1 :
             y.bytes[k] = IF k \in i .. (i + full - 1) THEN byteOf(k - i) ELSE x.bytes[k]
  <2> DEFINE B == [k \in DOMAIN x.bytes |->
                        IF k \in i .. (i + full - 1) THEN byteOf(k - i) ELSE x.bytes[k]]
             tr == Writer!Truncated(low)
             Y == [x EXCEPT !.bytes = B, !.index = @ + full,
                            !.current = tr, !.currentLen = rest]
  <2>1. y = Y
    BY <1>0 DEF Writer!PutWhole
  <2> HIDE DEF y
  <2>2. /\ x.bytes \in [0 .. size - 1 -> Nat] /\ x.len \in {size}
        /\ x \in [bytes : [0 .. size - 1 -> Nat], len : {size},
                  index : Nat, current : Nat, currentLen : Nat]
    BY DEF Writers
  <2>3. \A k \in i .. (i + full - 1) : byteOf(k - i) \in Nat
    <3> HIDE DEF byteOf, full, n
    <3>1. ASSUME NEW k \in i .. (i + full - 1) PROVE k - i \in 0 .. full - 1
      BY <1>1, <1>2
    <3> QED BY <3>1, <1>3
  <2>4. Writer!Truncated(low) \in Nat
    <3>1. low \in Nat
      BY <1>4
    <3> HIDE DEF low
    <3>2. 2^Width \in Nat \ {0} /\ low \in Int
      BY <3>1, <1>0, PowerStep
    <3>3. low % 2^Width \in 0 .. 2^Width - 1
      BY <3>2, Division
    <3> QED BY <3>2, <3>3 DEF Writer!Truncated
  <2> HIDE DEF byteOf, low, full, rest
  <2>5. B \in [0 .. size - 1 -> Nat]
    BY <2>2, <2>3
  <2>6. \A k \in 0 .. size - 1 :
            B[k] = IF k \in i .. (i + full - 1) THEN byteOf(k - i) ELSE x.bytes[k]
    BY <2>2
  <2> HIDE DEF B
  <2>7. tr \in Nat /\ full \in Nat /\ rest \in Nat
    BY <2>4, <1>0, <1>1
  <2> HIDE DEF tr
  <2>8. x.index \in Nat
    BY <2>2
  <2>9. Y \in Writers(size) /\ Y.bytes = B /\ Y.index = i + full
        /\ Y.current = tr /\ Y.currentLen = rest
    <3> HIDE DEF n, y
    <3> DEFINE j == i + full
               Z == [x EXCEPT !.bytes = B, !.index = j, !.current = tr, !.currentLen = rest]
    <3>1. j \in Nat
      BY <2>7, <2>8
    <3>2. Y = Z
      OBVIOUS
    <3> HIDE DEF Y, j
    <3>3. /\ Z \in Writers(size)
          /\ Z.bytes = B /\ Z.index = j /\ Z.current = tr /\ Z.currentLen = rest
      BY <3>1, <2>5, <2>7 DEF Writers
    <3> QED BY <3>2, <3>3 DEF j
  <2> HIDE DEF Y
  <2> USE DEF tr
  <2> QED BY <2>1, <2>6, <2>9
<1>6. i + full <= size /\ Width * (i + full) + rest = n + q
  <2> DEFINE m == Width * (i + full)
  <2>1. m \in Nat /\ m = n + Width * full /\ Width * full \in Nat
    <3> HIDE DEF full, rest, i
    <3> QED BY <1>0, <1>1, <1>2
  <2>2. m + rest = n + q /\ m <= n + q
    <3> DEFINE e == Width * full
    <3>1. q = e + rest /\ e \in Nat /\ m = n + e
      BY <1>1, <2>1
    <3> HIDE DEF e, m, n, full, rest
    <3> QED BY <3>1, <1>0, <1>1, <1>2
  <2>3. m <= Width * size
    <3> DEFINE e == Width * size
    <3>1. n + q <= e /\ e \in Nat
      BY <1>0
    <3> HIDE DEF e, m, n, full, rest
    <3>2. m <= e
      BY <3>1, <2>1, <2>2, <1>2
    <3> QED BY <3>2 DEF e
  <2>4. i + full <= size
    <3> HIDE DEF m, full
    <3>1. CASE size + 1 <= i + full
      <4>1. Width * (size + 1) <= Width * (i + full) /\ Width * (size + 1) = Width * size + Width
        <5>1. i + full \in Nat /\ size + 1 \in Nat
          BY <1>1, <1>2
        <5> QED BY <5>1, <3>1, <1>0, NoFewer, OneMore
      <4>2. Width * size \in Nat
        BY <1>0
      <4> DEFINE e == Width * size
      <4>3. e + Width <= m /\ m <= e /\ e \in Nat
        BY <4>1, <4>2, <2>3 DEF m
      <4> HIDE DEF e
      <4> QED BY <4>3, <2>1, <1>0
    <3>2. CASE ~(size + 1 <= i + full)
      BY <3>2, <1>1, <1>2
    <3> QED BY <3>1, <3>2
  <2> QED BY <2>2, <2>4
<1>7. HoldsBits(y, s, n + q)
  <2> HIDE DEF y, byteOf, low, full, rest
  <2>1. ASSUME NEW a \in 0 .. y.index - 1 PROVE Spells(y.bytes[a], Width, s, Width * a)
    <3>1. a \in 0 .. size - 1 /\ a \in 0 .. i + full - 1
      <4> HIDE DEF i, n
      <4> QED BY <1>1, <1>2, <1>5, <1>6
    <3>2. CASE a \in i .. i + full - 1
      <4>1. y.bytes[a] = byteOf(a - i)
        BY <3>1, <3>2, <1>5
      <4>2. a - i \in 0 .. full - 1 /\ i + (a - i) = a
        BY <3>2, <1>1, <1>2
      <4>3. Spells(byteOf(a - i), Width, s, Width * (i + (a - i)))
        BY <4>2, <1>3
      <4> QED BY <4>1, <4>2, <4>3
    <3>3. CASE ~(a \in i .. i + full - 1)
      <4>1. y.bytes[a] = x.bytes[a]
        BY <3>1, <3>3, <1>5
      <4>2. a \in 0 .. i - 1
        BY <3>1, <3>3, <1>1, <1>2
      <4> QED BY <4>1, <4>2, <1>2
    <3> QED BY <3>2, <3>3
  <2>2. PICK d \in Nat : low = 2 * d /\ Spells(d, rest, s, Width * (i + full))
    BY <1>4
  <2>3. y.current = 2 * d
    <3>1. rest \in 0 .. Width /\ rest < Width
      BY <1>0, <1>1
    <3>2. Writer!Truncated(2 * d) = 2 * d
      BY <2>2, <3>1, FitsByte
    <3> QED BY <3>2, <2>2, <1>5
  <2>4. i + full \in Nat
    BY <1>1, <1>2
  <2>5. /\ y.index \in Nat /\ y.currentLen \in 0 .. Width - 1
        /\ n + q = Width * y.index + y.currentLen
    BY <2>4, <1>1, <1>5, <1>6
  <2>6. Spells(d, y.currentLen, s, Width * y.index)
    BY <2>2, <1>5
  <2> QED BY <2>1, <2>3, <2>5, <2>6 DEF HoldsBits
<1> QED BY <1>5, <1>7

\* A multiple that is less comes from a number that is less.
LEMMA FewerRounds ==
    ASSUME NEW a \in Nat \ {0}, NEW m \in Nat, NEW n \in Nat, a * m < a * n
    PROVE  m < n
<1>1. CASE n <= m
  <2>1. a * n <= a * m
    BY <1>1, NoFewer
  <2>2. a * m \in Nat /\ a * n \in Nat
    OBVIOUS
  <2> DEFINE u == a * m
             v == a * n
  <2>3. u < v /\ v <= u /\ u \in Nat /\ v \in Nat
    BY <2>1, <2>2
  <2> HIDE DEF u, v
  <2> QED BY <2>3
<1> QED BY <1>1

\* bit.c:68-133: a list closes the byte under way, if it is long enough to.
LEMMA PutListHolds ==
    ASSUME NEW size \in Nat, NEW x \in Writers(size), NEW s, NEW n \in Nat,
           HoldsBits(x, s, n), NEW q \in Nat, n + q <= Width * size,
           NEW l \in [1 .. q -> {0, 1}], Follow(s, n, l, q)
    PROVE  /\ Writer!PutList(x, l) \in Writers(size)
           /\ HoldsBits(Writer!PutList(x, l), s, n + q)
<1> DEFINE i == x.index
           cl == x.currentLen
           p == Width * i
           close == Writer!MinOf(Width - cl, q)
           u == SubSeq(l, 1, close)
           b == Writer!Push(x.current, u)
           z == [x EXCEPT !.bytes[x.index] = Writer!Truncated(b \div 2), !.index = @ + 1]
           y == Writer!PutList(x, l)
<1>0. Width \in Nat \ {0} /\ Width \in Nat /\ Len(l) = q
  BY WidthAssumption
<1>1. /\ i \in Nat /\ cl \in 0 .. Width - 1 /\ cl \in Nat
      /\ n = p + cl /\ p \in Nat
      /\ \A a \in 0 .. i - 1 : Spells(x.bytes[a], Width, s, Width * a)
  <2>1. /\ i \in Nat /\ cl \in 0 .. Width - 1 /\ n = p + cl
        /\ \A a \in 0 .. i - 1 : Spells(x.bytes[a], Width, s, Width * a)
    BY DEF HoldsBits
  <2>2. p \in Nat
    BY <2>1, <1>0
  <2> HIDE DEF p
  <2> QED BY <2>1, <2>2, <1>0
<1>2. PICK c \in Nat : x.current = 2 * c /\ Spells(c, cl, s, p)
  BY DEF HoldsBits
<1>3. /\ close \in Nat /\ close <= q /\ cl + close <= Width
      /\ cl + close # Width => close = q
  <2> HIDE DEF i, p, u, b, z, y, cl
  <2> QED BY <1>0, <1>1 DEF Writer!MinOf
<1>4. y = IF cl + close = Width THEN Writer!PutWhole(z, SubSeq(l, close + 1, q))
          ELSE [x EXCEPT !.current = Writer!Truncated(b), !.currentLen = @ + close]
  BY <1>0 DEF Writer!PutList
<1> HIDE DEF y, close
<1>5. PICK d \in Nat : b = 2 * d /\ Spells(d, cl + close, s, p)
  <2>1. u \in [1 .. close -> {0, 1}] /\ \A j \in 1 .. close : u[j] = l[j]
    <3> DEFINE o == 0
               v == SubSeq(l, o + 1, o + close)
    <3>1. o \in Nat /\ o + close <= q
      BY <1>3
    <3> HIDE DEF o
    <3>2. v \in [1 .. close -> {0, 1}] /\ \A j \in 1 .. close : v[j] = l[o + j]
      BY <3>1, <1>3, CutFacts
    <3> HIDE DEF v
    <3>3. v = u
      <4>1. o + 1 = 1 /\ o + close = close
        BY <1>3 DEF o
      <4> QED BY <4>1 DEF v
    <3>4. \A j \in 1 .. close : o + j = j
      BY DEF o
    <3> HIDE DEF u
    <3> QED BY <3>2, <3>3, <3>4
  <2> HIDE DEF u
  <2>2. Follow(s, p + cl, u, close)
    <3>1. ASSUME NEW j \in 1 .. close PROVE u[j] = s[n + j]
      <4>1. j \in 1 .. q
        BY <1>3
      <4> QED BY <4>1, <2>1 DEF Follow
    <3>2. Follow(s, n, u, close)
      BY <3>1 DEF Follow
    <3> HIDE DEF p, cl
    <3> QED BY <3>2, <1>1
  <2>3. b = Writer!Push(2 * c, u)
    BY <1>2
  <2> HIDE DEF p, cl, b
  <2> QED BY <2>1, <2>2, <2>3, <1>1, <1>2, <1>3, PushSpells
<1>6. CASE cl + close = Width
  <2> DEFINE v == SubSeq(l, close + 1, q)
             m == q - close
             k == Width * (i + 1)
  <2>1. m \in Nat /\ close + m = q /\ k = n + close /\ k \in Nat /\ k + m = n + q
    <3>1. k = p + Width
      BY <1>0, <1>1
    <3>2. m \in Nat /\ close + m = q
      <4> HIDE DEF p, cl, k, i
      <4> QED BY <1>3
    <3>3. k = n + close
      <4> HIDE DEF p, cl, k, i, m
      <4> QED BY <3>1, <1>0, <1>1, <1>3, <1>6
    <3>4. k \in Nat
      <4> HIDE DEF p, cl, i, m, k
      <4> QED BY <3>3, <1>3
    <3> HIDE DEF p, cl, k, i, m
    <3>5. k + m = n + q
      BY <3>2, <3>3, <3>4, <1>3
    <3> QED BY <3>2, <3>3, <3>4, <3>5
  <2>2. v \in [1 .. m -> {0, 1}] /\ \A j \in 1 .. m : v[j] = l[close + j]
    <3> DEFINE f == SubSeq(l, close + 1, close + m)
    <3>1. f \in [1 .. m -> {0, 1}] /\ \A j \in 1 .. m : f[j] = l[close + j]
      <4>1. close + m <= q /\ m \in Nat
        BY <2>1
      <4> HIDE DEF m
      <4> QED BY <4>1, <1>3, CutFacts
    <3>2. f = v
      BY <2>1
    <3> HIDE DEF f, v, m
    <3> QED BY <3>1, <3>2
  <2> HIDE DEF v
  <2>3. Follow(s, k, v, m)
    <3>1. ASSUME NEW j \in 1 .. m PROVE v[j] = s[k + j]
      <4>1. close + j \in 1 .. q /\ n + (close + j) = k + j
        <5> HIDE DEF k
        <5> QED BY <2>1, <1>3
      <4>2. l[close + j] = s[n + (close + j)]
        BY <4>1 DEF Follow
      <4> QED BY <4>1, <4>2, <2>2
    <3> QED BY <3>1 DEF Follow
  <2>4. i < size
    <3> DEFINE e == Width * size
    <3>1. p < e
      <4>1. e \in Nat
        BY <1>0
      <4> HIDE DEF e, p, cl
      <4>2. n + q <= e
        BY DEF e
      <4> QED BY <4>1, <4>2, <1>0, <1>1, <1>3, <1>6
    <3> QED BY <3>1, <1>0, <1>1, FewerRounds
  <2>5. Writer!Truncated(b \div 2) = d
    <3>1. Spells(d, Width, s, p) /\ Width \in 0 .. Width
      BY <1>5, <1>6, <1>0
    <3>2. Writer!Truncated((2 * d) \div 2) = d
      BY <3>1, FitsByte
    <3> QED BY <3>2, <1>5
  <2>6. /\ z \in Writers(size) /\ z.index = i + 1
        /\ \A a \in 0 .. size - 1 : z.bytes[a] = IF a = i THEN d ELSE x.bytes[a]
    <3> DEFINE Z == [x EXCEPT !.bytes[x.index] = d, !.index = @ + 1]
    <3>1. z = Z
      BY <2>5
    <3> HIDE DEF z
    <3>2. /\ Z \in Writers(size) /\ Z.index = i + 1
          /\ \A a \in 0 .. size - 1 : Z.bytes[a] = IF a = i THEN d ELSE x.bytes[a]
      <4> DEFINE B == [x.bytes EXCEPT ![x.index] = d]
                 j == x.index + 1
                 X == [x EXCEPT !.bytes = B, !.index = j]
      <4>1. Z = X /\ j \in Nat
        BY <1>1
      <4> HIDE DEF z, y, u, b, v, m, k, p, cl, Z
      <4>2. x.bytes \in [0 .. size - 1 -> Nat]
        BY DEF Writers
      <4>3. B \in [0 .. size - 1 -> Nat]
            /\ \A a \in 0 .. size - 1 : B[a] = IF a = i THEN d ELSE x.bytes[a]
        BY <4>2
      <4> HIDE DEF B, j
      <4>4. X \in Writers(size) /\ X.index = j /\ X.bytes = B
        BY <4>1, <4>3 DEF Writers
      <4> HIDE DEF X
      <4> QED BY <4>1, <4>3, <4>4 DEF j
    <3> HIDE DEF Z
    <3> QED BY <3>1, <3>2
  <2> HIDE DEF z
  <2>7. HoldsBytes(z, s)
    <3>1. ASSUME NEW a \in 0 .. z.index - 1 PROVE Spells(z.bytes[a], Width, s, Width * a)
      <4>1. a \in 0 .. size - 1 /\ (a # i => a \in 0 .. i - 1)
        <5> HIDE DEF i
        <5> QED BY <2>4, <2>6, <1>1
      <4>2. CASE a = i
        BY <4>1, <4>2, <2>6, <1>5, <1>6
      <4>3. CASE a # i
        BY <4>1, <4>3, <2>6, <1>1
      <4> QED BY <4>2, <4>3
    <3>2. z.index \in Nat
      BY <2>6, <1>1
    <3> QED BY <3>1, <3>2 DEF HoldsBytes
  <2>8. /\ Writer!PutWhole(z, v) \in Writers(size)
        /\ HoldsBits(Writer!PutWhole(z, v), s, Width * z.index + m)
    <3>1. Width * z.index = k
      BY <2>6
    <3>2. k + m <= Width * size
      <4> HIDE DEF k, m
      <4> QED BY <2>1
    <3> HIDE DEF k, m
    <3> QED BY <3>1, <3>2, <2>1, <2>2, <2>3, <2>6, <2>7, PutWholeHolds
  <2>9. y = Writer!PutWhole(z, v)
    BY <1>4, <1>6 DEF v
  <2>10. Width * z.index + m = n + q
    <3>1. Width * z.index = k
      BY <2>6
    <3> HIDE DEF k, m
    <3> QED BY <3>1, <2>1
  <2>11. y \in Writers(size) /\ HoldsBits(y, s, n + q)
    BY <2>8, <2>9, <2>10
  <2> QED BY <2>11 DEF y
<1>7. CASE cl + close # Width
  <2> DEFINE Y == [x EXCEPT !.current = 2 * d, !.currentLen = cl + q]
  <2>1. close = q /\ cl + q < Width /\ cl + q \in Nat
    <3> HIDE DEF cl
    <3> QED BY <1>0, <1>1, <1>3, <1>7
  <2>2. Writer!Truncated(b) = 2 * d
    <3>1. Spells(d, cl + q, s, p)
      BY <1>5, <2>1
    <3>2. cl + q \in 0 .. Width
      <4> HIDE DEF cl
      <4> QED BY <2>1, <1>0
    <3>3. Writer!Truncated(2 * d) = 2 * d
      <4> DEFINE e == cl + q
      <4>1. Spells(d, e, s, p) /\ e \in 0 .. Width /\ e < Width
        BY <3>1, <3>2, <2>1
      <4> HIDE DEF e
      <4> QED BY <4>1, FitsByte
    <3> QED BY <3>3, <1>5
  <2>3. y = Y
    BY <1>4, <1>7, <2>1, <2>2
  <2>4. /\ Y \in Writers(size) /\ Y.index = i /\ Y.bytes = x.bytes
        /\ Y.current = 2 * d /\ Y.currentLen = cl + q
    <3> DEFINE e == cl + q
               o == 2 * d
               Z == [x EXCEPT !.current = o, !.currentLen = e]
    <3>1. Y = Z /\ e \in Nat /\ o \in Nat
      BY <2>1
    <3> HIDE DEF Y, z, y, u, b, p, e, o
    <3>2. /\ Z \in Writers(size) /\ Z.index = x.index /\ Z.bytes = x.bytes
          /\ Z.current = o /\ Z.currentLen = e
      BY <3>1 DEF Writers
    <3> HIDE DEF Z
    <3> QED BY <3>1, <3>2 DEF e, o
  <2> HIDE DEF Y
  <2>5. n + q = p + (cl + q)
    <3> HIDE DEF p, cl
    <3> QED BY <1>1
  <2>6. HoldsBits(Y, s, n + q)
    <3>1. Spells(d, Y.currentLen, s, Width * Y.index)
      BY <1>5, <2>1, <2>4
    <3>2. Y.index \in Nat /\ Y.currentLen \in 0 .. Width - 1
      BY <1>0, <1>1, <2>1, <2>4
    <3>3. n + q = Width * Y.index + Y.currentLen
      BY <2>4, <2>5
    <3>4. \A a \in 0 .. Y.index - 1 : Spells(Y.bytes[a], Width, s, Width * a)
      BY <2>4, <1>1
    <3> QED BY <3>1, <3>2, <3>3, <3>4, <2>4 DEF HoldsBits
  <2> QED BY <2>3, <2>4, <2>6 DEF y
<1> QED BY <1>6, <1>7

\* A reversed list is a list of as many bits.
LEMMA ReversedFacts ==
    ASSUME NEW q \in Nat, NEW l \in [1 .. q -> {0, 1}]
    PROVE  Writer!Reverse(l) \in [1 .. q -> {0, 1}] /\ Len(Writer!Reverse(l)) = q
<1>1. Len(l) = q
  OBVIOUS
<1>2. Writer!Reverse(l) = [j \in 1 .. q |-> l[(q - j) + 1]]
  BY <1>1 DEF Writer!Reverse
<1>3. \A j \in 1 .. q : (q - j) + 1 \in 1 .. q
  OBVIOUS
<1> QED BY <1>2, <1>3

\* bit.c:148-215: so does a list that is read from its end.
LEMMA PutReversedHolds ==
    ASSUME NEW size \in Nat, NEW x \in Writers(size), NEW s, NEW n \in Nat,
           HoldsBits(x, s, n), NEW q \in Nat, n + q <= Width * size,
           NEW l \in [1 .. q -> {0, 1}], Follow(s, n, Writer!Reverse(l), q)
    PROVE  /\ Writer!PutReversed(x, l) \in Writers(size)
           /\ HoldsBits(Writer!PutReversed(x, l), s, n + q)
<1> DEFINE v == Writer!Reverse(l)
<1>1. v \in [1 .. q -> {0, 1}]
  BY ReversedFacts
<1>2. Writer!PutReversed(x, l) = IF x.currentLen = 0 THEN Writer!PutWhole(x, v)
                                 ELSE Writer!PutList(x, v)
  BY DEF Writer!PutReversed
<1> HIDE DEF v
<1>3. Follow(s, n, v, q)
  BY DEF v
<1>4. CASE x.currentLen = 0
  <2>1. HoldsBytes(x, s)
    BY DEF HoldsBits, HoldsBytes
  <2>2. n = Width * x.index
    <3>1. n = Width * x.index + 0 /\ x.index \in Nat
      BY <1>4 DEF HoldsBits
    <3>2. Width * x.index \in Nat
      BY <3>1, WidthAssumption
    <3> QED BY <3>1, <3>2
  <2>3. Follow(s, Width * x.index, v, q) /\ Width * x.index + q <= Width * size
    BY <1>3, <2>2
  <2>4. /\ Writer!PutWhole(x, v) \in Writers(size)
        /\ HoldsBits(Writer!PutWhole(x, v), s, Width * x.index + q)
    BY <1>1, <2>1, <2>3, PutWholeHolds
  <2> QED BY <1>2, <1>4, <2>2, <2>4
<1>5. CASE x.currentLen # 0
  BY <1>1, <1>2, <1>3, <1>5, PutListHolds
<1> QED BY <1>4, <1>5

\* The room check in bytes is the one in bits.
LEMMA RoomCheck ==
    ASSUME NEW size \in Nat, NEW x \in Writers(size), NEW s, NEW n \in Nat,
           HoldsBits(x, s, n), n <= Width * size, NEW q \in Nat
    PROVE  Writer!Fits(x, q) <=> n + q <= Width * size
<1> DEFINE i == x.index
           cl == x.currentLen
           e == (q + cl + Width) - 1
           need == e \div Width
           left == size - i
           room == Width * left
<1>0. Width \in Nat \ {0} /\ Width \in Nat
  BY WidthAssumption
<1>1. i \in Nat /\ cl \in 0 .. Width - 1 /\ n = Width * i + cl
  BY DEF HoldsBits
<1>2. x.len = size
  BY DEF Writers
<1>3. e \in Nat /\ Writer!Fits(x, q) = (need <= left)
  <2>1. e = q + cl + Width - 1
    <3> HIDE DEF cl
    <3> QED BY <1>0, <1>1
  <2>2. Writer!Fits(x, q) = ((q + cl + Width - 1) \div Width <= x.len - i)
    BY DEF Writer!Fits
  <2>3. e \in Nat
    <3> HIDE DEF cl
    <3> QED BY <1>0, <1>1
  <2> HIDE DEF e, i, cl
  <2> QED BY <2>1, <2>2, <2>3, <1>2
<1>4. i <= size
  <2>1. CASE size + 1 <= i
    <3>1. Width * (size + 1) <= Width * i /\ Width * (size + 1) = Width * size + Width
      <4>1. size + 1 \in Nat
        OBVIOUS
      <4> QED BY <4>1, <2>1, <1>0, <1>1, NoFewer, OneMore
    <3> DEFINE u == Width * size
               v == Width * i
    <3>2. u \in Nat /\ v \in Nat /\ u + Width <= v /\ n = v + cl /\ n <= u
      BY <3>1, <1>0, <1>1
    <3> HIDE DEF u, v, i, cl
    <3> QED BY <3>2, <1>0, <1>1
  <2>2. CASE ~(size + 1 <= i)
    BY <2>2, <1>1
  <2> QED BY <2>1, <2>2
<1>5. left \in Nat /\ room \in Nat /\ Width * size = Width * i + room /\ Width * i \in Nat
  <2>1. left \in Nat /\ size = i + left
    BY <1>1, <1>4
  <2> HIDE DEF left, i
  <2> QED BY <2>1, <1>0, <1>1
<1>6. n + q <= Width * size <=> cl + q <= room
  <2> DEFINE u == Width * i
             v == Width * size
  <2>1. v = u + room /\ u \in Nat /\ n = u + cl /\ room \in Nat
    BY <1>1, <1>5
  <2> HIDE DEF u, v, cl, room, left
  <2>2. n + q <= v <=> cl + q <= room
    BY <2>1, <1>0, <1>1
  <2> QED BY <2>2 DEF v
<1>7. need \in Nat /\ e % Width \in 0 .. Width - 1 /\ e = Width * need + (e % Width)
  <2> HIDE DEF e
  <2>1. e \in Int
    BY <1>3
  <2> QED BY <2>1, <1>0, <1>3, Division
<1>8. need <= left <=> cl + q <= room
  <2> DEFINE w0 == Width * need
             f == e % Width
  <2>1. w0 \in Nat
    BY <1>0, <1>7
  <2>2. f \in 0 .. Width - 1 /\ (q + cl + Width) - 1 = w0 + f
    BY <1>7
  <2>3. ASSUME need <= left PROVE cl + q <= room
    <3>1. w0 <= room
      <4> HIDE DEF need, left
      <4> QED BY <2>3, <1>0, <1>5, <1>7, NoFewer
    <3> HIDE DEF w0, f, room, cl
    <3> QED BY <3>1, <2>1, <2>2, <1>0, <1>1, <1>5
  <2>4. ASSUME cl + q <= room PROVE need <= left
    <3> HIDE DEF need, left, f
    <3>1. CASE left + 1 <= need
      <4>1. Width * (left + 1) <= w0 /\ Width * (left + 1) = room + Width
        <5>1. left + 1 \in Nat
          BY <1>5
        <5> QED BY <5>1, <3>1, <1>0, <1>5, <1>7, NoFewer, OneMore
      <4>2. room + Width <= w0
        BY <4>1
      <4> HIDE DEF w0, room, cl
      <4> QED BY <4>2, <2>1, <2>2, <2>4, <1>0, <1>1, <1>5
    <3>2. CASE ~(left + 1 <= need)
      BY <3>2, <1>5, <1>7
    <3> QED BY <3>1, <3>2
  <2> QED BY <2>3, <2>4
<1> QED BY <1>3, <1>6, <1>8

-----------------------------------------------------------------------------
(* Whole buffers.                                                          *)

\* Every place of n bytes of q bits is a bit of one of them.
LEMMA PlaceSplit ==
    ASSUME NEW q \in Nat \ {0}, NEW n \in Nat, NEW k \in 1 .. n * q
    PROVE  /\ (k - 1) \div q \in 0 .. n - 1
           /\ ((k - 1) % q) + 1 \in 1 .. q
           /\ k = q * ((k - 1) \div q) + (((k - 1) % q) + 1)
<1> DEFINE x == k - 1
           a == x \div q
           c == x % q
<1>0. n * q \in Nat /\ n * q = q * n
  OBVIOUS
<1>1. x \in Nat /\ k = x + 1 /\ k <= q * n
  BY <1>0
<1> HIDE DEF x
<1>2. a \in Nat /\ c \in 0 .. q - 1 /\ x = q * a + c
  BY <1>1
<1> HIDE DEF a, c
<1>3. a < n
  <2> SUFFICES ASSUME n <= a PROVE FALSE
    BY <1>2
  <2>1. q * n <= q * a /\ q * a \in Nat
    BY <1>2, NoFewer
  <2> QED BY <2>1, <1>1, <1>2
<1>4. a \in 0 .. n - 1 /\ c + 1 \in 1 .. q
  BY <1>2, <1>3
<1>5. k = q * a + (c + 1)
  <2> DEFINE p == q * a
  <2>1. p \in Nat /\ x = p + c
    BY <1>2
  <2> HIDE DEF p
  <2>2. k = p + (c + 1)
    BY <2>1, <1>1, <1>2
  <2> QED BY <2>2 DEF p
<1> QED BY <1>4, <1>5 DEF a, c, x

\* u is the bits of the first n bytes of y.
BitsOfBytes(u, y, n) ==
    /\ n * Width \in Nat
    /\ \E C : u \in [1 .. n * Width -> C]
    /\ Len(u) = n * Width
    /\ \A k \in 1 .. n * Width : \E a \in 0 .. n - 1, j \in 1 .. Width :
           k = Width * a + j /\ u[k] = Digit(y.bytes[a], Width - j)

\* The buffer's bits, byte by byte, the highest of a byte first.
LEMMA StoredBits ==
    ASSUME NEW y, NEW n \in Nat
    PROVE  BitsOfBytes(Writer!Stored(y, n), y, n)
<1> DEFINE S == Writer!Stored(y, n)
           bit(k) == Writer!BitsOf(y.bytes[(k - 1) \div Width], Width)[((k - 1) % Width) + 1]
           top == n * Width
<1>0. Width \in Nat \ {0} /\ Width \in Nat
  BY WidthAssumption
<1>1. top \in Nat
  BY <1>0
<1>2. S = [k \in 1 .. top |-> bit(k)]
  BY DEF Writer!Stored
<1>3. ASSUME NEW k \in 1 .. top
      PROVE  \E a \in 0 .. n - 1, j \in 1 .. Width :
                 k = Width * a + j /\ bit(k) = Digit(y.bytes[a], Width - j)
  <2> DEFINE a == (k - 1) \div Width
             j == ((k - 1) % Width) + 1
  <2>1. a \in 0 .. n - 1 /\ j \in 1 .. Width /\ k = Width * a + j
    BY <1>0, PlaceSplit
  <2>2. bit(k) = Writer!BitsOf(y.bytes[a], Width)[j]
    OBVIOUS
  <2> HIDE DEF a, j
  <2>3. Writer!BitsOf(y.bytes[a], Width)[j] = (y.bytes[a] \div 2^(Width - j)) % 2
    BY <2>1 DEF Writer!BitsOf
  <2> QED BY <2>1, <2>2, <2>3 DEF Digit
<1> HIDE DEF bit, top
<1>4. \A k \in 1 .. top : S[k] = bit(k)
  BY <1>2
<1>5. S = [k \in 1 .. top |-> S[k]]
  BY <1>2
<1> HIDE DEF S
<1>6. S \in [1 .. top -> {S[k] : k \in 1 .. top}] /\ Len(S) = top
  <2> DEFINE T == {S[k] : k \in 1 .. top}
  <2>1. \A k \in 1 .. top : S[k] \in T
    OBVIOUS
  <2> HIDE DEF T
  <2>2. S \in [1 .. top -> T]
    BY <1>5, <2>1
  <2>3. Len(S) = top
    BY <1>1, <2>2
  <2> QED BY <2>2, <2>3 DEF T
<1>7. \A k \in 1 .. top : \E a \in 0 .. n - 1, j \in 1 .. Width :
          k = Width * a + j /\ S[k] = Digit(y.bytes[a], Width - j)
  BY <1>3, <1>4
<1>8. \E C : S \in [1 .. top -> C]
  BY <1>6
<1>9. BitsOfBytes(S, y, n)
  BY <1>1, <1>6, <1>7, <1>8 DEF BitsOfBytes, top
<1> QED BY <1>9 DEF S

\* Bytes that spell the bits of s are its first bits.
LEMMA StoredIs ==
    ASSUME NEW y, NEW n \in Nat, NEW B, NEW s \in Seq(B), n * Width <= Len(s),
           \A a \in 0 .. n - 1 : Spells(y.bytes[a], Width, s, Width * a)
    PROVE  Writer!Stored(y, n) = SubSeq(s, 1, n * Width)
<1> DEFINE u == Writer!Stored(y, n)
           top == n * Width
           v == SubSeq(s, 1, top)
<1>1. BitsOfBytes(u, y, n)
  BY StoredBits
<1> HIDE DEF u
<1>2. /\ top \in Nat /\ top <= Len(s)
      /\ \A k \in 1 .. top : \E a \in 0 .. n - 1, j \in 1 .. Width :
             k = Width * a + j /\ u[k] = Digit(y.bytes[a], Width - j)
  BY <1>1 DEF BitsOfBytes
<1>3. PICK C : u \in [1 .. top -> C]
  BY <1>1 DEF BitsOfBytes
<1>4. \A k \in 1 .. top : u[k] = s[k]
  <2>1. ASSUME NEW k \in 1 .. top PROVE u[k] = s[k]
    <3>1. PICK a \in 0 .. n - 1, j \in 1 .. Width :
              k = Width * a + j /\ u[k] = Digit(y.bytes[a], Width - j)
      BY <1>2
    <3>2. Spells(y.bytes[a], Width, s, Width * a)
      OBVIOUS
    <3>3. Digit(y.bytes[a], Width - j) = s[Width * a + j]
      BY <3>2 DEF Spells
    <3> QED BY <3>1, <3>3
  <2> QED BY <2>1
<1> HIDE DEF top
<1>5. v \in Seq(B) /\ Len(v) = top /\ \A k \in 1 .. top : v[k] = s[k]
  BY <1>2
<1> HIDE DEF v
<1>6. v \in [1 .. top -> B]
  BY <1>5
<1>7. \A k \in 1 .. top : u[k] = v[k]
  BY <1>4, <1>5
<1>8. u = v
  <2>1. u = [k \in 1 .. top |-> u[k]]
    BY <1>3
  <2>2. v = [k \in 1 .. top |-> v[k]]
    BY <1>6
  <2> QED BY <2>1, <2>2, <1>7
<1> QED BY <1>8 DEF u, v, top

\* What a writer holds is the closed bytes and the byte under way.
LEMMA StreamIsHeld ==
    ASSUME NEW x, NEW B, NEW s \in Seq(B), HoldsBits(x, s, Len(s))
    PROVE  Writer!Stream(x) = s
<1> DEFINE i == x.index
           l == x.currentLen
           top == i * Width
           u == Writer!Stored(x, i)
           t == Writer!BitsOf(x.current \div 2, l)
<1>0. Width \in Nat \ {0} /\ Width \in Nat
  BY WidthAssumption
<1>1. /\ i \in Nat /\ l \in 0 .. Width - 1 /\ l \in Nat /\ Len(s) = Width * i + l
      /\ \A a \in 0 .. i - 1 : Spells(x.bytes[a], Width, s, Width * a)
  BY <1>0 DEF HoldsBits
<1>2. PICK c \in Nat : x.current = 2 * c /\ Spells(c, l, s, Width * i)
  BY DEF HoldsBits
<1>3. top \in Nat /\ Width * i = top /\ Len(s) = top + l
  <2>1. top \in Nat /\ Width * i = top
    BY <1>0, <1>1
  <2> HIDE DEF top
  <2> QED BY <2>1, <1>1
<1>4. u = SubSeq(s, 1, top)
  <2>1. top <= Len(s)
    <3> HIDE DEF top, l
    <3> QED BY <1>1, <1>3
  <2> HIDE DEF l
  <2> QED BY <2>1, <1>1, StoredIs
<1>5. t \in [1 .. l -> {0, 1}] /\ \A j \in 1 .. l : t[j] = s[top + j]
  <2>1. (2 * c) \div 2 = c
    OBVIOUS
  <2>2. t = [j \in 1 .. l |-> Digit(c, l - j)]
    BY <2>1, <1>2 DEF Writer!BitsOf, Digit
  <2> HIDE DEF t, top, l
  <2>3. ASSUME NEW j \in 1 .. l PROVE Digit(c, l - j) \in {0, 1} /\ Digit(c, l - j) = s[top + j]
    <3>1. l - j \in Nat
      BY <1>1
    <3>2. Digit(c, l - j) = s[Width * i + j]
      BY <1>2 DEF Spells
    <3> QED BY <3>1, <3>2, <1>3, BitIsBit
  <2> QED BY <2>2, <2>3
<1>6. Writer!Stream(x) = u \o t
  BY DEF Writer!Stream
<1> HIDE DEF u, t, top, l, i
<1>7. u \in Seq(B) /\ Len(u) = top /\ \A k \in 1 .. top : u[k] = s[k]
  BY <1>1, <1>3, <1>4
<1>8. t \in Seq(B) /\ Len(t) = l
  <2>1. \A j \in 1 .. l : t[j] \in B
    <3>1. ASSUME NEW j \in 1 .. l PROVE t[j] \in B
      <4>1. top + j \in 1 .. Len(s)
        BY <1>1, <1>3
      <4> QED BY <4>1, <1>5
    <3> QED BY <3>1
  <2>2. t \in [1 .. l -> B]
    BY <2>1, <1>5
  <2> QED BY <2>2, <1>1
<1>9. u \o t = s
  <2> DEFINE v == u \o t
  <2>1. v \in Seq(B) /\ Len(v) = Len(s)
    BY <1>1, <1>3, <1>7, <1>8
  <2>2. ASSUME NEW k \in 1 .. Len(s) PROVE v[k] = s[k]
    <3>1. CASE k <= top
      <4>1. v[k] = u[k]
        BY <3>1, <1>3, <1>7, <1>8
      <4> QED BY <4>1, <3>1, <1>3, <1>7
    <3>2. CASE ~(k <= top)
      <4> DEFINE j == k - top
      <4>1. j \in 1 .. l /\ k = top + j
        BY <3>2, <1>1, <1>3
      <4> HIDE DEF j
      <4>2. v[Len(u) + j] = t[j]
        BY <4>1, <1>7, <1>8, JoinedAt
      <4> HIDE DEF v
      <4> QED BY <4>1, <4>2, <1>5, <1>7
    <3> QED BY <3>1, <3>2
  <2> HIDE DEF v
  <2>3. v = s
    BY <2>1, <2>2
  <2> QED BY <2>3 DEF v
<1> QED BY <1>6, <1>9

\* A flushed buffer: one byte for each Width bits, or part of them; the bytes
\* that were full spell the bits of s.
Closed(x, s) ==
    /\ x.index = (Len(s) + Width - 1) \div Width
    /\ \A a \in 0 .. (Len(s) \div Width) - 1 : Spells(x.bytes[a], Width, s, Width * a)

\* bit.c:217-224: the flush closes the buffer.
LEMMA FlushCloses ==
    ASSUME NEW size \in Nat, NEW x \in Writers(size), NEW B, NEW s \in Seq(B),
           HoldsBits(x, s, Len(s)), Len(s) <= Width * size
    PROVE  Writer!Flushed(x) \in Writers(size) /\ Closed(Writer!Flushed(x), s)
<1> DEFINE i == x.index
           l == x.currentLen
           n == Len(s)
           y == Writer!Flushed(x)
           up == (n + Width) - 1
<1>0. Width \in Nat \ {0} /\ Width \in Nat /\ n \in Nat
  BY WidthAssumption
<1>1. /\ i \in Nat /\ l \in 0 .. Width - 1 /\ n = Width * i + l
      /\ \A a \in 0 .. i - 1 : Spells(x.bytes[a], Width, s, Width * a)
  BY DEF HoldsBits
<1>2. n \div Width = i
  <2> HIDE DEF n, i, l
  <2> QED BY <1>0, <1>1, DivisionUnique
<1>3. n + Width - 1 = up
  <2> HIDE DEF n
  <2> QED BY <1>0
<1>4. CASE l = 0
  <2>1. y = x
    BY <1>4 DEF Writer!Flushed
  <2>2. up \div Width = i
    <3> DEFINE o == Width - 1
    <3>1. up = Width * i + o /\ o \in 0 .. Width - 1 /\ up \in Int
      <4> DEFINE e == Width * i
      <4>1. e \in Nat /\ n = e + l
        BY <1>0, <1>1
      <4> HIDE DEF e, n, l
      <4>2. up = e + o /\ up \in Int
        BY <4>1, <1>0, <1>4
      <4>3. o \in 0 .. Width - 1
        BY <1>0
      <4> HIDE DEF up, o
      <4> QED BY <4>2, <4>3 DEF e
    <3>2. i \in Int
      BY <1>1
    <3> HIDE DEF o, up, i, n, l, y
    <3> QED BY <3>1, <3>2, <1>0, DivisionUnique
  <2> HIDE DEF y, n, up
  <2>3. Closed(x, s)
    BY <1>1, <1>2, <1>3, <2>2 DEF Closed, n
  <2>4. y \in Writers(size) /\ Closed(y, s)
    BY <2>1, <2>3
  <2> QED BY <2>4 DEF y
<1>5. CASE l # 0
  <2> DEFINE byte == Writer!Truncated(x.current * 2^(Width - l))
             b == [x.bytes EXCEPT ![x.index] = byte]
             j == x.index + 1
             X == [x EXCEPT !.current = byte, !.bytes = b, !.index = j, !.currentLen = 0]
  <2>1. y = [x EXCEPT !.current = byte, !.bytes[x.index] = byte,
                      !.index = @ + 1, !.currentLen = 0]
    BY <1>5 DEF Writer!Flushed
  <2>2. y = X
    BY <2>1
  <2> HIDE DEF y
  <2>3. byte \in Nat
    <3> DEFINE e == x.current * 2^(Width - l)
    <3>1. e \in Nat
      <4>1. 2^(Width - l) \in Nat /\ x.current \in Nat
        <5>1. Width - l \in Nat
          BY <1>0, <1>1
        <5> HIDE DEF l
        <5> QED BY <5>1, PowerStep DEF Writers
      <4> DEFINE f == 2^(Width - l)
      <4>2. f \in Nat
        BY <4>1
      <4> HIDE DEF f
      <4>3. x.current * f \in Nat
        BY <4>1, <4>2
      <4> QED BY <4>3 DEF f
    <3> HIDE DEF e
    <3>2. 2^Width \in Nat \ {0} /\ e \in Int
      BY <3>1, <1>0, PowerStep
    <3>3. e % 2^Width \in 0 .. 2^Width - 1
      BY <3>2, Division
    <3>4. Writer!Truncated(e) \in Nat
      BY <3>2, <3>3 DEF Writer!Truncated
    <3> QED BY <3>4 DEF e
  <2>4. i < size
    <3> DEFINE e == Width * size
               p == Width * i
    <3>1. e \in Nat /\ p \in Nat /\ n = p + l /\ n <= e
      BY <1>0, <1>1
    <3>2. p < e
      <4> HIDE DEF e, p, n, l
      <4> QED BY <3>1, <1>0, <1>1, <1>5
    <3> QED BY <3>2, <1>0, <1>1, FewerRounds
  <2> HIDE DEF byte
  <2>5. x.bytes \in [0 .. size - 1 -> Nat]
    BY DEF Writers
  <2>6. /\ b \in [0 .. size - 1 -> Nat]
        /\ \A a \in 0 .. size - 1 : b[a] = IF a = i THEN byte ELSE x.bytes[a]
    BY <2>3, <2>5
  <2>7. j \in Nat
    BY <1>1
  <2> HIDE DEF b, j, n, up
  <2>8. X \in Writers(size) /\ X.bytes = b /\ X.index = j
    BY <2>3, <2>6, <2>7 DEF Writers
  <2> HIDE DEF X
  <2>9. up \div Width = j
    <3> DEFINE o == l - 1
    <3>1. up = Width * (i + 1) + o /\ o \in 0 .. Width - 1 /\ up \in Int /\ i + 1 \in Int
      <4> DEFINE e == Width * i
                 f == Width * (i + 1)
      <4>1. e \in Nat /\ n = e + l /\ f = e + Width
        BY <1>0, <1>1
      <4> HIDE DEF e, f, i, l
      <4> QED BY <4>1, <1>0, <1>1, <1>5 DEF up
    <3>2. j = i + 1
      BY DEF j
    <3> HIDE DEF o, i
    <3> QED BY <3>1, <3>2, <1>0, DivisionUnique
  <2>10. ASSUME NEW a \in 0 .. i - 1 PROVE Spells(X.bytes[a], Width, s, Width * a)
    <3>1. a \in 0 .. size - 1 /\ a # i
      BY <2>4, <1>1
    <3> QED BY <3>1, <2>6, <2>8, <1>1
  <2>11. Closed(X, s)
    BY <1>2, <1>3, <2>8, <2>9, <2>10 DEF Closed, n
  <2>12. y \in Writers(size) /\ Closed(y, s)
    BY <2>2, <2>8, <2>11
  <2> QED BY <2>12 DEF y
<1> QED BY <1>4, <1>5
-----------------------------------------------------------------------------
(* The reader.                                                             *)

\* The bits of the bytes m, the highest of a byte first.
BitsIn(m) == [k \in Nat |-> BitAt(m, k - 1)]

\* m holds n bytes, or numbers where a byte is expected.
Numbers(m, n) == Len(m) = n /\ \A k \in 1 .. n : m[k] \in Nat

\* A byte shows the bits that are counted in it.
LEMMA ByteShows ==
    ASSUME NEW m, NEW a \in Nat, m[a + 1] \in Nat
    PROVE  Shows(m[a + 1], Width, BitsIn(m), Width * a)
<1> DEFINE p == Width * a
<1>0. Width \in Nat \ {0} /\ Width \in Nat /\ p \in Nat
  BY WidthAssumption
<1>1. ASSUME NEW j \in 1 .. Width
      PROVE  Digit(m[a + 1], Width - j) = BitsIn(m)[p + j]
  <2> DEFINE k == p + j
             o == j - 1
  <2>1. k \in Nat /\ k - 1 = p + o /\ k - 1 \in Int /\ o \in 0 .. Width - 1
    <3> HIDE DEF p
    <3> QED BY <1>0
  <2>2. (k - 1) \div Width = a /\ (k - 1) % Width = o
    <3> DEFINE e == k - 1
    <3>1. e = Width * a + o /\ e \in Int /\ a \in Int
      BY <2>1
    <3> HIDE DEF e, o
    <3>2. e \div Width = a /\ e % Width = o
      BY <3>1, <2>1, <1>0, DivisionUnique
    <3> QED BY <3>2 DEF e
  <2>3. Width - 1 - o = Width - j
    BY <1>0
  <2> HIDE DEF k, o
  <2>4. BitAt(m, k - 1) = (m[a + 1] \div 2^(Width - j)) % 2
    BY <2>2, <2>3 DEF BitAt
  <2>5. BitsIn(m)[k] = BitAt(m, k - 1)
    BY <2>1 DEF BitsIn
  <2> QED BY <2>4, <2>5 DEF Digit, k
<1> QED BY <1>1 DEF Shows

\* bit.c:284, 294: the next n bits of the byte under way.
LEMMA FieldSpells ==
    ASSUME NEW x, NEW m, NEW a \in Nat, m[a + 1] \in Nat, x.current = m[a + 1],
           x.currentLen \in 0 .. Width, NEW n \in 0 .. x.currentLen
    PROVE  Spells(Field(x, n), n, BitsIn(m), Width * a + (Width - x.currentLen))
<1> DEFINE l == x.currentLen
           e == l - n
           p == Width * a
           s == BitsIn(m)
<1>0. Width \in Nat /\ p \in Nat /\ n \in Nat /\ e \in Nat /\ n + e = l /\ n + e <= Width
  <2>1. Width \in Nat /\ p \in Nat
    BY WidthAssumption
  <2> HIDE DEF p
  <2> QED BY <2>1
<1>1. Shows(x.current, Width, s, p)
  BY ByteShows
<1>2. Field(x, n) = (x.current \div 2^e) % 2^n
  BY DEF Field
<1> HIDE DEF s, p, e
<1>3. Spells((x.current \div 2^e) % 2^n, n, s, p + (Width - (n + e)))
  BY <1>0, <1>1, SpellsMiddle
<1>4. Width - (n + e) = Width - l
  BY <1>0
<1> QED BY <1>2, <1>3, <1>4 DEF s, p

\* bit.c, reverse_table: bit j from the top is bit j from the bottom.
LEMMA ReversedDigits ==
    ASSUME NEW b \in Nat
    PROVE  /\ reverse_byte(b) \in Nat
           /\ \A j \in 1 .. Width : Digit(reverse_byte(b), Width - j) = Digit(b, j - 1)
<1> DEFINE s == [j \in Nat |-> Digit(b, j - 1)]
           step(a, j) == 2 * a + ((b \div 2^(j - 1)) % 2)
           g == [u \in (1 .. Width) \X Nat |-> step(u[2], u[1])]
           Is(t) == t = [k \in 0 .. Width |-> IF k = 0 THEN 0 ELSE step(t[k - 1], k)]
           W == CHOOSE t : Is(t)
<1>0. Width \in Nat
  BY WidthAssumption
<1>1. ASSUME NEW j \in 1 .. Width
      PROVE  s[j] = Digit(b, j - 1) /\ s[j] \in {0, 1} /\ (b \div 2^(j - 1)) % 2 = s[j]
  <2>1. j - 1 \in Nat /\ j \in Nat
    OBVIOUS
  <2>2. Digit(b, j - 1) \in {0, 1}
    BY <2>1, BitIsBit
  <2> QED BY <2>1, <2>2 DEF Digit
<1> HIDE DEF s
<1>2. ASSUME NEW j \in 1 .. Width, NEW a \in Nat
      PROVE  g[<<j, a>>] = step(a, j) /\ step(a, j) \in Nat /\ step(a, j) = 2 * a + s[j]
  <2>1. step(a, j) = 2 * a + s[j]
    BY <1>1
  <2>2. 2 * a + s[j] \in Nat
    BY <1>1
  <2>3. g[<<j, a>>] = step(a, j)
    OBVIOUS
  <2> HIDE DEF step, g
  <2> QED BY <2>1, <2>2, <2>3
<1> HIDE DEF step
<1>3. PICK f : Follows(f, g, Width, Nat, 0)
  <2>1. StepOn(g, Width, Nat)
    <3> HIDE DEF g
    <3>1. \A j \in 1 .. Width, a \in Nat : g[<<j, a>>] \in Nat
      BY <1>2
    <3> QED BY <3>1 DEF StepOn
  <2> HIDE DEF g
  <2> DEFINE z == 0
  <2>2. z \in Nat
    OBVIOUS
  <2> HIDE DEF z
  <2>3. \E f : Follows(f, g, Width, Nat, z)
    BY <2>1, <2>2, <1>0, RecursionExists
  <2> QED BY <2>3 DEF z
<1>4. /\ f \in [0 .. Width -> Nat] /\ f[0] = 0
      /\ \A j \in 1 .. Width : f[j] = step(f[j - 1], j)
  <2> HIDE DEF g
  <2>1. /\ f \in [0 .. Width -> Nat] /\ f[0] = 0
        /\ \A j \in 1 .. Width : f[j] = g[<<j, f[j - 1]>>]
    BY <1>3 DEF Follows
  <2>2. ASSUME NEW j \in 1 .. Width PROVE f[j] = step(f[j - 1], j)
    <3> HIDE DEF Is, W
    <3>1. j - 1 \in 0 .. Width
      BY <1>0
    <3>2. f[j - 1] \in Nat
      BY <3>1, <2>1
    <3>3. g[<<j, f[j - 1]>>] = step(f[j - 1], j)
      BY <3>2, <1>2
    <3> QED BY <3>3, <2>1
  <2> QED BY <2>1, <2>2
<1>5. Is(f)
  <2> HIDE DEF g
  <2>1. \A k \in 0 .. Width : f[k] = IF k = 0 THEN 0 ELSE step(f[k - 1], k)
    BY <1>4
  <2>2. f = [k \in 0 .. Width |-> f[k]]
    BY <1>4
  <2> QED BY <2>1, <2>2
<1>6. Is(W)
  <2> HIDE DEF Is
  <2> QED BY <1>5
<1>7. reverse_byte(b) = W[Width]
  BY DEF reverse_byte, step
<1> HIDE DEF W, g
<1>8. W = [k \in 0 .. Width |-> IF k = 0 THEN 0 ELSE step(W[k - 1], k)]
  BY <1>6
<1> DEFINE A == {k \in Nat : k <= Width => W[k] \in Nat /\ Spells(W[k], k, s, 0)}
<1>9. 0 \in A
  <2>1. W[0] = 0
    BY <1>0, <1>8
  <2>2. Spells(0, 0, s, 0)
    BY SpellsNothing
  <2> QED BY <2>1, <2>2
<1>10. ASSUME NEW k \in Nat, k \in A PROVE k + 1 \in A
  <2> SUFFICES ASSUME k + 1 <= Width
               PROVE  W[k + 1] \in Nat /\ Spells(W[k + 1], k + 1, s, 0)
    OBVIOUS
  <2>1. k + 1 \in 1 .. Width /\ k + 1 \in 0 .. Width /\ (k + 1) - 1 = k /\ k <= Width /\ k + 1 # 0
    BY <1>0
  <2>2. W[k] \in Nat /\ Spells(W[k], k, s, 0)
    BY <1>10, <2>1
  <2>3. W[k + 1] = 2 * W[k] + s[k + 1]
    <3>1. W[k + 1] = step(W[k], k + 1)
      BY <1>8, <2>1
    <3> QED BY <3>1, <2>1, <2>2, <1>2
  <2> DEFINE bit == s[k + 1]
             x == W[k]
             z == 0
  <2>4. bit \in {0, 1} /\ s[z + (k + 1)] = bit /\ x \in Nat /\ Spells(x, k, s, z)
    <3>1. z + (k + 1) = k + 1
      OBVIOUS
    <3> QED BY <3>1, <2>1, <2>2, <1>1
  <2> HIDE DEF bit, x, z
  <2>5. Spells(2 * x + bit, k + 1, s, z) /\ 2 * x + bit \in Nat
    BY <2>4, SpellsOneMore
  <2> QED BY <2>3, <2>5 DEF bit, x, z
<1>11. Width \in A
  <2> HIDE DEF A
  <2> QED BY <1>0, <1>9, <1>10, SetInduction
<1>12. W[Width] \in Nat /\ Spells(W[Width], Width, s, 0)
  BY <1>0, <1>11
<1>13. ASSUME NEW j \in 1 .. Width PROVE Digit(W[Width], Width - j) = Digit(b, j - 1)
  <2>1. Digit(W[Width], Width - j) = s[0 + j]
    BY <1>12 DEF Spells
  <2>2. 0 + j = j
    OBVIOUS
  <2> QED BY <2>1, <2>2, <1>1
<1> QED BY <1>7, <1>12, <1>13

\* bit.c:296: a value of n bits, turned around.
LEMMA TurnedDigits ==
    ASSUME NEW n \in 1 .. Width, NEW x \in Nat, NEW s, NEW p \in Nat, Spells(x, n, s, p),
           NEW i \in 0 .. n - 1
    PROVE  Digit(reverse_byte(x) \div 2^(Width - n), i) = s[p + (i + 1)]
<1> DEFINE e == Width - n
           v == reverse_byte(x)
           j == n - i
<1>0. /\ Width \in Nat /\ e \in Nat /\ i \in Nat /\ j \in 1 .. Width
      /\ e + i = Width - j /\ j - 1 = n - (i + 1) /\ i + 1 \in 1 .. n
  BY WidthAssumption
<1>1. v \in Nat /\ \A k \in 1 .. Width : Digit(v, Width - k) = Digit(x, k - 1)
  BY ReversedDigits
<1> HIDE DEF v, e
<1>2. Digit(v \div 2^e, i) = Digit(v, e + i)
  BY <1>0, <1>1, BitsMovedDown
<1>3. Digit(x, n - (i + 1)) = s[p + (i + 1)]
  BY <1>0 DEF Spells
<1> HIDE DEF j
<1>4. Digit(v, e + i) = Digit(x, n - (i + 1))
  BY <1>0, <1>1
<1> QED BY <1>2, <1>3, <1>4 DEF v, e

\* The last n bits before place t, the first of them lowest.
Returned(value, n, m, t) ==
    \A i \in 0 .. n - 1 : Digit(value, i) = BitAt(m, (t - n) + i)

\* bit.c:279-297: a read returns the next n bits, from one byte or from two.
LEMMA ReadReturns ==
    ASSUME NEW size \in Nat, NEW m, Numbers(m, size), NEW x, NEW t \in Nat,
           ReaderAt(x, m, t), NEW n \in 1 .. Width, t + n <= Width * size
    PROVE  /\ ReaderAt(ReadBits(x, n).next, m, t + n)
           /\ Returned(ReadBits(x, n).value, n, m, t + n)
<1> DEFINE l == x.currentLen
           a == x.index
           p == Width * a
           s == BitsIn(m)
           crosses == l < n
           head == IF crosses THEN Field(x, l) ELSE 0
           more == IF crosses THEN n - l ELSE n
           y == IF crosses THEN Fetched(x) ELSE x
           read == head * 2^more + Field(y, more)
           z == [y EXCEPT !.currentLen = @ - more]
<1>0. Width \in Nat \ {0} /\ Width \in Nat
  BY WidthAssumption
<1>1. /\ DOMAIN x = {"bytes", "index", "current", "currentLen"}
      /\ x.bytes = m /\ a \in Nat /\ l \in 0 .. Width /\ x.current = m[a + 1]
  BY DEF ReaderAt
<1>2. p \in Nat /\ t = p + (Width - l)
  <2>1. p \in Nat
    BY <1>0, <1>1
  <2>2. t = p + (Width - l)
    BY DEF ReaderAt, Place
  <2> QED BY <2>1, <2>2
<1>3. ReadBits(x, n).next = z /\ ReadBits(x, n).value = reverse_byte(read) \div 2^(Width - n)
  BY DEF ReadBits
<1>4. /\ ReaderAt(z, m, t + n)
      /\ Spells(read, n, s, t)
  <2>1. CASE l < n
    <3> DEFINE k == n - l
               X == Fetched(x)
               c == a + 1
               P == Width * c
    <3>1. /\ DOMAIN X = {"bytes", "index", "current", "currentLen"}
          /\ X.bytes = m /\ X.index = c /\ X.currentLen = Width /\ X.current = m[c + 1]
      <4>1. X = [x EXCEPT !.index = @ + 1, !.current = x.bytes[x.index + 2],
                          !.currentLen = Width]
        BY DEF Fetched
      <4>2. (a + 1) + 1 = a + 2
        BY <1>1
      <4> HIDE DEF X
      <4> QED BY <4>1, <4>2, <1>1
    <3>2. more = k /\ y = X /\ head = Field(x, l)
      BY <2>1
    <3> HIDE DEF X, y, more, head
    <3>3. /\ k \in 1 .. Width /\ k \in Nat /\ c \in Nat /\ P = p + Width /\ P \in Nat
          /\ l \in Nat /\ l + k = n /\ t + l = P
      <4>1. P = p + Width /\ c \in Nat
        BY <1>0, <1>1
      <4> HIDE DEF P, p, a, c, l
      <4> QED BY <4>1, <2>1, <1>0, <1>1, <1>2
    <3>4. c < size /\ a < size
      <4> DEFINE e == Width * size
      <4>1. P < e
        <5>1. t + n <= e /\ e \in Nat
          BY <1>0
        <5> HIDE DEF P, p, e, l, c
        <5> QED BY <5>1, <3>3, <2>1, <1>0, <1>1
      <4>2. c < size
        BY <4>1, <3>3, <1>0, FewerRounds
      <4> QED BY <4>2, <1>1
    <3>5. m[a + 1] \in Nat /\ m[c + 1] \in Nat
      <4>1. a + 1 \in 1 .. size /\ c + 1 \in 1 .. size
        BY <3>4, <1>1
      <4> QED BY <4>1 DEF Numbers
    <3>6. Spells(head, l, s, t)
      <4>1. l \in 0 .. l
        BY <3>3
      <4>2. Spells(Field(x, l), l, s, p + (Width - l))
        BY <4>1, <3>5, <1>1, FieldSpells
      <4> QED BY <4>2, <3>2, <1>2
    <3>7. Spells(Field(X, k), k, s, t + l)
      <4>1. k \in 0 .. X.currentLen /\ X.currentLen \in 0 .. Width
        <5> HIDE DEF k
        <5> QED BY <3>1, <3>3, <1>0
      <4> HIDE DEF k, P, s, c
      <4>2. Spells(Field(X, k), k, BitsIn(m), Width * c + (Width - X.currentLen))
        BY <4>1, <3>1, <3>3, <3>5, FieldSpells
      <4>3. Width * c + (Width - X.currentLen) = t + l
        <5>1. Width * c = P
          BY DEF P
        <5>2. Width - X.currentLen = 0
          BY <3>1, <1>0
        <5> QED BY <5>1, <5>2, <3>3
      <4> QED BY <4>2, <4>3 DEF s
    <3>8. Spells(head * 2^k + Field(X, k), l + k, s, t)
      <4> HIDE DEF k, s, l
      <4> DEFINE f == Field(X, k)
      <4>1. Spells(f, k, s, t + l)
        BY <3>7
      <4> HIDE DEF f
      <4>2. Spells(head * 2^k + f, l + k, s, t)
        BY <4>1, <3>3, <3>6, SpellsJoined
      <4> QED BY <4>2 DEF f
    <3>9. Spells(read, n, s, t)
      <4>1. read = head * 2^k + Field(X, k)
        BY <3>2
      <4> HIDE DEF read, k, l, s
      <4> QED BY <4>1, <3>3, <3>8
    <3>10. ReaderAt(z, m, t + n)
      <4> DEFINE L == Width - k
      <4>1. /\ DOMAIN z = {"bytes", "index", "current", "currentLen"}
            /\ z.bytes = m /\ z.index = c /\ z.currentLen = L /\ z.current = m[c + 1]
        BY <3>1, <3>2
      <4>2. L \in 0 .. Width /\ t + n = P + (Width - L)
        <5>1. L \in 0 .. Width /\ Width - L = k
          <6> HIDE DEF k
          <6> QED BY <3>3, <1>0
        <5> HIDE DEF L, k, P, p, l, c
        <5> QED BY <5>1, <3>3
      <4> HIDE DEF z, L
      <4>3. Place(t + n, Width, z.index, z.currentLen)
        BY <4>1, <4>2 DEF Place
      <4>4. z.index \in Nat /\ z.currentLen \in 0 .. Width /\ z.current = m[z.index + 1]
        BY <4>1, <4>2, <3>3
      <4> QED BY <4>1, <4>3, <4>4 DEF ReaderAt
    <3> QED BY <3>9, <3>10
  <2>2. CASE ~(l < n)
    <3>1. more = n /\ y = x /\ head = 0
      BY <2>2
    <3> HIDE DEF more, y, head
    <3>2. n \in 0 .. l /\ n \in Nat
      <4> HIDE DEF l
      <4> QED BY <2>2, <1>0, <1>1
    <3>3. m[a + 1] \in Nat
      <4> DEFINE e == Width * size
      <4>1. p < e
        <5>1. t + n <= e /\ e \in Nat
          BY <1>0
        <5> HIDE DEF p, e, l
        <5> QED BY <5>1, <1>0, <1>1, <1>2
      <4>2. a < size
        BY <4>1, <1>0, <1>1, FewerRounds
      <4>3. a + 1 \in 1 .. size
        BY <4>2, <1>1
      <4> QED BY <4>3 DEF Numbers
    <3>4. Spells(read, n, s, t)
      <4>1. Spells(Field(x, n), n, s, p + (Width - l))
        BY <3>2, <3>3, <1>1, FieldSpells
      <4> DEFINE f == Field(x, n)
                 w0 == 2^n
      <4>2. f \in Nat /\ w0 \in Nat
        <5>1. w0 \in Nat
          BY <3>2, PowerStep
        <5> QED BY <4>1, <5>1 DEF Spells
      <4>3. read = 0 * w0 + f
        BY <3>1
      <4> HIDE DEF f, w0, read
      <4>4. read = f
        BY <4>2, <4>3
      <4> QED BY <4>1, <4>4, <1>2 DEF f
    <3>5. ReaderAt(z, m, t + n)
      <4> DEFINE L == l - n
      <4>1. /\ DOMAIN z = {"bytes", "index", "current", "currentLen"}
            /\ z.bytes = m /\ z.index = a /\ z.currentLen = L /\ z.current = m[a + 1]
        BY <3>1, <1>1
      <4>2. L \in 0 .. Width /\ t + n = p + (Width - L)
        <5> HIDE DEF p, l
        <5> QED BY <3>2, <1>0, <1>1, <1>2
      <4> HIDE DEF z, L
      <4>3. Place(t + n, Width, z.index, z.currentLen)
        BY <4>1, <4>2 DEF Place
      <4>4. z.index \in Nat /\ z.currentLen \in 0 .. Width /\ z.current = m[z.index + 1]
        BY <4>1, <4>2, <1>1
      <4> QED BY <4>1, <4>3, <4>4 DEF ReaderAt
    <3> QED BY <3>4, <3>5
  <2> QED BY <2>1, <2>2
<1>5. Returned(reverse_byte(read) \div 2^(Width - n), n, m, t + n)
  <2> HIDE DEF read, z, y, head, more, s
  <2>1. ASSUME NEW i \in 0 .. n - 1
        PROVE  Digit(reverse_byte(read) \div 2^(Width - n), i) = BitAt(m, ((t + n) - n) + i)
    <3>1. read \in Nat
      BY <1>4 DEF Spells
    <3>2. Digit(reverse_byte(read) \div 2^(Width - n), i) = s[t + (i + 1)]
      BY <3>1, <1>4, TurnedDigits
    <3> DEFINE k == t + (i + 1)
    <3>3. k \in Nat /\ k - 1 = ((t + n) - n) + i
      BY <1>0
    <3> HIDE DEF k
    <3>4. BitsIn(m)[k] = BitAt(m, k - 1)
      BY <3>3 DEF BitsIn
    <3> QED BY <3>2, <3>3, <3>4 DEF k, s
  <2> QED BY <2>1 DEF Returned
<1> HIDE DEF z, read
<1> QED BY <1>3, <1>4, <1>5
-----------------------------------------------------------------------------
(* The invariant of the stream.                                            *)

\* The writer holds what was sent, or has closed it; it is within its buffer.
WriterInv ==
    /\ w.len \in Nat \ {0} /\ w \in Writers(w.len)
    /\ sent \in Seq({0, 1}) /\ Len(sent) <= Width * w.len
    /\ open => HoldsBits(w, sent, Len(sent))
    /\ ~open => Closed(w, sent)

\* The reader is where it should be in the closed buffer, and has returned the
\* bits before.
ReaderInv ==
    reading => /\ ~open
               /\ taken \in Nat /\ last.n \in 0 .. taken
               /\ ReaderAt(r, Contents(w), taken)
               /\ Returned(last.value, last.n, Contents(w), taken)

StreamInv == WriterInv /\ ReaderInv

\* What the writer hands to the reader.
LEMMA ContentsAre ==
    ASSUME WriterInv
    PROVE  /\ Numbers(Contents(w), w.len)
           /\ \A a \in 0 .. w.len - 1 : Contents(w)[a + 1] = w.bytes[a]
<1> DEFINE n == w.len
           m == Contents(w)
<1>1. n \in Nat /\ w.bytes \in [0 .. n - 1 -> Nat]
  BY DEF WriterInv, Writers
<1>2. m = [k \in 1 .. n |-> w.bytes[k - 1]]
  BY DEF Contents
<1> HIDE DEF n, m
<1>3. \A k \in 1 .. n : k - 1 \in 0 .. n - 1 /\ w.bytes[k - 1] \in Nat
  BY <1>1
<1>4. Len(m) = n /\ \A k \in 1 .. n : m[k] = w.bytes[k - 1] /\ m[k] \in Nat
  <2>1. m \in [1 .. n -> Nat]
    BY <1>2, <1>3
  <2> QED BY <2>1, <1>1, <1>2, <1>3
<1>5. ASSUME NEW a \in 0 .. n - 1 PROVE m[a + 1] = w.bytes[a]
  <2>1. a + 1 \in 1 .. n /\ (a + 1) - 1 = a
    BY <1>1
  <2> QED BY <2>1, <1>4
<1> QED BY <1>4, <1>5 DEF n, m, Numbers

\* bit.c:16-23: a new buffer holds none of the bits sent, which are none.
LEMMA NewWriter ==
    ASSUME NEW size \in Sizes, NEW byte \in Fills
    PROVE  LET x == Writer!Reconfigured(size, byte)
               s == <<>>
           IN  /\ x.len \in Nat \ {0} /\ x \in Writers(x.len)
               /\ s \in Seq({0, 1}) /\ Len(s) = 0 /\ Len(s) <= Width * x.len
               /\ HoldsBits(x, s, Len(s))
<1> DEFINE x == Writer!Reconfigured(size, byte)
           s == <<>>
<1>0. Width \in Nat \ {0} /\ size \in Nat \ {0} /\ byte \in Nat
  <2>1. Width \in Nat \ {0} /\ size \in Nat \ {0} /\ byte \in Byte
    BY WidthAssumption, StreamAssumption
  <2> QED BY <2>1, PowerStep DEF Byte
<1>1. /\ x.len = size /\ x.index = 0 /\ x.current = 0 /\ x.currentLen = 0
      /\ x \in Writers(size)
  BY <1>0 DEF Writer!Reconfigured, Writers
<1> HIDE DEF x
<1>2. s \in Seq({0, 1}) /\ Len(s) = 0
  OBVIOUS
<1>3. Width * size \in Nat
  BY <1>0
<1>4. HoldsBits(x, s, 0)
  <2>1. 0 \in 0 .. Width - 1 /\ 0 = Width * 0 + 0
    BY <1>0
  <2>2. x.current = 2 * 0
    BY <1>1
  <2>3. Spells(0, x.currentLen, s, Width * x.index)
    BY <1>1, SpellsNothing
  <2> HIDE DEF s
  <2> QED BY <2>1, <2>2, <2>3, <1>1 DEF HoldsBits
<1> QED BY <1>0, <1>1, <1>2, <1>3, <1>4 DEF x

\* Bits sent behind others leave those in place and follow them.
LEMMA Sent ==
    ASSUME NEW x, NEW s \in Seq({0, 1}), HoldsBits(x, s, Len(s)),
           NEW q \in Nat, NEW l \in [1 .. q -> {0, 1}]
    PROVE  LET t == s \o l
           IN  /\ t \in Seq({0, 1}) /\ Len(t) = Len(s) + q
               /\ HoldsBits(x, t, Len(s)) /\ Follow(t, Len(s), l, q)
<1> DEFINE t == s \o l
<1>1. l \in Seq({0, 1}) /\ Len(l) = q /\ Len(s) \in Nat
  OBVIOUS
<1>2. t \in Seq({0, 1}) /\ Len(t) = Len(s) + q
  BY <1>1
<1>3. \A k \in 1 .. Len(s) : s[k] = t[k]
  BY <1>1
<1>4. \A j \in 1 .. q : l[j] = t[Len(s) + j]
  BY <1>1, JoinedAt
<1> HIDE DEF t
<1>5. HoldsBits(x, t, Len(s))
  BY <1>1, <1>3, HoldsAgree
<1> QED BY <1>2, <1>4, <1>5 DEF t, Follow

\* The bits of a single value.
LEMMA LowFirstBits ==
    ASSUME NEW v \in Nat, NEW n \in Nat
    PROVE  Writer!LowFirst(v, n) \in [1 .. n -> {0, 1}]
<1>1. Writer!LowFirst(v, n) = [i \in 1 .. n |-> Digit(v, i - 1)]
  BY DEF Writer!LowFirst, Digit
<1>2. ASSUME NEW i \in 1 .. n PROVE Digit(v, i - 1) \in {0, 1}
  <2>1. i - 1 \in Nat
    OBVIOUS
  <2> QED BY <2>1, BitIsBit
<1> QED BY <1>1, <1>2

\* A list that may be written.
LEMMA ChunkFacts ==
    ASSUME NEW l \in Writer!Chunks
    PROVE  Len(l) \in Nat /\ l \in [1 .. Len(l) -> {0, 1}]
<1>1. PICK n \in 1 .. MaxChunk : l \in [1 .. n -> {0, 1}]
  BY DEF Writer!Chunks, Writer!Bit
<1>2. n \in Nat
  BY StreamAssumption
<1>3. Len(l) = n
  BY <1>1, <1>2
<1> QED BY <1>1, <1>2, <1>3

\* One accepted write: w becomes a writer that holds what is sent behind.
LEMMA WriteKeeps ==
    ASSUME WriterInv, open, NEW q \in Nat, NEW l \in [1 .. q -> {0, 1}],
           sent' = sent \o l, open' = open, Len(sent) + q <= Width * w.len,
           w' \in Writers(w.len), HoldsBits(w', sent \o l, Len(sent) + q)
    PROVE  WriterInv'
<1>1. /\ sent \in Seq({0, 1}) /\ HoldsBits(w, sent, Len(sent)) /\ w.len \in Nat \ {0}
  BY DEF WriterInv
<1>2. sent' \in Seq({0, 1}) /\ Len(sent') = Len(sent) + q
  BY <1>1, Sent
<1>3. w'.len = w.len
  BY DEF Writers
<1>4. HoldsBits(w', sent', Len(sent'))
  BY <1>2
<1> QED BY <1>1, <1>2, <1>3, <1>4 DEF WriterInv

\* bit.c:31-51: a single value.
LEMMA WriteInv ==
    ASSUME WriterInv, NEW n \in 1 .. Width, NEW v \in 0 .. 2^n - 1, Writer!Write(v, n)
    PROVE  WriterInv'
<1> DEFINE l == Writer!LowFirst(v, n)
           t == sent \o l
           size == w.len
<1>0. n \in Nat /\ v \in Nat /\ Width \in Nat
  <2>1. n \in Nat /\ Width \in Nat
    BY WidthAssumption
  <2> QED BY <2>1, PowerStep
<1>1. /\ open /\ size \in Nat /\ w \in Writers(size) /\ sent \in Seq({0, 1})
      /\ HoldsBits(w, sent, Len(sent)) /\ Len(sent) \in Nat
  BY DEF WriterInv, Writer!Write
<1>2. l \in [1 .. n -> {0, 1}]
  BY <1>0, LowFirstBits
<1>3. w' = Writer!PutAll(w, l) /\ sent' = t /\ open' = open
  BY DEF Writer!Write
<1>4. Len(sent) + n <= Width * size
  <2>1. Len(sent) = Width * w.index + w.currentLen /\ w.index \in Nat
    BY <1>1 DEF HoldsBits
  <2>2. w.index * Width + w.currentLen + n <= size * Width
    BY DEF Writer!Write
  <2>3. w.index * Width = Width * w.index /\ size * Width = Width * size
    BY <2>1, <1>0, <1>1
  <2> QED BY <2>1, <2>2, <2>3
<1> HIDE DEF l, size
<1>5. HoldsBits(w, t, Len(sent)) /\ Follow(t, Len(sent), l, n)
  BY <1>0, <1>1, <1>2, Sent
<1> HIDE DEF t
<1>6. /\ Writer!PutAll(w, l) \in Writers(size)
      /\ HoldsBits(Writer!PutAll(w, l), t, Len(sent) + n)
  BY <1>0, <1>1, <1>2, <1>4, <1>5, PutAllHolds
<1>7. w' \in Writers(w.len) /\ HoldsBits(w', t, Len(sent) + n)
  BY <1>3, <1>6 DEF size
<1> QED BY <1>0, <1>1, <1>2, <1>3, <1>4, <1>7, WriteKeeps DEF t, size

\* bit.c:53-133: a list.
LEMMA WriteBitlistInv ==
    ASSUME WriterInv, NEW l \in Writer!Chunks, Writer!WriteBitlist(l)
    PROVE  WriterInv'
<1> DEFINE q == Len(l)
           t == sent \o l
           size == w.len
<1>1. /\ open /\ size \in Nat /\ w \in Writers(size) /\ sent \in Seq({0, 1})
      /\ HoldsBits(w, sent, Len(sent)) /\ Len(sent) \in Nat /\ Len(sent) <= Width * size
  BY DEF WriterInv, Writer!WriteBitlist
<1>2. q \in Nat /\ l \in [1 .. q -> {0, 1}]
  BY ChunkFacts
<1>3. w' = Writer!PutList(w, l) /\ sent' = t /\ open' = open /\ Writer!Fits(w, q)
  BY DEF Writer!WriteBitlist
<1> HIDE DEF q, size
<1>4. Len(sent) + q <= Width * size
  BY <1>1, <1>2, <1>3, RoomCheck
<1>5. HoldsBits(w, t, Len(sent)) /\ Follow(t, Len(sent), l, q)
  BY <1>1, <1>2, Sent
<1> HIDE DEF t
<1>6. /\ Writer!PutList(w, l) \in Writers(size)
      /\ HoldsBits(Writer!PutList(w, l), t, Len(sent) + q)
  BY <1>1, <1>2, <1>4, <1>5, PutListHolds
<1>7. w' \in Writers(w.len) /\ HoldsBits(w', t, Len(sent) + q)
  BY <1>3, <1>6 DEF size
<1> QED BY <1>1, <1>2, <1>3, <1>4, <1>7, WriteKeeps DEF t, size

\* bit.c:135-215: a list from its end.
LEMMA WriteBitlistReversedInv ==
    ASSUME WriterInv, NEW l \in Writer!Chunks, Writer!WriteBitlistReversed(l)
    PROVE  WriterInv'
<1> DEFINE q == Len(l)
           v == Writer!Reverse(l)
           t == sent \o v
           size == w.len
<1>1. /\ open /\ size \in Nat /\ w \in Writers(size) /\ sent \in Seq({0, 1})
      /\ HoldsBits(w, sent, Len(sent)) /\ Len(sent) \in Nat /\ Len(sent) <= Width * size
  BY DEF WriterInv, Writer!WriteBitlistReversed
<1>2. q \in Nat /\ l \in [1 .. q -> {0, 1}]
  BY ChunkFacts
<1>3. w' = Writer!PutReversed(w, l) /\ sent' = t /\ open' = open /\ Writer!Fits(w, q)
  BY DEF Writer!WriteBitlistReversed
<1> HIDE DEF q, size
<1>4. Len(sent) + q <= Width * size
  BY <1>1, <1>2, <1>3, RoomCheck
<1>5. v \in [1 .. q -> {0, 1}]
  BY <1>2, ReversedFacts
<1> HIDE DEF v
<1>6. HoldsBits(w, t, Len(sent)) /\ Follow(t, Len(sent), v, q)
  BY <1>1, <1>2, <1>5, Sent
<1> HIDE DEF t
<1>7. /\ Writer!PutReversed(w, l) \in Writers(size)
      /\ HoldsBits(Writer!PutReversed(w, l), t, Len(sent) + q)
  <2>1. Follow(t, Len(sent), Writer!Reverse(l), q)
    BY <1>6 DEF v
  <2> QED BY <2>1, <1>1, <1>2, <1>4, <1>6, PutReversedHolds
<1>8. w' \in Writers(w.len) /\ HoldsBits(w', t, Len(sent) + q)
  BY <1>3, <1>7 DEF size
<1> QED BY <1>1, <1>2, <1>3, <1>4, <1>5, <1>8, WriteKeeps DEF t, size

\* bit.c:217-224: the flush.
LEMMA FlushInv ==
    ASSUME WriterInv, Writer!FlushByte
    PROVE  WriterInv'
<1> DEFINE size == w.len
<1>1. /\ size \in Nat \ {0} /\ w \in Writers(size) /\ sent \in Seq({0, 1})
      /\ HoldsBits(w, sent, Len(sent)) /\ Len(sent) <= Width * size
  BY DEF WriterInv, Writer!FlushByte
<1>2. w' = Writer!Flushed(w) /\ sent' = sent /\ open' = FALSE
  BY DEF Writer!FlushByte
<1> HIDE DEF size
<1>3. Writer!Flushed(w) \in Writers(size) /\ Closed(Writer!Flushed(w), sent)
  BY <1>1, FlushCloses
<1>4. w' \in Writers(size) /\ Closed(w', sent')
  BY <1>2, <1>3
<1>5. w'.len = size
  BY <1>4 DEF Writers
<1> QED BY <1>1, <1>2, <1>4, <1>5 DEF WriterInv

\* bit.c:264-271: a reader starts at the first bit.
LEMMA FreshReader ==
    ASSUME NEW m
    PROVE  ReaderAt(Reconfigured(m), m, 0)
<1> DEFINE x == Reconfigured(m)
<1>1. Width \in Nat \ {0}
  BY WidthAssumption
<1>2. /\ DOMAIN x = {"bytes", "index", "current", "currentLen"}
      /\ x.bytes = m /\ x.index = 0 /\ x.current = m[1] /\ x.currentLen = Width
  BY DEF Reconfigured
<1> HIDE DEF x
<1>3. Place(0, Width, x.index, x.currentLen)
  <2>1. 0 = Width * 0 + (Width - Width)
    BY <1>1
  <2> QED BY <2>1, <1>2 DEF Place
<1>4. x.index + 1 = 1 /\ Width \in 0 .. Width
  BY <1>1, <1>2
<1>5. ReaderAt(x, m, 0)
  BY <1>2, <1>3, <1>4 DEF ReaderAt
<1> QED BY <1>5 DEF x

\* The invariant holds at the start.
LEMMA StreamStarts == StreamInit => StreamInv
<1> SUFFICES ASSUME StreamInit PROVE StreamInv
  OBVIOUS
<1>1. PICK size \in Sizes, byte \in Fills :
          w = Writer!Reconfigured(size, byte) /\ sent = <<>> /\ open = TRUE
  BY DEF StreamInit, Writer!Init
<1>2. WriterInv
  BY <1>1, NewWriter DEF WriterInv
<1>3. ReaderInv
  BY DEF StreamInit, ReaderInv
<1> QED BY <1>2, <1>3 DEF StreamInv

\* Every step keeps the invariant.
LEMMA StreamSteps ==
    StreamInv /\ [StreamNext]_<<vars, writerVars, reading>> => StreamInv'
<1> SUFFICES ASSUME StreamInv, [StreamNext]_<<vars, writerVars, reading>>
             PROVE  StreamInv'
  OBVIOUS
<1>0. WriterInv /\ ReaderInv
  BY DEF StreamInv
<1>1. ASSUME NEW size \in Sizes, NEW byte \in Fills, NewBuffer(size, byte)
      PROVE  StreamInv'
  <2>1. w' = Writer!Reconfigured(size, byte) /\ sent' = <<>> /\ open' = TRUE /\ reading' = FALSE
    BY <1>1 DEF NewBuffer, Writer!Reconfigure
  <2>2. WriterInv'
    BY <2>1, NewWriter DEF WriterInv
  <2>3. ReaderInv'
    BY <2>1 DEF ReaderInv
  <2> QED BY <2>2, <2>3 DEF StreamInv
<1>2. ASSUME WriteBits PROVE StreamInv'
  <2>1. WriterInv'
    <3>1. ASSUME NEW n \in 1 .. Width, NEW v \in 0 .. 2^n - 1, Writer!Write(v, n)
          PROVE  WriterInv'
      BY <3>1, <1>0, WriteInv
    <3>2. ASSUME NEW l \in Writer!Chunks, Writer!WriteBitlist(l) PROVE WriterInv'
      BY <3>2, <1>0, WriteBitlistInv
    <3>3. ASSUME NEW l \in Writer!Chunks, Writer!WriteBitlistReversed(l) PROVE WriterInv'
      BY <3>3, <1>0, WriteBitlistReversedInv
    <3>4. ASSUME NEW l \in Writer!Chunks, Writer!Drop(l) PROVE WriterInv'
      BY <3>4, <1>0 DEF Writer!Drop, Writer!vars, WriterInv
    <3>5. ASSUME Writer!FlushByte PROVE WriterInv'
      BY <3>5, <1>0, FlushInv
    <3> QED BY <1>2, <3>1, <3>2, <3>3, <3>4, <3>5 DEF WriteBits
  <2>2. open /\ reading' = reading
    BY <1>2 DEF WriteBits, Writer!Write, Writer!WriteBitlist,
                Writer!WriteBitlistReversed, Writer!Drop, Writer!FlushByte
  <2>3. ReaderInv'
    BY <2>2, <1>0 DEF ReaderInv
  <2> QED BY <2>1, <2>3 DEF StreamInv
<1>3. ASSUME PassOn PROVE StreamInv'
  <2>1. /\ w' = w /\ sent' = sent /\ open' = open /\ ~open
        /\ r' = Reconfigured(Contents(w)) /\ taken' = 0
        /\ last' = [n |-> 0, value |-> 0]
    BY <1>3 DEF PassOn, writerVars, Reconfigure
  <2>2. WriterInv'
    BY <2>1, <1>0 DEF WriterInv
  <2>3. ReaderAt(r', Contents(w)', 0)
    <3>1. Contents(w)' = Contents(w)
      BY <2>1 DEF Contents
    <3> QED BY <3>1, <2>1, FreshReader
  <2>4. Returned(last'.value, last'.n, Contents(w)', taken')
    BY <2>1 DEF Returned
  <2>5. taken' \in Nat /\ last'.n \in 0 .. taken'
    BY <2>1
  <2>6. ReaderInv'
    BY <2>1, <2>3, <2>4, <2>5 DEF ReaderInv
  <2> QED BY <2>2, <2>6 DEF StreamInv
<1>4. ASSUME NEW n \in 1 .. Width, ReadBack(n) PROVE StreamInv'
  <2>1. /\ w' = w /\ sent' = sent /\ open' = open /\ reading /\ reading' = reading
        /\ taken + n <= Len(r.bytes) * Width
        /\ r' = ReadBits(r, n).next /\ taken' = taken + n
        /\ last' = [n |-> n, value |-> ReadBits(r, n).value]
    BY <1>4 DEF ReadBack, Read, writerVars
  <2>2. WriterInv'
    BY <2>1, <1>0 DEF WriterInv
  <2> DEFINE m == Contents(w)
             size == w.len
  <2>3. ~open /\ taken \in Nat /\ ReaderAt(r, m, taken)
    BY <2>1, <1>0 DEF ReaderInv
  <2>4. size \in Nat /\ Numbers(m, size)
    BY <1>0, ContentsAre DEF WriterInv
  <2> HIDE DEF m, size
  <2>5. taken + n <= Width * size
    <3>1. Len(r.bytes) = size
      BY <2>3, <2>4 DEF ReaderAt, Numbers
    <3>2. size * Width = Width * size
      BY <2>4, WidthAssumption
    <3> QED BY <3>1, <3>2, <2>1
  <2>6. /\ ReaderAt(ReadBits(r, n).next, m, taken + n)
        /\ Returned(ReadBits(r, n).value, n, m, taken + n)
    BY <2>3, <2>4, <2>5, ReadReturns
  <2>7. m' = m
    BY <2>1 DEF m, Contents
  <2>8. ReaderAt(r', m', taken') /\ Returned(last'.value, last'.n, m', taken')
    BY <2>1, <2>6, <2>7
  <2>9. taken' \in Nat /\ last'.n \in 0 .. taken'
    <3>1. last'.n = n /\ taken' = taken + n
      BY <2>1
    <3> QED BY <3>1, <2>3, WidthAssumption
  <2>10. ReaderInv'
    BY <2>1, <2>3, <2>8, <2>9 DEF ReaderInv, m
  <2> QED BY <2>2, <2>10 DEF StreamInv
<1>5. CASE UNCHANGED <<vars, writerVars, reading>>
  BY <1>0, <1>5 DEF StreamInv, WriterInv, ReaderInv, Contents, vars, writerVars
<1> QED BY <1>1, <1>2, <1>3, <1>4, <1>5 DEF StreamNext

\* The writer and the reader keep step with the bits that were sent.
THEOREM StreamKeepsStep == StreamSpec => []StreamInv
  BY StreamStarts, StreamSteps, PTL DEF StreamSpec
-----------------------------------------------------------------------------
(* The properties.                                                         *)

\* The room check of the list writers (bit.c:58-65, 140-146) accepts a list
\* just when its bits fit, for every width of a byte, buffer and mix of writes.
THEOREM RoomIsExactCorrect == StreamSpec => []RoomIsExact
<1>1. StreamInv => RoomIsExact
  <2> SUFFICES ASSUME StreamInv, open, NEW n \in 1 .. MaxChunk
               PROVE  Writer!Fits(w, n) <=> Len(sent) + n <= w.len * Width
    BY DEF RoomIsExact, Writer!RoomIsExact
  <2> DEFINE size == w.len
             k == Len(sent)
  <2>1. /\ size \in Nat /\ w \in Writers(size) /\ k \in Nat
        /\ HoldsBits(w, sent, k) /\ k <= Width * size
    BY DEF StreamInv, WriterInv
  <2>2. n \in Nat /\ size * Width = Width * size
    BY <2>1, StreamAssumption, WidthAssumption
  <2> HIDE DEF size, k
  <2>3. Writer!Fits(w, n) <=> k + n <= Width * size
    BY <2>1, <2>2, RoomCheck
  <2> QED BY <2>2, <2>3 DEF size, k
<1> QED BY <1>1, StreamKeepsStep, PTL

\* Single values, lists and reversed lists, in any order and across any byte
\* boundary: the closed bytes and the byte under way are the bits accepted.
THEOREM StreamIsSentCorrect == StreamSpec => []StreamIsSent
<1>1. StreamInv => StreamIsSent
  <2> SUFFICES ASSUME StreamInv, open PROVE Writer!Stream(w) = sent
    BY DEF StreamIsSent, Writer!StreamIsSent
  <2>1. sent \in Seq({0, 1}) /\ HoldsBits(w, sent, Len(sent))
    BY DEF StreamInv, WriterInv
  <2> QED BY <2>1, StreamIsHeld
<1> QED BY <1>1, StreamKeepsStep, PTL

\* The flush (bit.c:217-224) leaves the full bytes alone and rounds the length
\* up, however full the byte under way is.
THEOREM FlushRoundsUpCorrect == StreamSpec => []FlushRoundsUp
<1>1. StreamInv => FlushRoundsUp
  <2> SUFFICES ASSUME StreamInv, ~open
               PROVE  /\ w.index = (Len(sent) + Width - 1) \div Width
                      /\ Writer!Stored(w, Len(sent) \div Width)
                             = SubSeq(sent, 1, (Len(sent) \div Width) * Width)
    BY DEF FlushRoundsUp, Writer!FlushRoundsUp, Writer!bit_writer_length
  <2> DEFINE n == Len(sent)
             whole == n \div Width
  <2>1. sent \in Seq({0, 1}) /\ Closed(w, sent) /\ n \in Nat
    BY DEF StreamInv, WriterInv
  <2>2. whole \in Nat /\ whole * Width <= n
    <3> HIDE DEF n
    <3>1. n \in Int /\ Width \in Nat \ {0}
      BY <2>1, WidthAssumption
    <3>2. whole \in Nat /\ n % Width \in 0 .. Width - 1 /\ n = Width * whole + (n % Width)
      BY <3>1, <2>1, Division
    <3> DEFINE e == Width * whole
               f == n % Width
    <3>3. whole * Width = e /\ e \in Nat /\ n = e + f /\ f \in Nat
      <4>1. whole * Width = e /\ e \in Nat
        <5> HIDE DEF whole
        <5> QED BY <3>1, <3>2
      <4> QED BY <4>1, <3>1, <3>2
    <3> HIDE DEF e, f
    <3>4. e <= n
      BY <3>3
    <3> QED BY <3>2, <3>3, <3>4
  <2>3. \A a \in 0 .. whole - 1 : Spells(w.bytes[a], Width, sent, Width * a)
    BY <2>1 DEF Closed
  <2> HIDE DEF whole
  <2>4. Writer!Stored(w, whole) = SubSeq(sent, 1, whole * Width)
    BY <2>1, <2>2, <2>3, StoredIs
  <2> QED BY <2>1, <2>4 DEF Closed, whole
<1> QED BY <1>1, StreamKeepsStep, PTL

\* What a reader returns (bit.c:279-297) is what was sent, in reads of any
\* lengths, for every width of a byte and every buffer.
THEOREM ReadsBackInOrderCorrect == StreamSpec => []ReadsBackInOrder
<1>1. StreamInv => ReadsBackInOrder
  <2> DEFINE whole == Len(sent) \div Width
             m == Contents(w)
             place(i) == (taken - last.n) + i
  <2> SUFFICES ASSUME StreamInv, reading, NEW i \in 0 .. last.n - 1,
                      place(i) < Width * whole
               PROVE  (last.value \div 2^i) % 2 = sent[place(i) + 1]
    BY DEF ReadsBackInOrder
  <2>0. Width \in Nat \ {0} /\ Width \in Nat
    BY WidthAssumption
  <2>1. /\ WriterInv /\ Closed(w, sent) /\ w.len \in Nat
        /\ Len(sent) \in Nat /\ Len(sent) <= Width * w.len
        /\ Returned(last.value, last.n, m, taken)
        /\ taken \in Nat /\ last.n \in 0 .. taken
    BY DEF StreamInv, WriterInv, ReaderInv
  <2> DEFINE p == place(i)
             a == p \div Width
             o == p % Width
             u == Width * a
  <2>2. p \in Nat /\ p < Width * whole
    BY <2>1
  <2>3. Digit(last.value, i) = BitAt(m, p)
    BY <2>1 DEF Returned
  <2> HIDE DEF p, m
  <2>4. whole \in Nat /\ Width * whole <= Len(sent)
    <3> DEFINE n == Len(sent)
               e == Width * whole
    <3>1. n \in Nat
      BY <2>1
    <3> HIDE DEF n
    <3>2. whole \in Nat /\ n % Width \in 0 .. Width - 1 /\ n = e + (n % Width)
      <4>1. n \in Int
        BY <3>1
      <4> QED BY <4>1, <3>1, <2>0, Division DEF n
    <3>3. e \in Nat
      <4> HIDE DEF whole
      <4> QED BY <3>2, <2>0
    <3> DEFINE f == n % Width
    <3>4. f \in Nat /\ n = e + f
      BY <3>2, <2>0
    <3> HIDE DEF e, f
    <3>5. e <= n
      BY <3>1, <3>3, <3>4
    <3> QED BY <3>2, <3>5 DEF e, n
  <2> HIDE DEF whole
  <2>5. a \in Nat /\ o \in 0 .. Width - 1 /\ p = u + o
    <3>1. p \in Int
      BY <2>2
    <3> QED BY <3>1, <2>0, <2>2, Division
  <2> HIDE DEF a, o
  <2>6. u \in Nat /\ u <= p
    <3>1. u \in Nat
      BY <2>0, <2>5
    <3> HIDE DEF u
    <3> QED BY <3>1, <2>0, <2>5
  <2>7. a < whole /\ a < w.len
    <3> DEFINE e == Width * whole
               f == Width * w.len
    <3>1. e \in Nat /\ f \in Nat /\ p < e /\ e <= f
      <4>1. e \in Nat /\ f \in Nat
        BY <2>0, <2>1, <2>4
      <4>2. p < e /\ e <= Len(sent) /\ Len(sent) <= f
        BY <2>1, <2>2, <2>4
      <4> HIDE DEF e, f
      <4> QED BY <4>1, <4>2, <2>1
    <3>2. u < e /\ u < f
      <4> HIDE DEF e, f, u
      <4> QED BY <3>1, <2>2, <2>6
    <3> QED BY <3>2, <2>0, <2>1, <2>4, <2>5, FewerRounds
  <2>8. m[a + 1] = w.bytes[a]
    <3>1. a \in 0 .. w.len - 1
      BY <2>1, <2>5, <2>7
    <3> QED BY <3>1, <2>1, ContentsAre DEF m
  <2>9. Spells(w.bytes[a], Width, sent, u)
    <3>1. a \in 0 .. whole - 1
      BY <2>4, <2>5, <2>7
    <3> QED BY <3>1, <2>1 DEF Closed, whole
  <2>10. BitAt(m, p) = Digit(w.bytes[a], Width - 1 - o)
    BY <2>8 DEF BitAt, Digit, a, o
  <2>11. Digit(w.bytes[a], Width - 1 - o) = sent[p + 1]
    <3> DEFINE j == o + 1
    <3>1. j \in 1 .. Width /\ Width - j = Width - 1 - o /\ u + j = p + 1
      <4> HIDE DEF u
      <4> QED BY <2>0, <2>5, <2>6
    <3> HIDE DEF j
    <3>2. Digit(w.bytes[a], Width - j) = sent[u + j]
      BY <3>1, <2>9 DEF Spells
    <3> QED BY <3>1, <3>2
  <2>12. (last.value \div 2^i) % 2 = sent[p + 1]
    BY <2>3, <2>10, <2>11 DEF Digit
  <2> QED BY <2>12 DEF p
<1> QED BY <1>1, StreamKeepsStep, PTL
=============================================================================

------------------------ MODULE ViterbiDecoderProofs ------------------------
(***************************************************************************)
(* What the two decoders keep of the modules they are composed of, for     *)
(* every code, ring, interval and block: the metrics stay double-buffered, *)
(* the loops read each slice once, and the plain decoder's ring is never   *)
(* stale, although a round touches three components at a time and one      *)
(* codec decodes block after block.  And what they are for: the metrics    *)
(* are least distances and the message is a most likely one, for every     *)
(* code whose polynomials tap the newest bit and every interval that       *)
(* leaves room for the sums; the SSE decoder is the plain one.             *)
(***************************************************************************)
EXTENDS SseDecoder, Recursion

-----------------------------------------------------------------------------
(* Sums.                                                                   *)

\* The sum of a sequence with one more value.
LEMMA SumStep ==
    ASSUME NEW n \in Nat, NEW f \in [1 .. n + 1 -> Nat], NEW g \in [1 .. n -> Nat],
           \A j \in 1 .. n : f[j] = g[j]
    PROVE  SumTo(g) \in Nat /\ SumTo(f) = SumTo(g) + f[n + 1]
<1>1. PICK s : Sums(s, f, n + 1) /\ SumTo(f) = s[n + 1]
  BY SumToDef
<1>2. PICK t : Sums(t, g, n) /\ SumTo(g) = t[n]
  BY SumToDef
<1> DEFINE A == {j \in Nat : j <= n => s[j] = t[j]}
<1>3. 0 \in A
  BY <1>1, <1>2 DEF Sums
<1>4. ASSUME NEW j \in Nat, j \in A PROVE j + 1 \in A
  <2> SUFFICES ASSUME j + 1 <= n PROVE s[j + 1] = t[j + 1]
    OBVIOUS
  <2>1. j + 1 \in 1 .. n /\ j + 1 \in 1 .. n + 1 /\ (j + 1) - 1 = j /\ s[j] = t[j]
    BY <1>4
  <2>2. s[j + 1] = s[j] + f[j + 1] /\ t[j + 1] = t[j] + g[j + 1]
    BY <1>1, <1>2, <2>1 DEF Sums
  <2> QED BY <2>1, <2>2
<1>5. n \in A
  <2> HIDE DEF A
  <2> QED BY <1>3, <1>4, SetInduction
<1>6. s[n] = t[n] /\ t[n] \in Nat
  BY <1>5, <1>2 DEF Sums
<1>7. n + 1 \in 1 .. n + 1 /\ (n + 1) - 1 = n
  OBVIOUS
<1>8. s[n + 1] = s[n] + f[n + 1]
  BY <1>1, <1>7 DEF Sums
<1> QED BY <1>1, <1>2, <1>6, <1>8

\* The sum of no values.
LEMMA SumEmpty ==
    ASSUME NEW f \in [1 .. 0 -> Nat]
    PROVE  SumTo(f) = 0
<1>1. PICK s : Sums(s, f, 0) /\ SumTo(f) = s[0]
  BY SumToDef
<1> QED BY <1>1 DEF Sums

\* Two sequences that add up to w at every place.
LEMMA SumsAddUp ==
    ASSUME NEW n \in Nat, NEW f \in [1 .. n -> Nat], NEW g \in [1 .. n -> Nat],
           NEW w \in Nat, \A j \in 1 .. n : f[j] + g[j] = w
    PROVE  /\ SumTo(f) \in Nat /\ SumTo(g) \in Nat
           /\ SumTo(f) + SumTo(g) = n * w
<1>1. PICK s : Sums(s, f, n) /\ SumTo(f) = s[n]
  BY SumToDef
<1>2. PICK t : Sums(t, g, n) /\ SumTo(g) = t[n]
  BY SumToDef
<1> DEFINE A == {j \in Nat : j <= n => s[j] + t[j] = j * w}
<1>3. 0 \in A
  BY <1>1, <1>2 DEF Sums
<1>4. ASSUME NEW j \in Nat, j \in A PROVE j + 1 \in A
  <2> SUFFICES ASSUME j + 1 <= n PROVE s[j + 1] + t[j + 1] = (j + 1) * w
    OBVIOUS
  <2>1. j + 1 \in 1 .. n /\ j \in 0 .. n /\ (j + 1) - 1 = j /\ s[j] + t[j] = j * w
    BY <1>4
  <2>2. s[j + 1] = s[j] + f[j + 1] /\ t[j + 1] = t[j] + g[j + 1] /\ s[j] \in Nat /\ t[j] \in Nat
    BY <1>1, <1>2, <2>1 DEF Sums
  <2>3. f[j + 1] + g[j + 1] = w /\ f[j + 1] \in Nat /\ g[j + 1] \in Nat
    BY <2>1
  <2>4. (j + 1) * w = j * w + w
    OBVIOUS
  <2>5. s[j + 1] + t[j + 1] = (s[j] + t[j]) + (f[j + 1] + g[j + 1])
    BY <2>2, <2>3
  <2>6. s[j + 1] + t[j + 1] = j * w + w
    BY <2>1, <2>3, <2>5
  <2> QED BY <2>4, <2>6
<1>5. n \in A
  <2> HIDE DEF A
  <2> QED BY <1>3, <1>4, SetInduction
<1>6. s[n] \in Nat /\ t[n] \in Nat
  BY <1>1, <1>2 DEF Sums
<1> QED BY <1>1, <1>2, <1>5, <1>6

\* Values of at most w.
LEMMA SumBounded ==
    ASSUME NEW n \in Nat, NEW w \in Nat, NEW f \in [1 .. n -> 0 .. w]
    PROVE  SumTo(f) \in Nat /\ SumTo(f) <= n * w
<1> DEFINE g == [j \in 1 .. n |-> w - f[j]]
<1>1. f \in [1 .. n -> Nat] /\ g \in [1 .. n -> Nat]
  OBVIOUS
<1>2. \A j \in 1 .. n : f[j] + g[j] = w
  OBVIOUS
<1> HIDE DEF g
<1>3. /\ SumTo(f) \in Nat /\ SumTo(g) \in Nat
      /\ SumTo(f) + SumTo(g) = n * w
  BY <1>1, <1>2, SumsAddUp
<1>4. n * w \in Nat
  OBVIOUS
<1> QED BY <1>3, <1>4

-----------------------------------------------------------------------------
(* Paths through the trellis.  A path is an endless sequence of input      *)
(* bits, of which a prefix counts.                                         *)

InputBits == [Nat \ {0} -> {0, 1}]

\* The register's oldest bit is bit T.
T == Order - 1

\* The state and the register after n bits.
PathRegister(u, n) == ShiftRegister(u, n, Order)
PathState(u, n)    == PathRegister(u, n) % Highbit

\* What a slice adds to a path; the decoder loses the first slice.
SliceCost(b, k, y) == IF k < 2 THEN 0 ELSE Distance(y, b.symbols[k], b.soft)
PathCost(b, u, n)  == SumTo([k \in 1 .. n |-> SliceCost(b, k, Table[PathRegister(u, k)])])

\* What the assumptions on the code say of its numbers.
LEMMA TrellisFacts ==
    /\ Order \in Nat /\ T \in Nat /\ T >= 3 /\ Order = T + 1
    /\ Highbit \in Nat \ {0} /\ 2^Order = 2 * Highbit /\ Highbit = 2^T
    /\ Rate \in Nat /\ SoftMax \in Nat \ {0} /\ DistanceMax \in Nat \ {0}
<1>1. Order \in Nat /\ T \in Nat /\ T >= 3 /\ Order = T + 1
  BY TrellisAssumption DEF T
<1>2. 2^T \in Nat \ {0} /\ 2^(T + 1) = 2 * 2^T
  BY <1>1, PowerStep
<1>3. Highbit = 2^T
  BY DEF Highbit, T
<1> QED BY <1>1, <1>2, <1>3, TrellisAssumption

\* The registers and states along a path.
LEMMA PathStep ==
    ASSUME NEW u \in InputBits, NEW n \in Nat
    PROVE  /\ PathRegister(u, n) \in Registers
           /\ PathState(u, n) \in States
           /\ PathRegister(u, n + 1) = 2 * PathState(u, n) + u[n + 1]
           /\ u[n + 1] \in {0, 1}
<1> DEFINE x == PathRegister(u, n)
           y == PathRegister(u, n + 1)
           b == u[n + 1]
           H == Highbit
           s == x % H
           q == x \div H
<1>1. AreBits(u, n) /\ AreBits(u, n + 1) /\ b \in {0, 1}
  BY DEF AreBits, InputBits
<1>2. x \in 0 .. 2^Order - 1 /\ (2 * x + b) % 2^Order = y
  <2>1. Order \in Nat /\ Order >= 1
    BY TrellisFacts
  <2>2. x \in 0 .. 2^Order - 1
    BY <1>1, <2>1, ShiftRegisterBits DEF PathRegister
  <2>3. (2 * x + b) % 2^Order = y
    BY <1>1, <2>1, ShiftRegisterNext DEF PathRegister
  <2> QED BY <2>2, <2>3
<1>3. H \in Nat \ {0} /\ 2^Order = 2 * H
  BY TrellisFacts
<1> HIDE DEF x, y, b, H
<1>4. x \in Nat /\ x \in 0 .. 2 * H - 1
  BY <1>2, <1>3
<1>5. s \in 0 .. H - 1 /\ q \in Nat /\ x = H * q + s
  <2>1. x \in Int
    BY <1>4
  <2>2. x \div H \in Int /\ x % H \in 0 .. H - 1 /\ x = H * (x \div H) + (x % H)
        /\ (x \in Nat => x \div H \in Nat)
    BY <2>1, <1>3, Division
  <2> QED BY <2>2, <1>4
<1>6. q \in {0, 1}
  <2> HIDE DEF q, s
  <2>1. q >= 2 => H * q >= 2 * H
    BY <1>3, <1>5
  <2> QED BY <2>1, <1>3, <1>4, <1>5
<1>7. y = 2 * s + b
  <2> DEFINE m == 2 * H
             e == 2 * s + b
             z == 2 * x + b
  <2> HIDE DEF q, s
  <2>1. m \in Nat \ {0} /\ z \in Int /\ q \in Int /\ e \in 0 .. m - 1
    BY <1>1, <1>3, <1>4, <1>5
  <2>2. z = m * q + e
    <3>1. H * q \in Nat /\ m * q = 2 * (H * q)
      BY <1>3, <1>5
    <3> HIDE DEF m
    <3> QED BY <3>1, <1>1, <1>5
  <2>3. z % m = y
    BY <1>2, <1>3
  <2> HIDE DEF m, e, z
  <2>4. z % m = e
    BY <2>1, <2>2, DivisionUnique
  <2> QED BY <2>3, <2>4 DEF e
<1> QED
  BY <1>1, <1>2, <1>5, <1>7, <1>3 DEF Registers, States, PathState, x, y, b, s, H

\* The states at the start, and how the next follows.
LEMMA PathStart ==
    ASSUME NEW u \in InputBits
    PROVE  PathState(u, 0) = 0
<1> DEFINE x == PathRegister(u, 0)
<1>0. Order \in Nat /\ Highbit \in Nat \ {0}
  BY TrellisFacts
<1>1. AreBits(u, 0)
  BY DEF AreBits
<1>2. /\ x \in 0 .. 2^Order - 1
      /\ \A j \in 0 .. Order - 1 : Digit(x, j) = RecentBit(u, 0, j)
  BY <1>0, <1>1, ShiftRegisterBits DEF PathRegister
<1>3. \A j \in 0 .. Order - 1 : RecentBit(u, 0, j) = 0
  BY <1>0 DEF RecentBit
<1>4. 0 \in 0 .. 2^Order - 1 /\ 0 \in 0 .. 2^0 - 1
  BY <1>0, PowerStep, PowerZero
<1>5. \A j \in 0 .. Order - 1 : Digit(0, j) = 0
  <2> SUFFICES ASSUME NEW j \in 0 .. Order - 1 PROVE Digit(0, j) = 0
    OBVIOUS
  <2>1. j \in Nat /\ 0 <= j
    BY <1>0
  <2> QED BY <2>1, <1>4, BitAbove
<1> HIDE DEF x
<1>6. x = 0
  BY <1>0, <1>2, <1>3, <1>4, <1>5, BitsDetermine
<1>7. 0 % Highbit = 0
  BY <1>0
<1> QED BY <1>6, <1>7 DEF PathState, x

\* Two paths with the same first n bits are the same so far.
Agree(u, v, n) == \A k \in 1 .. n : u[k] = v[k]

\* Paths that agree on n bits go through the same registers up to there.
LEMMA AgreeRegister ==
    ASSUME NEW u, NEW v, NEW n \in Nat, Agree(u, v, n), NEW k \in 0 .. n
    PROVE  PathRegister(u, k) = PathRegister(v, k) /\ PathState(u, k) = PathState(v, k)
<1> DEFINE f == [b \in 1 .. Order |-> IF b <= k THEN u[k + 1 - b] * 2^(b - 1) ELSE 0]
           g == [b \in 1 .. Order |-> IF b <= k THEN v[k + 1 - b] * 2^(b - 1) ELSE 0]
<1>0. Order \in Nat
  BY TrellisFacts
<1>1. ASSUME NEW b \in 1 .. Order, b <= k PROVE u[k + 1 - b] = v[k + 1 - b]
  <2>1. k + 1 - b \in 1 .. n
    BY <1>0, <1>1
  <2> QED BY <2>1 DEF Agree
<1>2. f = g
  BY <1>1
<1>3. PathRegister(u, k) = SumTo(f) /\ PathRegister(v, k) = SumTo(g)
  BY DEF PathRegister, ShiftRegister
<1> HIDE DEF f, g
<1> QED BY <1>2, <1>3 DEF PathState

\* ... and cost the same.
LEMMA AgreeCost ==
    ASSUME NEW b, NEW u, NEW v, NEW n \in Nat, Agree(u, v, n), NEW m \in 0 .. n
    PROVE  PathCost(b, u, m) = PathCost(b, v, m)
<1> DEFINE f == [k \in 1 .. m |-> SliceCost(b, k, Table[PathRegister(u, k)])]
           g == [k \in 1 .. m |-> SliceCost(b, k, Table[PathRegister(v, k)])]
<1>1. \A k \in 1 .. m : PathRegister(u, k) = PathRegister(v, k)
  <2> SUFFICES ASSUME NEW k \in 1 .. m PROVE PathRegister(u, k) = PathRegister(v, k)
    OBVIOUS
  <2>1. k \in 0 .. n
    OBVIOUS
  <2> QED BY <2>1, AgreeRegister
<1>2. f = g
  BY <1>1
<1>3. PathCost(b, u, m) = SumTo(f) /\ PathCost(b, v, m) = SumTo(g)
  BY DEF PathCost
<1> HIDE DEF f, g
<1> QED BY <1>2, <1>3

\* The path that goes on with another bit.
LEMMA OtherBit ==
    ASSUME NEW u \in InputBits, NEW n \in Nat, NEW bit \in {0, 1}
    PROVE  \E v \in InputBits : Agree(v, u, n) /\ v[n + 1] = bit
<1> DEFINE v == [u EXCEPT ![n + 1] = bit]
<1>1. n + 1 \in Nat \ {0} /\ \A k \in 1 .. n : k \in Nat \ {0} /\ k # n + 1
  OBVIOUS
<1>2. v \in InputBits
  BY DEF InputBits
<1>3. v[n + 1] = bit /\ \A k \in 1 .. n : v[k] = u[k]
  BY <1>1 DEF InputBits
<1> QED BY <1>2, <1>3 DEF Agree

\* While the register fills, its oldest bits are clear.
LEMMA EarlyState ==
    ASSUME NEW u \in InputBits, NEW n \in Nat, n <= T
    PROVE  /\ PathState(u, n) < 2^n
           /\ n < T => PathRegister(u, n + 1) = PathState(u, n + 1)
<1> DEFINE A == {k \in Nat : k <= T => PathState(u, k) < 2^k}
<1>0. T \in Nat /\ Highbit = 2^T /\ Highbit \in Nat \ {0}
  BY TrellisFacts
<1>1. 0 \in A
  BY PathStart, PowerZero
<1>2. ASSUME NEW k \in Nat, PathState(u, k) < 2^k, k + 1 <= T
      PROVE  /\ PathRegister(u, k + 1) = PathState(u, k + 1)
             /\ PathState(u, k + 1) < 2^(k + 1)
  <2> DEFINE x == PathState(u, k)
             y == PathRegister(u, k + 1)
             p == 2^k
             e == 2^(k + 1)
  <2>1. y = 2 * x + u[k + 1] /\ u[k + 1] \in {0, 1} /\ x \in Nat
    BY PathStep, <1>0 DEF States
  <2>2. e = 2 * p /\ p \in Nat /\ e \in Nat /\ x < p
    BY <1>2, PowerStep
  <2>3. e <= Highbit
    BY <1>0, <1>2, PowerOrder
  <2>4. PathState(u, k + 1) = y % Highbit
    BY DEF PathState
  <2> HIDE DEF x, y, p, e
  <2>5. y \in Nat /\ y < e
    BY <2>1, <2>2
  <2>6. y \in 0 .. Highbit - 1
    BY <2>3, <2>5, <1>0, <2>2
  <2>7. y % Highbit = y
    BY <2>6, <1>0
  <2> QED BY <2>4, <2>5, <2>7 DEF y, e
<1>3. \A k \in Nat : k \in A
  <2>1. \A k \in Nat : k \in A => k + 1 \in A
    <3> SUFFICES ASSUME NEW k \in Nat, k \in A, k + 1 <= T
                 PROVE  PathState(u, k + 1) < 2^(k + 1)
      OBVIOUS
    <3>1. PathState(u, k) < 2^k
      BY <1>0
    <3> QED BY <3>1, <1>2
  <2> HIDE DEF A
  <2> QED BY <1>1, <2>1, SetInduction
<1>4. PathState(u, n) < 2^n
  BY <1>3
<1>5. n < T => n + 1 <= T
  BY <1>0
<1> QED BY <1>2, <1>4, <1>5

\* Once it is full, its oldest bit is the one T rounds old.
LEMMA OldestBit ==
    ASSUME NEW u \in InputBits, NEW n \in Nat, n >= T
    PROVE  /\ n + 1 - T \in Nat \ {0}
           /\ PathRegister(u, n + 1) = PathState(u, n + 1) + u[n + 1 - T] * Highbit
<1> DEFINE y == PathRegister(u, n + 1)
           H == Highbit
           q == y \div H
           s == y % H
           b == u[n + 1 - T]
<1>0. T \in Nat /\ Order = T + 1 /\ H = 2^T /\ H \in Nat \ {0} /\ 2^Order = 2 * H
      /\ Order \in Nat
  BY TrellisFacts
<1>1. n + 1 - T \in Nat \ {0}
  BY <1>0
<1>2. AreBits(u, n + 1) /\ b \in {0, 1}
  BY <1>1 DEF AreBits, InputBits
<1>3. /\ y \in 0 .. 2^Order - 1
      /\ \A j \in 0 .. Order - 1 : Digit(y, j) = RecentBit(u, n + 1, j)
  BY <1>0, <1>2, ShiftRegisterBits DEF PathRegister
<1>4. RecentBit(u, n + 1, T) = b
  BY <1>0 DEF RecentBit
<1>5. Digit(y, T) = b
  <2>1. T \in 0 .. Order - 1
    BY <1>0
  <2> QED BY <2>1, <1>3, <1>4
<1>6. PathState(u, n + 1) = s
  BY DEF PathState
<1> HIDE DEF y, b
<1>7. q % 2 = b
  BY <1>0, <1>5 DEF Digit
<1> HIDE DEF H
<1>8. s \in 0 .. H - 1 /\ q \in Nat /\ y = H * q + s /\ y \in 0 .. 2 * H - 1
  <2>1. y \in Int /\ y \in Nat /\ y \in 0 .. 2 * H - 1
    BY <1>0, <1>3
  <2>2. y \div H \in Int /\ y % H \in 0 .. H - 1 /\ y = H * (y \div H) + (y % H)
        /\ (y \in Nat => y \div H \in Nat)
    BY <2>1, <1>0, Division
  <2> QED BY <2>1, <2>2
<1> HIDE DEF q, s
<1>9. q \in {0, 1}
  <2>1. q >= 2 => H * q >= 2 * H
    BY <1>0, <1>8
  <2> QED BY <2>1, <1>0, <1>8
<1>10. q = b
  BY <1>7, <1>9
<1>11. y = s + b * H
  <2>1. H * b = b * H
    BY <1>0, <1>9, <1>10
  <2> QED BY <2>1, <1>0, <1>8, <1>9, <1>10
<1> QED BY <1>1, <1>6, <1>11 DEF y, b, H

-----------------------------------------------------------------------------
(* What a slice can cost.                                                  *)

Worst == Rate * SoftMax
Half  == Worst \div 2

\* The bounds on what a slice costs are numbers, the first at least the rate.
LEMMA WorstFacts == Worst \in Nat /\ Half \in Nat /\ 2 * Half <= Worst /\ Rate <= Worst
<1>1. Rate \in Nat /\ SoftMax \in Nat \ {0}
  BY TrellisFacts
<1>2. Rate * SoftMax \in Nat /\ Rate <= Rate * SoftMax
  BY <1>1
<1>3. Worst \in Nat /\ Rate <= Worst
  BY <1>2 DEF Worst
<1> HIDE DEF Worst
<1> QED BY <1>3 DEF Half

\* Every register has an output.
LEMMA TableType == \A r \in Registers : Table[r] \in Outputs
<1> SUFFICES ASSUME NEW r \in Registers, NEW j \in 1 .. Rate
             PROVE  Parity(r, Poly[j]) \in {0, 1}
  BY DEF Table, Outputs
<1> DEFINE A == {k \in 0 .. Order - 1 : BitOf(r, k) = 1 /\ BitOf(Poly[j], k) = 1}
<1>1. IsFiniteSet(0 .. Order - 1) /\ A \subseteq 0 .. Order - 1
  BY TrellisFacts, FS_Interval
<1>2. Cardinality(A) \in Nat
  BY <1>1, FS_Subset, FS_CardinalityType
<1> HIDE DEF A
<1>3. Cardinality(A) % 2 \in {0, 1}
  BY <1>2
<1> QED BY <1>3 DEF Parity, A

\* The block's symbols.
LEMMA SymbolFacts ==
    ASSUME NEW b \in Inputs, NEW k \in 1 .. Len(b.symbols)
    PROVE  /\ b.soft \in BOOLEAN
           /\ b.soft => b.symbols[k] \in [1 .. Rate -> 0 .. SoftMax]
           /\ ~b.soft => b.symbols[k] \in [1 .. Rate -> {0, SoftMax}]
  BY InputsAssumption

\* A hard decision differs from an output or from its complement.
LEMMA HardCost ==
    ASSUME NEW x \in [1 .. Rate -> {0, SoftMax}], NEW y \in Outputs
    PROVE  /\ HardDistance(y, x) \in Nat /\ HardDistance(y, x) <= Rate
           /\ \A z \in Outputs :
                  (\A j \in 1 .. Rate : z[j] = 1 - y[j]) =>
                      HardDistance(y, x) + HardDistance(z, x) = Rate
<1> DEFINE D(o) == {j \in 1 .. Rate : o[j] * SoftMax # x[j]}
<1>0. Rate \in Nat /\ SoftMax \in Nat \ {0}
  BY TrellisFacts
<1>1. IsFiniteSet(1 .. Rate) /\ Cardinality(1 .. Rate) = Rate
  BY <1>0, FS_Interval
<1>2. \A o : HardDistance(o, x) = Cardinality(D(o)) /\ D(o) \subseteq 1 .. Rate
  BY DEF HardDistance
<1>3. ASSUME NEW z \in Outputs, \A j \in 1 .. Rate : z[j] = 1 - y[j]
      PROVE  D(z) = (1 .. Rate) \ D(y)
  <2> SUFFICES ASSUME NEW j \in 1 .. Rate
               PROVE  z[j] * SoftMax # x[j] <=> y[j] * SoftMax = x[j]
    OBVIOUS
  <2>1. y[j] \in {0, 1} /\ z[j] = 1 - y[j] /\ x[j] \in {0, SoftMax}
    BY <1>3 DEF Outputs
  <2>2. 0 * SoftMax = 0 /\ 1 * SoftMax = SoftMax
    BY <1>0
  <2>3. CASE y[j] = 0
    BY <2>1, <2>2, <2>3, <1>0
  <2>4. CASE y[j] = 1
    BY <2>1, <2>2, <2>4, <1>0
  <2> QED BY <2>1, <2>3, <2>4
<1> HIDE DEF D
<1>4. Cardinality(D(y)) \in Nat /\ Cardinality(D(y)) <= Rate /\ IsFiniteSet(D(y))
  BY <1>1, <1>2, FS_Subset, FS_CardinalityType
<1>5. ASSUME NEW z \in Outputs, \A j \in 1 .. Rate : z[j] = 1 - y[j]
      PROVE  HardDistance(y, x) + HardDistance(z, x) = Rate
  <2>1. (1 .. Rate) \cap D(y) = D(y)
    BY <1>2
  <2> DEFINE R == 1 .. Rate
             A == D(y)
             c == Cardinality(A)
  <2>2. /\ IsFiniteSet(R) /\ Cardinality(R) = Rate /\ R \cap A = A
        /\ HardDistance(y, x) = c /\ c \in Nat
    BY <2>1, <1>1, <1>2, <1>4
  <2>3. HardDistance(z, x) = Cardinality(R \ A)
    BY <1>2, <1>3, <1>5
  <2> HIDE DEF R, A
  <2>4. Cardinality(R \ A) = Cardinality(R) - Cardinality(R \cap A)
    BY <2>2, FS_Difference
  <2>5. Cardinality(R \ A) = Rate - c
    BY <2>2, <2>4
  <2> HIDE DEF c
  <2> QED BY <2>2, <2>3, <2>5, <1>0
<1> QED BY <1>2, <1>4, <1>5

\* The gaps to an output and to its complement make up the whole range.
LEMMA SoftCost ==
    ASSUME NEW x \in [1 .. Rate -> 0 .. SoftMax], NEW y \in Outputs
    PROVE  /\ LinearDistance(y, x) \in Nat /\ LinearDistance(y, x) <= Worst
           /\ \A z \in Outputs :
                  (\A j \in 1 .. Rate : z[j] = 1 - y[j]) =>
                      LinearDistance(y, x) + LinearDistance(z, x) <= Worst
<1> DEFINE f(o) == [j \in 1 .. Rate |-> Gap(x[j], o[j] * SoftMax)]
<1>0. Rate \in Nat /\ SoftMax \in Nat \ {0} /\ DistanceMax \in Nat
  BY TrellisFacts
<1>1. ASSUME NEW o \in Outputs PROVE f(o) \in [1 .. Rate -> 0 .. SoftMax]
  <2> SUFFICES ASSUME NEW j \in 1 .. Rate PROVE Gap(x[j], o[j] * SoftMax) \in 0 .. SoftMax
    OBVIOUS
  <2>1. o[j] \in {0, 1} /\ x[j] \in 0 .. SoftMax
    BY DEF Outputs
  <2>2. o[j] * SoftMax = 0 \/ o[j] * SoftMax = SoftMax
    BY <2>1, <1>0
  <2> QED BY <2>1, <2>2, <1>0 DEF Gap
<1>2. \A o : LinearDistance(o, x) = Capped(SumTo(f(o)))
  BY DEF LinearDistance, Total, SumTo
<1>3. \A o \in Outputs : SumTo(f(o)) \in Nat /\ SumTo(f(o)) <= Worst
  <2> SUFFICES ASSUME NEW o \in Outputs PROVE SumTo(f(o)) \in Nat /\ SumTo(f(o)) <= Worst
    OBVIOUS
  <2>1. f(o) \in [1 .. Rate -> 0 .. SoftMax]
    BY <1>1
  <2> HIDE DEF f
  <2> QED BY <2>1, <1>0, SumBounded DEF Worst
<1>4. ASSUME NEW z \in Outputs, \A j \in 1 .. Rate : z[j] = 1 - y[j]
      PROVE  SumTo(f(y)) + SumTo(f(z)) = Worst
  <2> DEFINE a == f(y)
             c == f(z)
  <2>1. ASSUME NEW j \in 1 .. Rate PROVE a[j] + c[j] = SoftMax
    <3>1. y[j] \in {0, 1} /\ z[j] = 1 - y[j] /\ x[j] \in 0 .. SoftMax
      BY <1>4 DEF Outputs
    <3>2. a[j] = Gap(x[j], y[j] * SoftMax) /\ c[j] = Gap(x[j], z[j] * SoftMax)
      OBVIOUS
    <3>3. 0 * SoftMax = 0 /\ 1 * SoftMax = SoftMax
      BY <1>0
    <3> HIDE DEF a, c, f
    <3>4. CASE y[j] = 0
      <4>1. z[j] = 1
        BY <3>1, <3>4
      <4>2. a[j] = Gap(x[j], 0) /\ c[j] = Gap(x[j], SoftMax)
        BY <4>1, <3>2, <3>3, <3>4
      <4> QED BY <4>2, <3>1, <1>0 DEF Gap
    <3>5. CASE y[j] = 1
      <4>1. z[j] = 0
        BY <3>1, <3>5
      <4>2. a[j] = Gap(x[j], SoftMax) /\ c[j] = Gap(x[j], 0)
        BY <4>1, <3>2, <3>3, <3>5
      <4> QED BY <4>2, <3>1, <1>0 DEF Gap
    <3> QED BY <3>1, <3>4, <3>5
  <2>2. a \in [1 .. Rate -> 0 .. SoftMax] /\ c \in [1 .. Rate -> 0 .. SoftMax]
    BY <1>1
  <2> HIDE DEF a, c, f
  <2>3. a \in [1 .. Rate -> Nat] /\ c \in [1 .. Rate -> Nat]
    BY <2>2, <1>0
  <2>4. SumTo(a) + SumTo(c) = Rate * SoftMax
    BY <2>1, <2>3, <1>0, SumsAddUp
  <2> QED BY <2>4 DEF Worst, a, c
<1> HIDE DEF f
<1>5. \A p \in Nat : Capped(p) \in Nat /\ Capped(p) <= p
  BY <1>0 DEF Capped
<1>6. ASSUME NEW z \in Outputs, \A j \in 1 .. Rate : z[j] = 1 - y[j]
      PROVE  LinearDistance(y, x) + LinearDistance(z, x) <= Worst
  <2>1. SumTo(f(y)) + SumTo(f(z)) = Worst
    BY <1>4, <1>6
  <2>2. SumTo(f(y)) \in Nat /\ SumTo(f(z)) \in Nat
    BY <1>3
  <2> QED BY <2>1, <2>2, <1>2, <1>5, WorstFacts
<1> QED BY <1>2, <1>3, <1>5, <1>6, WorstFacts

\* A slice costs Worst at most, and two outputs that differ in every bit cost
\* no more than that together.
LEMMA CostRange ==
    ASSUME NEW b \in Inputs, NEW k \in 1 .. Len(b.symbols), NEW y \in Outputs
    PROVE  /\ Distance(y, b.symbols[k], b.soft) \in Nat
           /\ SliceCost(b, k, y) \in Nat /\ SliceCost(b, k, y) <= Worst
           /\ \A z \in Outputs :
                  (\A j \in 1 .. Rate : z[j] = 1 - y[j]) =>
                      SliceCost(b, k, y) + SliceCost(b, k, z) <= Worst
<1>1. /\ b.soft \in BOOLEAN
      /\ b.soft => b.symbols[k] \in [1 .. Rate -> 0 .. SoftMax]
      /\ ~b.soft => b.symbols[k] \in [1 .. Rate -> {0, SoftMax}]
  BY SymbolFacts
<1> DEFINE x == b.symbols[k]
           d(o) == Distance(o, x, b.soft)
<1>2. /\ d(y) \in Nat /\ d(y) <= Worst
      /\ \A z \in Outputs : (\A j \in 1 .. Rate : z[j] = 1 - y[j]) => d(y) + d(z) <= Worst
  <2>1. CASE b.soft
    <3>1. \A o : d(o) = LinearDistance(o, x)
      BY <2>1 DEF Distance
    <3>2. x \in [1 .. Rate -> 0 .. SoftMax]
      BY <1>1, <2>1
    <3> HIDE DEF d, x
    <3> QED BY <3>1, <3>2, SoftCost
  <2>2. CASE ~b.soft
    <3>1. \A o : d(o) = HardDistance(o, x)
      BY <2>2 DEF Distance
    <3>2. x \in [1 .. Rate -> {0, SoftMax}]
      BY <1>1, <2>2
    <3>3. Rate <= Worst /\ Rate \in Nat /\ Worst \in Nat
      BY WorstFacts, TrellisFacts
    <3> HIDE DEF d, x
    <3>4. /\ HardDistance(y, x) \in Nat /\ HardDistance(y, x) <= Rate
          /\ \A z \in Outputs :
                  (\A j \in 1 .. Rate : z[j] = 1 - y[j]) =>
                      HardDistance(y, x) + HardDistance(z, x) = Rate
      BY <3>2, HardCost
    <3> QED BY <3>1, <3>3, <3>4
  <2> QED BY <2>1, <2>2
<1>3. \A o : SliceCost(b, k, o) = IF k < 2 THEN 0 ELSE d(o)
  BY DEF SliceCost
<1>4. Worst \in Nat /\ 0 + 0 <= Worst
  BY WorstFacts
<1>5. d(y) = Distance(y, b.symbols[k], b.soft)
  OBVIOUS
<1> HIDE DEF d
<1> QED BY <1>2, <1>3, <1>4, <1>5

-----------------------------------------------------------------------------
(* Cheap paths.                                                            *)

\* Every polynomial taps the newest bit: of the two outputs of a state one is
\* the complement of the other.
TapsNewest == \A j \in 1 .. Rate : Poly[j] % 2 = 1

\* The oldest bits of the registers 2s and 2s + 1 are those of s.
LEMMA TwoRegisters ==
    ASSUME NEW s \in States
    PROVE  /\ 2 * s \in Registers /\ 2 * s + 1 \in Registers
           /\ BitOf(2 * s, 0) = 0 /\ BitOf(2 * s + 1, 0) = 1
           /\ \A k \in Nat : BitOf(2 * s, k + 1) = BitOf(2 * s + 1, k + 1)
<1>1. s \in Nat /\ s <= Highbit - 1 /\ Highbit \in Nat /\ 2^Order = 2 * Highbit
  BY TrellisFacts DEF States
<1>2. \A b \in {0, 1} :
          /\ Digit(2 * s + b, 0) = b
          /\ \A k \in Nat : Digit(2 * s + b, k + 1) = Digit(s, k)
  BY <1>1, BitShiftedIn
<1>3. 2 * s + 0 = 2 * s
  BY <1>1
<1>4. \A x, k : BitOf(x, k) = Digit(x, k)
  BY DEF BitOf, Digit
<1>5. 2 * s \in Registers /\ 2 * s + 1 \in Registers
  BY <1>1 DEF Registers
<1>6. 0 \in {0, 1} /\ 1 \in {0, 1}
  OBVIOUS
<1>7. Digit(2 * s, 0) = 0 /\ \A k \in Nat : Digit(2 * s, k + 1) = Digit(s, k)
  BY <1>2, <1>3, <1>6
<1>8. Digit(2 * s + 1, 0) = 1 /\ \A k \in Nat : Digit(2 * s + 1, k + 1) = Digit(s, k)
  BY <1>2, <1>6
<1> QED BY <1>4, <1>5, <1>7, <1>8

\* If all polynomials tap the newest bit, the two branches out of a state have
\* outputs that differ in every bit.
LEMMA Complements ==
    ASSUME TapsNewest, NEW s \in States, NEW j \in 1 .. Rate
    PROVE  Table[2 * s + 1][j] = 1 - Table[2 * s][j]
<1> DEFINE p == Poly[j]
           x == 2 * s
           y == 2 * s + 1
           A == {k \in 0 .. Order - 1 : BitOf(x, k) = 1 /\ BitOf(p, k) = 1}
           B == {k \in 0 .. Order - 1 : BitOf(y, k) = 1 /\ BitOf(p, k) = 1}
           c == Cardinality(A)
<1>0. Order \in Nat /\ Order >= 1
  BY TrellisFacts
<1>1. BitOf(p, 0) = 1
  <2>1. p \in Nat /\ p % 2 = 1
    <3>1. p \in 0 .. 2^Order - 1 /\ 2^Order \in Nat
      BY <1>0, PowerStep, TrellisAssumption
    <3> QED BY <3>1 DEF TapsNewest
  <2>2. p \div 2^0 = p
    BY <2>1, PowerZero
  <2> HIDE DEF p
  <2> QED BY <2>1, <2>2 DEF BitOf
<1>2. /\ x \in Registers /\ y \in Registers
      /\ BitOf(x, 0) = 0 /\ BitOf(y, 0) = 1
      /\ \A k \in Nat : BitOf(x, k + 1) = BitOf(y, k + 1)
  BY TwoRegisters
<1> HIDE DEF p, x, y
<1>3. \A k \in 1 .. Order - 1 : BitOf(x, k) = BitOf(y, k)
  <2> SUFFICES ASSUME NEW k \in 1 .. Order - 1 PROVE BitOf(x, k) = BitOf(y, k)
    OBVIOUS
  <2>1. k - 1 \in Nat /\ (k - 1) + 1 = k
    BY <1>0
  <2> QED BY <2>1, <1>2
<1>4. B = A \cup {0} /\ 0 \notin A
  <2>1. 0 \in B /\ 0 \notin A
    BY <1>0, <1>1, <1>2
  <2>2. \A k \in 0 .. Order - 1 : k # 0 => (k \in A <=> k \in B)
    <3> SUFFICES ASSUME NEW k \in 0 .. Order - 1, k # 0 PROVE k \in A <=> k \in B
      OBVIOUS
    <3>1. k \in 1 .. Order - 1
      BY <1>0
    <3> QED BY <3>1, <1>3
  <2> QED BY <2>1, <2>2
<1>5. IsFiniteSet(0 .. Order - 1) /\ A \subseteq 0 .. Order - 1
  BY <1>0, FS_Interval
<1>6. Table[x][j] = Cardinality(A) % 2 /\ Table[y][j] = Cardinality(B) % 2
  BY <1>2 DEF Table, Parity, p
<1> HIDE DEF A, B
<1>7. IsFiniteSet(A) /\ c \in Nat
  BY <1>5, FS_Subset, FS_CardinalityType
<1>8. Cardinality(B) = c + 1
  BY <1>4, <1>7, FS_AddElement
<1> HIDE DEF c
<1>9. (c + 1) % 2 = 1 - (c % 2)
  BY <1>7
<1> QED BY <1>6, <1>8, <1>9 DEF c, x, y

\* So one of the two costs at most half of what a slice can cost.
LEMMA CheapBit ==
    ASSUME TapsNewest, NEW b \in Inputs, NEW k \in 1 .. Len(b.symbols), NEW s \in States
    PROVE  \E bit \in {0, 1} : SliceCost(b, k, Table[2 * s + bit]) <= Half
<1> DEFINE y == Table[2 * s]
           z == Table[2 * s + 1]
<1>1. y \in Outputs /\ z \in Outputs
  BY TwoRegisters, TableType
<1>2. \A j \in 1 .. Rate : z[j] = 1 - y[j]
  BY Complements
<1>3. 2 * s + 0 = 2 * s
  BY TrellisFacts DEF States
<1>4. SliceCost(b, k, Table[2 * s + 0]) = SliceCost(b, k, y)
  BY <1>3
<1> HIDE DEF y, z
<1>5. /\ SliceCost(b, k, y) \in Nat /\ SliceCost(b, k, z) \in Nat
      /\ SliceCost(b, k, y) + SliceCost(b, k, z) <= Worst
  BY <1>1, <1>2, CostRange
<1> DEFINE c == SliceCost(b, k, y)
           e == SliceCost(b, k, z)
           h == Half
<1>6. c <= h \/ e <= h
  <2>1. c \in Nat /\ e \in Nat /\ c + e <= Worst /\ Worst \in Nat
    BY <1>5, WorstFacts
  <2>2. h = Worst \div 2
    BY DEF Half
  <2> HIDE DEF c, e, h
  <2> QED BY <2>1, <2>2
<1> QED BY <1>4, <1>6 DEF z

\* The cost of a path with one more slice.
LEMMA CostStep ==
    ASSUME NEW b \in Inputs, NEW u \in InputBits, NEW n \in Nat, n + 1 <= Len(b.symbols)
    PROVE  /\ PathCost(b, u, n) \in Nat
           /\ SliceCost(b, n + 1, Table[PathRegister(u, n + 1)]) \in Nat
           /\ SliceCost(b, n + 1, Table[PathRegister(u, n + 1)]) <= Worst
           /\ PathCost(b, u, n + 1)
                  = PathCost(b, u, n) + SliceCost(b, n + 1, Table[PathRegister(u, n + 1)])
<1> DEFINE c(k) == SliceCost(b, k, Table[PathRegister(u, k)])
           f == [k \in 1 .. n + 1 |-> c(k)]
           g == [k \in 1 .. n |-> c(k)]
<1>1. \A k \in 1 .. n + 1 : c(k) \in Nat /\ c(k) <= Worst
  <2> SUFFICES ASSUME NEW k \in 1 .. n + 1 PROVE c(k) \in Nat /\ c(k) <= Worst
    OBVIOUS
  <2>0. Len(b.symbols) \in Nat
    BY InputsAssumption, LengthsAssumption
  <2>1. k \in Nat /\ k \in 1 .. Len(b.symbols)
    BY <2>0
  <2>2. Table[PathRegister(u, k)] \in Outputs
    BY <2>1, PathStep, TableType
  <2> QED BY <2>1, <2>2, CostRange
<1>2. n + 1 \in 1 .. n + 1 /\ f[n + 1] = c(n + 1)
  OBVIOUS
<1>3. \A k \in 1 .. n : k \in 1 .. n + 1 /\ f[k] = g[k]
  OBVIOUS
<1>4. PathCost(b, u, n + 1) = SumTo(f) /\ PathCost(b, u, n) = SumTo(g)
  BY DEF PathCost
<1>5. c(n + 1) = SliceCost(b, n + 1, Table[PathRegister(u, n + 1)])
  OBVIOUS
<1> HIDE DEF c
<1>6. f \in [1 .. n + 1 -> Nat] /\ g \in [1 .. n -> Nat]
  BY <1>1, <1>3
<1> HIDE DEF f, g
<1>7. SumTo(g) \in Nat /\ SumTo(f) = SumTo(g) + f[n + 1]
  BY <1>3, <1>6, SumStep
<1> QED BY <1>1, <1>2, <1>4, <1>5, <1>7

\* No bits cost nothing.
LEMMA CostStart ==
    ASSUME NEW b, NEW u
    PROVE  PathCost(b, u, 0) = 0
<1> DEFINE f == [k \in 1 .. 0 |-> SliceCost(b, k, Table[PathRegister(u, k)])]
<1>1. f \in [1 .. 0 -> Nat] /\ PathCost(b, u, 0) = SumTo(f)
  BY DEF PathCost
<1> HIDE DEF f
<1> QED BY <1>1, SumEmpty

\* Every block is long enough for warm-up and tail.
LEMMA LengthFacts ==
    ASSUME NEW b \in Inputs
    PROVE  Len(b.symbols) \in Nat /\ Len(b.symbols) >= 2 * T
  BY InputsAssumption, LengthsAssumption DEF T

\* What a path costs is a number.
LEMMA CostType ==
    ASSUME NEW b \in Inputs, NEW u \in InputBits, NEW n \in 0 .. Len(b.symbols)
    PROVE  PathCost(b, u, n) \in Nat
<1>0. Len(b.symbols) \in Nat
  BY LengthFacts
<1>1. CASE n = 0
  BY <1>1, CostStart
<1>2. CASE n # 0
  <2>1. n - 1 \in Nat /\ (n - 1) + 1 = n /\ n <= Len(b.symbols)
    BY <1>0, <1>2
  <2> DEFINE m == n - 1
             a == PathCost(b, u, m)
             c == SliceCost(b, m + 1, Table[PathRegister(u, m + 1)])
             e == PathCost(b, u, m + 1)
  <2>2. a \in Nat /\ c \in Nat /\ e = a + c
    BY <2>1, CostStep
  <2>3. e = PathCost(b, u, n)
    BY <2>1
  <2> HIDE DEF a, c, e
  <2> QED BY <2>2, <2>3
<1> QED BY <1>1, <1>2

\* More slices cost at most the worst each.
LEMMA CostOfMore ==
    ASSUME NEW b \in Inputs, NEW u \in InputBits, NEW n \in Nat, NEW m \in Nat,
           n + m <= Len(b.symbols)
    PROVE  /\ PathCost(b, u, n + m) <= PathCost(b, u, n) + m * Worst
           /\ PathCost(b, u, n) <= PathCost(b, u, n + m)
<1> DEFINE c(k) == PathCost(b, u, n + k)
           A == {k \in Nat : k <= m => c(0) <= c(k) /\ c(k) <= c(0) + k * Worst}
<1>0. Len(b.symbols) \in Nat /\ Worst \in Nat
  BY LengthFacts, WorstFacts
<1>1. \A k \in 0 .. m : c(k) \in Nat
  <2> SUFFICES ASSUME NEW k \in 0 .. m PROVE c(k) \in Nat
    OBVIOUS
  <2>1. n + k \in 0 .. Len(b.symbols)
    BY <1>0
  <2> QED BY <2>1, CostType
<1>2. ASSUME NEW k \in Nat, k + 1 <= m PROVE c(k) <= c(k + 1) /\ c(k + 1) <= c(k) + Worst
  <2>1. n + k \in Nat /\ (n + k) + 1 <= Len(b.symbols) /\ (n + k) + 1 = n + (k + 1)
    BY <1>2, <1>0
  <2> DEFINE p == n + k
             a == PathCost(b, u, p)
             d == SliceCost(b, p + 1, Table[PathRegister(u, p + 1)])
             e == PathCost(b, u, p + 1)
  <2>2. a \in Nat /\ d \in Nat /\ d <= Worst /\ e = a + d
    BY <2>1, CostStep
  <2>3. e = c(k + 1) /\ a = c(k)
    BY <2>1
  <2> HIDE DEF a, d, e, c
  <2> QED BY <2>2, <2>3, <1>0
<1> HIDE DEF c
<1>3. 0 \in A
  <2>1. c(0) \in Nat /\ 0 * Worst = 0
    BY <1>0, <1>1
  <2> QED BY <2>1
<1>4. ASSUME NEW k \in Nat, k \in A PROVE k + 1 \in A
  <2> SUFFICES ASSUME k + 1 <= m PROVE c(0) <= c(k + 1) /\ c(k + 1) <= c(0) + (k + 1) * Worst
    OBVIOUS
  <2>1. c(0) \in Nat /\ c(k) \in Nat /\ c(k + 1) \in Nat
    BY <1>1
  <2>2. c(0) <= c(k) /\ c(k) <= c(0) + k * Worst
    BY <1>4
  <2>3. (k + 1) * Worst = k * Worst + Worst /\ k * Worst \in Nat
    BY <1>0
  <2> QED BY <2>1, <2>2, <2>3, <1>2, <1>0
<1>5. m \in A
  <2> HIDE DEF A
  <2> QED BY <1>3, <1>4, SetInduction
<1>6. c(0) <= c(m) /\ c(m) <= c(0) + m * Worst
  BY <1>5
<1>7. c(0) = PathCost(b, u, n) /\ c(m) = PathCost(b, u, n + m)
  BY DEF c
<1> QED BY <1>6, <1>7

\* Some way to go on costs at most half of that.
LEMMA CheapWay ==
    ASSUME TapsNewest, NEW b \in Inputs, NEW u \in InputBits, NEW n \in Nat, NEW m \in Nat,
           n + m <= Len(b.symbols)
    PROVE  \E v \in InputBits : /\ Agree(v, u, n)
                                /\ PathCost(b, v, n + m) <= PathCost(b, u, n) + m * Half
<1> DEFINE Way(k) == \E v \in InputBits :
                         /\ Agree(v, u, n)
                         /\ PathCost(b, v, n + k) <= PathCost(b, u, n) + k * Half
           A == {k \in Nat : k <= m => Way(k)}
<1>0. Len(b.symbols) \in Nat /\ Half \in Nat
  BY LengthFacts, WorstFacts
<1>1. 0 \in A
  <2>1. n \in 0 .. Len(b.symbols) /\ n + 0 = n /\ 0 * Half = 0
    BY <1>0
  <2>2. PathCost(b, u, n) \in Nat
    BY <2>1, CostType
  <2>3. PathCost(b, u, n + 0) <= PathCost(b, u, n) + 0 * Half
    BY <2>1, <2>2
  <2>4. Agree(u, u, n)
    BY DEF Agree
  <2> QED BY <2>3, <2>4
<1>2. ASSUME NEW k \in Nat, k + 1 <= m, Way(k) PROVE Way(k + 1)
  <2> DEFINE p == n + k
  <2>1. p \in Nat /\ p + 1 <= Len(b.symbols) /\ p + 1 = n + (k + 1) /\ n <= p
        /\ p \in 0 .. p /\ p + 1 \in 1 .. Len(b.symbols)
    BY <1>2, <1>0
  <2>2. PICK v \in InputBits : /\ Agree(v, u, n)
                               /\ PathCost(b, v, p) <= PathCost(b, u, n) + k * Half
    BY <1>2
  <2> HIDE DEF p
  <2>3. PathState(v, p) \in States
    BY <2>1, PathStep
  <2>4. PICK bit \in {0, 1} : SliceCost(b, p + 1, Table[2 * PathState(v, p) + bit]) <= Half
    BY <2>1, <2>3, CheapBit
  <2>5. PICK w \in InputBits : Agree(w, v, p) /\ w[p + 1] = bit
    BY <2>1, OtherBit
  <2>6. PathState(w, p) = PathState(v, p) /\ PathCost(b, w, p) = PathCost(b, v, p)
    BY <2>1, <2>5, AgreeRegister, AgreeCost
  <2>7. PathRegister(w, p + 1) = 2 * PathState(v, p) + bit
    BY <2>1, <2>5, <2>6, PathStep
  <2> DEFINE a == PathCost(b, w, p)
             d == SliceCost(b, p + 1, Table[PathRegister(w, p + 1)])
             e == PathCost(b, w, p + 1)
             z == PathCost(b, u, n)
  <2>8. a \in Nat /\ d \in Nat /\ e = a + d
    BY <2>1, CostStep
  <2>9. d <= Half
    BY <2>4, <2>7
  <2>10. a <= z + k * Half
    BY <2>2, <2>6
  <2>11. z \in Nat
    <3>1. n \in 0 .. Len(b.symbols)
      BY <2>1, <1>0
    <3> QED BY <3>1, CostType
  <2>12. (k + 1) * Half = k * Half + Half /\ k * Half \in Nat
    BY <1>0
  <2>13. e <= z + (k + 1) * Half
    <3> HIDE DEF a, d, e, z
    <3> QED BY <2>8, <2>9, <2>10, <2>11, <2>12, <1>0
  <2>14. Agree(w, u, n)
    <3> SUFFICES ASSUME NEW j \in 1 .. n PROVE w[j] = u[j]
      BY DEF Agree
    <3>1. j \in 1 .. p
      BY <2>1
    <3> QED BY <3>1, <2>2, <2>5 DEF Agree
  <2> QED BY <2>1, <2>13, <2>14
<1>3. \A k \in Nat : k \in A => k + 1 \in A
  <2> SUFFICES ASSUME NEW k \in Nat, k \in A, k + 1 <= m PROVE Way(k + 1)
    OBVIOUS
  <2>1. Way(k)
    OBVIOUS
  <2> HIDE DEF Way
  <2> QED BY <2>1, <1>2
<1>4. m \in A
  <2> HIDE DEF A
  <2> QED BY <1>1, <1>3, SetInduction
<1>5. Way(m)
  BY <1>4
<1> QED BY <1>5

\* The register holds the last bits of the path.
LEMMA RegisterDigits ==
    ASSUME NEW u \in InputBits, NEW n \in Nat
    PROVE  /\ PathRegister(u, n) \in 0 .. 2^Order - 1
           /\ \A j \in 0 .. Order - 1 : Digit(PathRegister(u, n), j) = RecentBit(u, n, j)
<1>1. AreBits(u, n)
  BY DEF AreBits, InputBits
<1>2. Order \in Nat
  BY TrellisFacts
<1> QED BY <1>1, <1>2, ShiftRegisterBits DEF PathRegister

\* In T rounds a path gets from anywhere to any state.
LEMMA AnyState ==
    ASSUME NEW b \in Inputs, NEW u \in InputBits, NEW n \in Nat, n + T <= Len(b.symbols),
           NEW s \in States
    PROVE  \E v \in InputBits : /\ PathState(v, n + T) = s
                                /\ PathCost(b, v, n + T) <= PathCost(b, u, n) + T * Worst
<1> DEFINE N == n + T
           v == [k \in Nat \ {0} |-> IF k > n /\ k <= N THEN Digit(s, N - k) ELSE u[k]]
           y == PathRegister(v, N)
<1>0. /\ T \in Nat /\ Order = T + 1 /\ Highbit = 2^T /\ Highbit \in Nat \ {0}
      /\ N \in Nat /\ Order \in Nat /\ s \in Nat /\ s \in 0 .. 2^T - 1
  BY TrellisFacts DEF States
<1>1. v \in InputBits
  <2> SUFFICES ASSUME NEW k \in Nat \ {0} PROVE v[k] \in {0, 1}
    BY DEF InputBits
  <2>1. u[k] \in {0, 1}
    BY DEF InputBits
  <2>2. CASE k > n /\ k <= N
    <3>1. N - k \in Nat
      BY <2>2, <1>0
    <3> QED BY <3>1, <2>2, <1>0, BitIsBit
  <2> QED BY <2>1, <2>2
<1>2. Agree(v, u, n)
  <2> SUFFICES ASSUME NEW k \in 1 .. n PROVE v[k] = u[k]
    BY DEF Agree
  <2>1. k \in Nat \ {0} /\ ~ (k > n)
    OBVIOUS
  <2> QED BY <2>1
<1>3. ASSUME NEW j \in 0 .. T - 1 PROVE v[N - j] = Digit(s, j)
  <2>1. N - j \in Nat \ {0} /\ N - j > n /\ N - j <= N /\ N - (N - j) = j
    BY <1>0
  <2> HIDE DEF N
  <2> QED BY <2>1
<1> HIDE DEF v
<1>4. PathState(v, N) = s
  <2>2. /\ y \in 0 .. 2^Order - 1
        /\ \A j \in 0 .. Order - 1 : Digit(y, j) = RecentBit(v, N, j)
    BY <1>0, <1>1, RegisterDigits
  <2>3. y \in Nat
    BY <2>2, <1>0, PowerStep
  <2>4. \A j \in 0 .. T - 1 : Digit(y, j) = Digit(s, j)
    <3> SUFFICES ASSUME NEW j \in 0 .. T - 1 PROVE Digit(y, j) = Digit(s, j)
      OBVIOUS
    <3>1. j \in 0 .. Order - 1 /\ j + 1 <= N
      BY <1>0
    <3>2. RecentBit(v, N, j) = v[N - j]
      BY <3>1 DEF RecentBit
    <3> QED BY <3>1, <3>2, <2>2, <1>3
  <2> HIDE DEF y, N
  <2>5. /\ y % 2^T \in 0 .. 2^T - 1
        /\ \A j \in 0 .. T - 1 : Digit(y % 2^T, j) = Digit(y, j)
    BY <2>3, <1>0, BitBelow
  <2>6. y % 2^T = s
    BY <2>4, <2>5, <1>0, BitsDetermine
  <2> QED BY <2>6, <1>0 DEF PathState, y
<1>5. PathCost(b, v, n) = PathCost(b, u, n)
  <2>1. n \in 0 .. n
    OBVIOUS
  <2> QED BY <2>1, <1>2, AgreeCost
<1>6. PathCost(b, v, n + T) <= PathCost(b, v, n) + T * Worst
  BY <1>0, <1>1, CostOfMore
<1> QED BY <1>1, <1>4, <1>5, <1>6 DEF N

-----------------------------------------------------------------------------
(* The lookups.                                                            *)

\* seen is a list of groups, the first j among them.
Collected(seen, j, n, U) ==
    /\ seen \in Seq(U)
    /\ \A g \in 0 .. j - 1 : \E k \in 1 .. Len(seen) : seen[k] = Group(g, n)

\* What is in a list stays in it when it grows.
LEMMA CollectedMore ==
    ASSUME NEW n, NEW U, NEW j \in Nat, NEW seen, Collected(seen, j, n, U), Group(j, n) \in U
    PROVE  Collected(seen \o IfNew(j, n), j + 1, n, U)
<1> DEFINE x == Group(j, n)
           met == \E h \in 0 .. j - 1 : Group(h, n) = Group(j, n)
           more == seen \o <<x>>
<1>1. /\ seen \in Seq(U) /\ x \in U /\ Len(seen) \in Nat
      /\ \A g \in 0 .. j - 1 : \E k \in 1 .. Len(seen) : seen[k] = Group(g, n)
  BY DEF Collected
<1>0. /\ met => seen \o IfNew(j, n) = seen
      /\ ~met => seen \o IfNew(j, n) = more
  <2>1. CASE met
    <3>1. IfNew(j, n) = <<>>
      BY <2>1 DEF IfNew
    <3>2. seen \o <<>> = seen
      <4> HIDE DEF x, met, more
      <4> QED BY <1>1
    <3> QED BY <2>1, <3>1, <3>2
  <2>2. CASE ~met
    BY <2>2 DEF IfNew
  <2> QED BY <2>1, <2>2
<1> HIDE DEF x
<1>2. CASE met
  <2>1. \A g \in 0 .. (j + 1) - 1 : \E k \in 1 .. Len(seen) : seen[k] = Group(g, n)
    <3> SUFFICES ASSUME NEW g \in 0 .. (j + 1) - 1
                 PROVE  \E k \in 1 .. Len(seen) : seen[k] = Group(g, n)
      OBVIOUS
    <3>1. CASE g = j
      <4>1. PICK h \in 0 .. j - 1 : Group(h, n) = Group(j, n)
        BY <1>2
      <4> QED BY <3>1, <4>1, <1>1
    <3>2. CASE g # j
      <4>1. g \in 0 .. j - 1
        BY <3>2
      <4> QED BY <4>1, <1>1
    <3> QED BY <3>1, <3>2
  <2>2. Collected(seen, j + 1, n, U)
    BY <1>1, <2>1 DEF Collected
  <2> QED BY <1>2, <1>0, <2>2
<1>3. CASE ~met
  <2>1. /\ more \in Seq(U) /\ Len(more) = Len(seen) + 1 /\ more[Len(seen) + 1] = x
        /\ \A k \in 1 .. Len(seen) : more[k] = seen[k]
    BY <1>1
  <2> HIDE DEF more
  <2>2. \A g \in 0 .. (j + 1) - 1 : \E k \in 1 .. Len(more) : more[k] = Group(g, n)
    <3> SUFFICES ASSUME NEW g \in 0 .. (j + 1) - 1
                 PROVE  \E k \in 1 .. Len(more) : more[k] = Group(g, n)
      OBVIOUS
    <3>1. CASE g = j
      <4>1. Len(seen) + 1 \in 1 .. Len(more)
        BY <1>1, <2>1
      <4> QED BY <3>1, <4>1, <2>1 DEF x
    <3>2. CASE g # j
      <4>1. g \in 0 .. j - 1
        BY <3>2
      <4>2. PICK k \in 1 .. Len(seen) : seen[k] = Group(g, n)
        BY <4>1, <1>1
      <4>3. k \in 1 .. Len(more)
        BY <1>1, <2>1
      <4> QED BY <4>2, <4>3, <2>1
    <3> QED BY <3>1, <3>2
  <2>3. Collected(more, j + 1, n, U)
    BY <2>1, <2>2 DEF Collected
  <2> QED BY <1>3, <1>0, <2>3
<1> QED BY <1>2, <1>3

\* Every group gets into the list (lookup.c:61-75, sse/lookup.c:124-160).
LEMMA EveryGroupFound ==
    ASSUME NEW n, NEW m \in Nat, 2^Order \div n = m
    PROVE  /\ Len(GroupOutputs(n)) \in Nat /\ DOMAIN GroupOutputs(n) = 1 .. Len(GroupOutputs(n))
           /\ \A g \in 0 .. m - 1 :
                  \E k \in 1 .. Len(GroupOutputs(n)) : GroupOutputs(n)[k] = Group(g, n)
<1> DEFINE U == {Group(g, n) : g \in 0 .. m - 1}
           More(seen, j) == seen \o IfNew(j - 1, n)
           step == [p \in (1 .. m) \X Seq(U) |-> More(p[2], p[1])]
           Is(f) == f = [g \in 0 .. m |-> IF g = 0 THEN <<>> ELSE More(f[g - 1], g)]
           W == CHOOSE f : Is(f)
<1>1. GroupOutputs(n) = W[m]
  BY DEF GroupOutputs
<1>2. \A j \in 1 .. m : Group(j - 1, n) \in U
  <2> SUFFICES ASSUME NEW j \in 1 .. m PROVE Group(j - 1, n) \in U
    OBVIOUS
  <2>1. j - 1 \in 0 .. m - 1
    OBVIOUS
  <2> QED BY <2>1
<1>3. \A j \in 1 .. m, x \in Seq(U) : step[<<j, x>>] = More(x, j)
  OBVIOUS
<1>4. \A j \in 1 .. m, x \in Seq(U) : More(x, j) \in Seq(U)
  <2> SUFFICES ASSUME NEW j \in 1 .. m, NEW x \in Seq(U)
               PROVE  x \o IfNew(j - 1, n) \in Seq(U)
    OBVIOUS
  <2>1. IfNew(j - 1, n) = <<>> \/ IfNew(j - 1, n) = <<Group(j - 1, n)>>
    BY DEF IfNew
  <2>2. Group(j - 1, n) \in U
    BY <1>2
  <2> HIDE DEF U
  <2>3. <<>> \in Seq(U) /\ <<Group(j - 1, n)>> \in Seq(U)
    BY <2>2
  <2>4. IfNew(j - 1, n) \in Seq(U)
    BY <2>1, <2>3
  <2> QED BY <2>4
<1>5. \E f : Is(f)
  <2>1. <<>> \in Seq(U)
    OBVIOUS
  <2> HIDE DEF step
  <2>2. \A j \in 1 .. m, x \in Seq(U) : step[<<j, x>>] \in Seq(U)
    <3> HIDE DEF More, U
    <3> QED BY <1>3, <1>4
  <2> HIDE DEF U
  <2>3. StepOn(step, m, Seq(U))
    BY <2>2 DEF StepOn
  <2>4. PICK f : Follows(f, step, m, Seq(U), <<>>)
    BY <2>1, <2>3, RecursionExists
  <2>5. f \in [0 .. m -> Seq(U)] /\ f[0] = <<>> /\ \A j \in 1 .. m : f[j] = step[<<j, f[j - 1]>>]
    BY <2>4 DEF Follows
  <2>6. \A j \in 1 .. m : f[j] = More(f[j - 1], j)
    <3> HIDE DEF More
    <3> SUFFICES ASSUME NEW j \in 1 .. m PROVE f[j] = More(f[j - 1], j)
      OBVIOUS
    <3>1. f[j - 1] \in Seq(U)
      BY <2>5
    <3> QED BY <3>1, <2>5, <1>3
  <2> HIDE DEF More
  <2>7. Is(f)
    BY <2>5, <2>6
  <2> QED BY <2>7
<1>6. Is(W)
  <2> HIDE DEF Is
  <2> QED BY <1>5
<1> HIDE DEF W, U
<1>7. W[0] = <<>> /\ \A j \in 1 .. m : W[j] = More(W[j - 1], j)
  <2> HIDE DEF More
  <2> QED BY <1>6
<1> DEFINE A == {j \in Nat : j <= m => Collected(W[j], j, n, U)}
<1>8. 0 \in A
  <2>1. W[0] = <<>>
    BY <1>7
  <2>2. <<>> \in Seq(U) /\ \A g \in 0 .. 0 - 1 : \E k \in 1 .. Len(<<>>) : <<>>[k] = Group(g, n)
    OBVIOUS
  <2>3. Collected(<<>>, 0, n, U)
    BY <2>2 DEF Collected
  <2> QED BY <2>1, <2>3
<1>9. ASSUME NEW j \in Nat, j \in A PROVE j + 1 \in A
  <2> SUFFICES ASSUME j + 1 <= m PROVE Collected(W[j + 1], j + 1, n, U)
    OBVIOUS
  <2>1. Collected(W[j], j, n, U) /\ j + 1 \in 1 .. m /\ (j + 1) - 1 = j
    BY <1>9
  <2>2. W[j + 1] = More(W[j], j + 1)
    <3> HIDE DEF More
    <3> QED BY <2>1, <1>7
  <2>3. Group(j, n) \in U
    BY <2>1, <1>2
  <2> QED BY <2>1, <2>2, <2>3, CollectedMore
<1>10. m \in A
  <2> HIDE DEF A
  <2> QED BY <1>8, <1>9, SetInduction
<1>11. Collected(GroupOutputs(n), m, n, U)
  BY <1>1, <1>10
<1> QED BY <1>11 DEF Collected

\* The lookup finds what the table has: the key of a register's group leads to
\* the group, and there to the register's output.
LEMMA LookupIsTable ==
    ASSUME NEW n \in Nat \ {0}, NEW m \in Nat, 2^Order = n * m,
           NEW dist, NEW r \in Registers
    PROVE  FillDistance(GroupOutputs(n), dist)[GroupKeys(n, GroupOutputs(n))[r \div n]][r % n]
               = dist[Table[r]]
<1> DEFINE O == GroupOutputs(n)
           g == r \div n
           e == r % n
           k == GroupKeys(n, O)[g]
<1>0. 2^Order \in Nat /\ 2^Order \div n = m
  <2>1. 2^Order \in Int /\ 0 \in 0 .. n - 1 /\ 2^Order = n * m + 0 /\ m \in Int
    BY TrellisFacts, PowerStep
  <2> QED BY <2>1, DivisionUnique, TrellisFacts, PowerStep
<1>1. g \in Nat /\ e \in 0 .. n - 1 /\ r = n * g + e /\ r \in Nat
  <2>1. r \in Nat /\ r \in Int
    BY <1>0 DEF Registers
  <2> QED BY <2>1, Division
<1>2. g \in 0 .. m - 1
  <2>1. r <= n * m - 1
    BY <1>0 DEF Registers
  <2> HIDE DEF g, e
  <2>2. g >= m => n * g >= n * m
    BY <1>1
  <2>3. n * g \in Nat /\ n * m \in Nat
    BY <1>1
  <2> QED BY <2>1, <2>2, <2>3, <1>1
<1>3. DOMAIN O = 1 .. Len(O) /\ \E j \in 1 .. Len(O) : O[j] = Group(g, n)
  <2> HIDE DEF g
  <2> QED BY <1>0, <1>2, EveryGroupFound
<1>4. k = CHOOSE j \in DOMAIN O : O[j] = Group(g, n)
  <2> HIDE DEF O, g
  <2> QED BY <1>0, <1>2 DEF GroupKeys
<1> HIDE DEF O, k
<1>5. k \in DOMAIN O /\ O[k] = Group(g, n)
  BY <1>3, <1>4
<1>6. DOMAIN Group(g, n) = 0 .. n - 1 /\ Group(g, n)[e] = Table[n * g + e]
  <2> HIDE DEF g, e
  <2> QED BY <1>1 DEF Group
<1>7. FillDistance(O, dist)[k][e] = dist[O[k][e]]
  <2> HIDE DEF g, e
  <2> QED BY <1>1, <1>5, <1>6 DEF FillDistance
<1> QED BY <1>1, <1>5, <1>6, <1>7 DEF O, k

\* The pairs of the plain decoder and the eights of the SSE one measure each
\* register as the table does (cv_decode.c:76-77, sse/cv_decode.c:69-70).
LEMMA LookupsAgree ==
    /\ PairDistances = DirectDistances
    /\ Order >= 6 => OctDistances = DirectDistances
<1> DEFINE dist == OutputDistances
<1>0. Order \in Nat /\ 2 * 2^(Order - 1) = 2^Order /\ 2^(Order - 1) \in Nat
  <2>1. Order - 1 \in Nat /\ (Order - 1) + 1 = Order
    BY TrellisFacts
  <2> QED BY <2>1, PowerStep
<1>1. DirectDistances = [r \in Registers |-> dist[Table[r]]]
  BY DEF DirectDistances
<1>2. PairDistances
          = [r \in Registers |->
                FillDistance(GroupOutputs(2), dist)[GroupKeys(2, GroupOutputs(2))[r \div 2]][r % 2]]
  BY DEF PairDistances, PairOutputs, PairKeys
<1>3. OctDistances
          = [r \in Registers |->
                FillDistance(GroupOutputs(8), dist)[GroupKeys(8, GroupOutputs(8))[r \div 8]][r % 8]]
  BY DEF OctDistances, OctOutputs, OctKeys
<1> HIDE DEF dist
<1>4. \A r \in Registers :
          FillDistance(GroupOutputs(2), dist)[GroupKeys(2, GroupOutputs(2))[r \div 2]][r % 2]
              = dist[Table[r]]
  BY <1>0, LookupIsTable
<1>5. ASSUME Order >= 6
      PROVE  \A r \in Registers :
          FillDistance(GroupOutputs(8), dist)[GroupKeys(8, GroupOutputs(8))[r \div 8]][r % 8]
              = dist[Table[r]]
  <2>1. 8 * 2^(Order - 3) = 2^Order /\ 2^(Order - 3) \in Nat
    <3>1. Order - 3 \in Nat /\ Order - 2 \in Nat /\ (Order - 3) + 1 = Order - 2
          /\ (Order - 2) + 1 = Order - 1
      BY <1>0, <1>5
    <3>2. 2^(Order - 3) \in Nat /\ 2^(Order - 2) = 2 * 2^(Order - 3)
      BY <3>1, PowerStep
    <3>3. 2^(Order - 1) = 2 * 2^(Order - 2)
      BY <3>1, PowerStep
    <3> QED BY <3>2, <3>3, <1>0
  <2> QED BY <2>1, LookupIsTable
<1>6. PairDistances = DirectDistances
  BY <1>1, <1>2, <1>4
<1>7. Order >= 6 => OctDistances = DirectDistances
  BY <1>1, <1>3, <1>5
<1> QED BY <1>6, <1>7

-----------------------------------------------------------------------------
(* The metrics buffer on its own.                                          *)

\* The invariant has to tell the first swap after a reset, which leaves the read
\* pointer where it was, from the others, which exchange the two.
SwapInv ==
    /\ Errors!TypeOK
    /\ Len(consumed) = 0 => index = 0 /\ read = 0 /\ write = 1
    /\ Len(consumed) >= 1 => write = index /\ read # write
    /\ Len(consumed) >= 2 => errors[read] = distances

\* Every metrics a round may write is kept, whichever pointer it goes through.
LEMMA SwapKeeps ==
    ASSUME SwapInv, NEW m \in [States -> 0 .. DistanceMax], Errors!Round(m)
    PROVE  SwapInv'
<1>1. /\ errors' = [errors EXCEPT ![write] = m]
      /\ read' = index /\ index' = (index + 1) % 2 /\ write' = (index + 1) % 2
      /\ Len(consumed') = Len(consumed) + 1 /\ distances' = m
  BY DEF Errors!Round, Errors!Swap
<1>2. (index = 0 /\ index' = 1) \/ (index = 1 /\ index' = 0)
  BY <1>1 DEF SwapInv, Errors!TypeOK
<1> HIDE DEF Zero
<1>3. Errors!TypeOK'
  BY <1>1, <1>2 DEF SwapInv, Errors!TypeOK
<1>4. Len(consumed) >= 1 => errors'[read'] = distances'
  BY <1>1 DEF SwapInv, Errors!TypeOK
<1>5. Len(consumed) \in Nat /\ (Len(consumed) >= 1 => read # write /\ write = index)
  BY DEF SwapInv, Errors!TypeOK
<1> QED
  BY <1>1, <1>2, <1>3, <1>4, <1>5 DEF SwapInv

\* Under any rounds and resets, also those no decoder makes, the buffer is a
\* double buffer from the second round on (error_buffer.c:53-65).
THEOREM DoubleBufferCorrect == Errors!Spec => []Errors!DoubleBuffer
<1> USE DEF Errors!vars, Errors!bufferVars
<1>1. Errors!Init => SwapInv
  BY DEF Errors!Init, SwapInv, Errors!TypeOK
<1>2. SwapInv /\ [Errors!Next]_(Errors!vars) => SwapInv'
  <2> SUFFICES ASSUME SwapInv, [Errors!Next]_(Errors!vars) PROVE SwapInv'
    OBVIOUS
  <2> HIDE DEF Zero
  <2>1. CASE Errors!Reset
    BY <2>1 DEF Errors!Reset, Errors!Cleared, SwapInv, Errors!TypeOK
  <2>2. ASSUME NEW m \in [States -> 0 .. DistanceMax], Errors!Round(m) PROVE SwapInv'
    BY <2>2, SwapKeeps
  <2>3. CASE UNCHANGED Errors!vars
    BY <2>3 DEF SwapInv, Errors!TypeOK
  <2> QED
    BY <2>1, <2>2, <2>3 DEF Errors!Next
<1>3. SwapInv => Errors!DoubleBuffer
  BY DEF SwapInv, Errors!TypeOK, Errors!DoubleBuffer
<1> QED
  BY <1>1, <1>2, <1>3, PTL DEF Errors!Spec

-----------------------------------------------------------------------------
(* The metrics buffer in the decoders.                                     *)

\* The pointers of the metrics buffer after `rounds` swaps; the metrics may be
\* anything at all.
Buffered ==
    /\ index \in {0, 1} /\ read \in {0, 1} /\ write \in {0, 1}
    /\ errors = [b \in {0, 1} |-> errors[b]]
    /\ Len(consumed) \in Nat
    /\ Len(consumed) = 0 => index = 0 /\ read = 0 /\ write = 1
    /\ Len(consumed) >= 1 => write = index /\ read # write
    /\ Len(consumed) >= 2 => errors[read] = distances

-----------------------------------------------------------------------------
\* A new codec's buffer, and a reset one.
LEMMA BufferedInit ==
    ASSUME Init
    PROVE  Buffered
<1>1. /\ index = 0 /\ read = 0 /\ write = 1
      /\ errors = [b \in {0, 1} |-> Zero] /\ Len(consumed) = 0
  BY DEF Init, Errors!Init
<1> HIDE DEF Zero
<1> QED
  BY <1>1 DEF Buffered

\* error_buffer_reset makes the buffer as good as new.
LEMMA BufferedReset ==
    ASSUME Buffered, Errors!Reset
    PROVE  Buffered'
<1>1. /\ index' = 0 /\ read' = 0 /\ write' = 1
      /\ errors' = [b \in {0, 1} |-> Zero] /\ Len(consumed') = 0
  BY DEF Errors!Reset, Errors!Cleared
<1> HIDE DEF Zero
<1> QED
  BY <1>1 DEF Buffered

\* A round that leaves in the caller's array what it wrote.
LEMMA BufferedRound ==
    ASSUME Buffered, NEW m, Errors!Round(m)
    PROVE  Buffered'
<1>1. /\ errors' = [errors EXCEPT ![write] = m]
      /\ read' = index /\ index' = (index + 1) % 2 /\ write' = index'
      /\ Len(consumed') = Len(consumed) + 1 /\ distances' = m
  BY DEF Errors!Round, Errors!Swap
<1>2. (index = 0 /\ index' = 1) \/ (index = 1 /\ index' = 0)
  BY <1>1 DEF Buffered
<1>3. Len(consumed) >= 1 => errors'[read'] = distances'
  BY <1>1 DEF Buffered
<1>4. errors' = [b \in {0, 1} |-> errors'[b]]
  BY <1>1 DEF Buffered
<1> QED
  BY <1>1, <1>2, <1>3, <1>4 DEF Buffered

\* The steps that leave the metrics alone.
LEMMA BufferedElse ==
    ASSUME Buffered, UNCHANGED <<errorVars, distances, consumed>>
    PROVE  Buffered'
  BY DEF Buffered, errorVars

\* Every step of the decoder, and of the SSE one, is one of these.
LEMMA BufferedStep ==
    ASSUME Buffered, [Next]_vars
    PROVE  Buffered'
<1>1. ASSUME NEW b \in Pending, Start(b) PROVE Buffered'
  BY <1>1, BufferedReset DEF Start
<1>2. CASE WarmupRound
  BY <1>2, BufferedRound DEF WarmupRound
<1>3. CASE LoopEnd
  BY <1>3, BufferedElse DEF LoopEnd, Schedule!WarmupEnd, Schedule!EndInner
<1>4. CASE InnerRound
  BY <1>4, BufferedRound DEF InnerRound, Search
<1>5. CASE TailRound
  BY <1>5, BufferedRound DEF TailRound, Search
<1>6. CASE Finish
  BY <1>6, BufferedElse DEF Finish, Schedule!Finish, Ring!Flush
<1>7. CASE Done \/ UNCHANGED vars
  BY <1>7, BufferedElse DEF Done, vars, scheduleVars, ringVars
<1> QED
  BY <1>1, <1>2, <1>3, <1>4, <1>5, <1>6, <1>7 DEF Next, Step

\* Every step of the SSE decoder keeps the double buffer.
LEMMA BufferedSseStep ==
    ASSUME Buffered, [SseNext]_sseVars
    PROVE  Buffered'
<1>1. CASE Load
  BY <1>1, BufferedElse DEF Load, Schedule!WarmupEnd
<1>2. CASE SseInnerRound
  BY <1>2, BufferedRound DEF SseInnerRound
<1>3. CASE Store
  BY <1>3, BufferedElse DEF Store, Schedule!EndInner
<1>4. CASE WarmupRound \/ TailRound \/ Finish \/ (\E b \in Pending : Start(b)) \/ Done
  BY <1>4, BufferedStep DEF Next, Step
<1>5. CASE UNCHANGED sseVars
  BY <1>5, BufferedStep DEF sseVars
<1> QED
  BY <1>1, <1>2, <1>3, <1>4, <1>5 DEF SseNext, SseStep

\* What the invariant says of the property.
LEMMA BufferedIsDouble ==
    ASSUME Buffered
    PROVE  DoubleBuffer
  BY DEF Buffered, DoubleBuffer, Errors!DoubleBuffer

\* cv_decode.c:36, 147, 216 with error_buffer.c: whatever a round writes and
\* whenever a block begins, it reads what the round before it wrote and never
\* the array it writes.
THEOREM DecoderDoubleBuffer == Spec => []DoubleBuffer
<1>1. Init => Buffered
  BY BufferedInit
<1>2. Buffered /\ [Next]_vars => Buffered'
  BY BufferedStep
<1>3. Buffered => DoubleBuffer
  BY BufferedIsDouble
<1> QED
  BY <1>1, <1>2, <1>3, PTL DEF Spec

\* The same in the SSE decoder, whose inner loop goes past the history buffer
\* and still swaps after every slice (sse/cv_decode.c:219).
THEOREM SseDecoderDoubleBuffer == SseSpec => []DoubleBuffer
<1>1. SseInit => Buffered
  BY BufferedInit DEF SseInit
<1>2. Buffered /\ [SseNext]_sseVars => Buffered'
  BY BufferedSseStep
<1>3. Buffered => DoubleBuffer
  BY BufferedIsDouble
<1> QED
  BY <1>1, <1>2, <1>3, PTL DEF SseSpec

-----------------------------------------------------------------------------
(* The loops.                                                              *)

\* The slices were read one after the other.
SlicesInOrder == consumed = [k \in 1 .. Len(consumed) |-> k - 1]

\* The slices a loop has read, and in which part of the block it is.  Warm-up and
\* tail never overlap, since a block is long enough (LengthsAssumption).
LoopsInv ==
    /\ order = Order
    /\ phase \in {"idle", "warmup", "inner", "tail", "done"}
    /\ phase # "idle" => sets \in Lengths
    /\ sets \in Nat /\ i \in Nat /\ consumed \in Seq(Nat)
    /\ phase \in {"warmup", "inner", "tail"} => Len(consumed) = i
    /\ phase = "warmup" => i <= order - 1
    /\ phase = "inner" => order - 1 <= i /\ i <= sets - order + 1
    /\ phase = "tail" => sets - order + 1 <= i /\ i <= sets
    /\ phase = "done" => Len(consumed) = sets
    /\ processed = IF phase \in {"idle", "warmup"} THEN 0 ELSE Len(consumed) - (order - 1)
    /\ SlicesInOrder

\* The order, and what LengthsAssumption says of the block in hand.
LEMMA LoopsBlock ==
    ASSUME LoopsInv
    PROVE  /\ order \in Nat \ {0} /\ order = Order
           /\ phase # "idle" => sets >= 2 * (order - 1)
<1>1. Order \in Nat /\ Order >= 4
  BY TrellisAssumption
<1>2. order = Order /\ (phase # "idle" => sets \in Lengths)
  BY DEF LoopsInv
<1>3. phase # "idle" => sets >= 2 * (Order - 1)
  BY <1>2, LengthsAssumption
<1> QED
  BY <1>1, <1>2, <1>3

\* Reading slice i when i slices have been read keeps the list in order.
LEMMA ReadInOrder ==
    ASSUME Schedule!Read, i \in Nat, consumed \in Seq(Nat), Len(consumed) = i,
           SlicesInOrder
    PROVE  /\ i' = i + 1 /\ consumed' \in Seq(Nat) /\ Len(consumed') = i'
           /\ SlicesInOrder'
<1>1. i' = i + 1 /\ consumed' = Append(consumed, i)
  BY DEF Schedule!Read
<1>2. consumed' \in Seq(Nat) /\ Len(consumed') = i + 1
  BY <1>1
<1>3. \A k \in 1 .. i + 1 : consumed'[k] = k - 1
  <2> SUFFICES ASSUME NEW k \in 1 .. i + 1 PROVE consumed'[k] = k - 1
    OBVIOUS
  <2>1. CASE k = i + 1
    BY <1>1, <2>1
  <2>2. CASE k # i + 1
    <3>1. k \in 1 .. Len(consumed)
      BY <2>2
    <3>2. consumed[k] = k - 1
      BY <3>1 DEF SlicesInOrder
    <3> QED
      BY <1>1, <3>1, <3>2
  <2> QED
    BY <2>1, <2>2
<1>4. consumed' = [k \in 1 .. i + 1 |-> k - 1]
  <2>1. consumed' = [k \in 1 .. i + 1 |-> consumed'[k]]
    BY <1>2
  <2> QED
    BY <2>1, <1>3
<1>5. SlicesInOrder'
  BY <1>2, <1>4 DEF SlicesInOrder
<1> QED
  BY <1>1, <1>2, <1>5

\* A new codec has read nothing.
LEMMA LoopsInit ==
    ASSUME Init
    PROVE  LoopsInv
<1>1. /\ order = Order /\ phase = "idle" /\ sets = 0 /\ i = 0
      /\ consumed = <<>> /\ Len(consumed) = 0 /\ processed = 0
  BY DEF Init, Schedule!Init
<1>2. consumed \in Seq(Nat) /\ SlicesInOrder
  BY <1>1 DEF SlicesInOrder
<1> QED
  BY <1>1, <1>2 DEF LoopsInv

\* A step of the loops keeps what they have read in order.
LEMMA LoopsStep ==
    ASSUME LoopsInv, [Schedule!Next]_scheduleVars
    PROVE  LoopsInv'
<1> DEFINE Lag == order - 1
<1>1. /\ order \in Nat \ {0} /\ order = Order /\ Lag \in Nat
      /\ phase # "idle" => sets >= 2 * Lag
      /\ sets - order + 1 = sets - Lag
  <2>1. sets \in Nat
    BY DEF LoopsInv
  <2> QED
    BY <2>1, LoopsBlock
<1>2. ASSUME NEW b \in {Order} \X Lengths, Schedule!Start(b[2])
      PROVE  LoopsInv'
  <2>1. /\ b[2] \in Lengths /\ b[2] \in Nat
    BY LengthsAssumption
  <2>2. /\ consumed' = <<>> /\ Len(consumed') = 0 /\ sets' = b[2] /\ phase' = "warmup"
        /\ i' = 0 /\ processed' = 0 /\ order' = order
    BY <1>2 DEF Schedule!Start
  <2>3. consumed' \in Seq(Nat) /\ SlicesInOrder'
    BY <2>2 DEF SlicesInOrder
  <2> QED
    BY <1>1, <2>1, <2>2, <2>3 DEF LoopsInv
<1>3. CASE Schedule!WarmupRound
  <2>1. /\ phase = "warmup" /\ i < order - 1 /\ UNCHANGED <<order, sets, phase, processed>>
        /\ Schedule!Read
    BY <1>3 DEF Schedule!WarmupRound
  <2> QED
    BY <1>1, <2>1, ReadInOrder DEF LoopsInv
<1>4. CASE Schedule!WarmupEnd
  <2>1. /\ phase = "warmup" /\ phase' = "inner" /\ i' = order - 1 /\ i = order - 1
        /\ UNCHANGED <<order, sets, consumed, processed>>
    BY <1>1, <1>4 DEF Schedule!WarmupEnd, LoopsInv
  <2> QED
    BY <1>1, <2>1 DEF LoopsInv, SlicesInOrder
<1>5. CASE Schedule!InnerRound
  <2>1. /\ phase = "inner" /\ i < sets - order + 1 /\ processed' = processed + 1
        /\ UNCHANGED <<order, sets, phase>> /\ Schedule!Read
    BY <1>5 DEF Schedule!InnerRound, Schedule!InnerEnd
  <2>2. /\ sets \in Lengths /\ sets \in Nat /\ i \in Nat /\ consumed \in Seq(Nat)
        /\ Len(consumed) = i /\ SlicesInOrder /\ processed = i - (order - 1)
        /\ order - 1 <= i /\ sets - order + 1 <= sets
    BY <1>1, <2>1 DEF LoopsInv
  <2>3. /\ i' = i + 1 /\ consumed' \in Seq(Nat) /\ Len(consumed') = i' /\ SlicesInOrder'
    BY <2>1, <2>2, ReadInOrder
  <2> QED
    BY <1>1, <2>1, <2>2, <2>3 DEF LoopsInv
<1>6. CASE Schedule!EndInner
  <2>1. /\ phase = "inner" /\ phase' = "tail" /\ i' = sets - order + 1 /\ i = sets - order + 1
        /\ UNCHANGED <<order, sets, consumed, processed>>
    BY <1>1, <1>6 DEF Schedule!EndInner, Schedule!InnerEnd, Schedule!TailStart, LoopsInv
  <2> QED
    BY <1>1, <2>1 DEF LoopsInv, SlicesInOrder
<1>7. CASE Schedule!TailRound
  <2>1. /\ phase = "tail" /\ i < sets /\ processed' = processed + 1
        /\ UNCHANGED <<order, sets, phase>> /\ Schedule!Read
    BY <1>7 DEF Schedule!TailRound
  <2>2. /\ sets \in Lengths /\ sets \in Nat /\ i \in Nat /\ consumed \in Seq(Nat)
        /\ Len(consumed) = i /\ SlicesInOrder /\ processed = i - (order - 1)
        /\ order - 1 <= i /\ sets - order + 1 <= i
    BY <1>1, <2>1 DEF LoopsInv
  <2>3. /\ i' = i + 1 /\ consumed' \in Seq(Nat) /\ Len(consumed') = i' /\ SlicesInOrder'
    BY <2>1, <2>2, ReadInOrder
  <2> QED
    BY <1>1, <2>1, <2>2, <2>3 DEF LoopsInv
<1>8. CASE Schedule!Finish
  <2>1. /\ phase = "tail" /\ phase' = "done" /\ i = sets
        /\ UNCHANGED <<order, sets, i, consumed, processed>>
    BY <1>8 DEF Schedule!Finish, LoopsInv
  <2> QED
    BY <1>1, <2>1 DEF LoopsInv, SlicesInOrder
<1>9. CASE UNCHANGED scheduleVars
  BY <1>9 DEF scheduleVars, LoopsInv, SlicesInOrder
<1> QED
  BY <1>2, <1>3, <1>4, <1>5, <1>6, <1>7, <1>8, <1>9 DEF Schedule!Next, Schedule!Step

\* What a decoder does to the loops' variables.
LEMMA DecoderStepsLoops ==
    ASSUME [Next]_vars \/ [SseNext]_sseVars
    PROVE  [Schedule!Next]_scheduleVars
<1>1. ASSUME NEW b \in Pending, Start(b) PROVE Schedule!Next
  <2>1. Schedule!Start(Len(b.symbols)) /\ <<order, Len(b.symbols)>> \in {Order} \X Lengths
    BY <1>1 DEF Start, Schedule!Start
  <2>2. <<order, Len(b.symbols)>>[2] = Len(b.symbols)
    OBVIOUS
  <2> QED
    BY <2>1, <2>2 DEF Schedule!Next
<1>2. CASE Step \/ SseStep
  BY <1>2 DEF Step, SseStep, WarmupRound, LoopEnd, InnerRound, TailRound, Finish,
              Load, SseInnerRound, Store, Schedule!Next, Schedule!Step
<1>3. CASE Done \/ UNCHANGED vars \/ UNCHANGED sseVars
  BY <1>3 DEF Done, vars, sseVars
<1> QED
  BY <1>1, <1>2, <1>3 DEF Next, SseNext

\* Every step of either decoder keeps the invariant of the schedule.
LEMMA DecoderKeepsLoops ==
    ASSUME LoopsInv, [Next]_vars \/ [SseNext]_sseVars
    PROVE  LoopsInv'
  BY DecoderStepsLoops, LoopsStep

\* Each slice read once and in order, each bit decided once.
EverySliceOnce == Schedule!EachSliceOnce /\ Schedule!OneDecisionPerBit

\* What the schedule promises, from its invariant.
LEMMA LoopsAreRight ==
    ASSUME LoopsInv
    PROVE  EverySliceOnce
<1>1. /\ order \in Nat \ {0}
      /\ phase # "idle" => sets \in Nat /\ sets >= 2 * (order - 1)
  BY LoopsBlock DEF LoopsInv
<1>2. /\ phase = "done" => Len(consumed) = sets /\ processed = sets - (order - 1)
      /\ consumed = [k \in 1 .. Len(consumed) |-> k - 1]
  BY DEF LoopsInv, SlicesInOrder
<1>3. Schedule!EachSliceOnce
  BY <1>1, <1>2 DEF Schedule!EachSliceOnce
<1>4. Schedule!OneDecisionPerBit
  BY <1>1, <1>2 DEF Schedule!OneDecisionPerBit, Schedule!LongBlock
<1> QED
  BY <1>3, <1>4 DEF EverySliceOnce

\* Whatever the codec decoded before, each slice of each block is read once and
\* in order, and decided once (cv_decode.c:6, 41, 156).
THEOREM DecoderReadsSlicesOnce == Spec => []EverySliceOnce
<1>1. Init => LoopsInv
  BY LoopsInit
<1>2. LoopsInv /\ [Next]_vars => LoopsInv'
  BY DecoderKeepsLoops
<1>3. LoopsInv => EverySliceOnce
  BY LoopsAreRight
<1> QED
  BY <1>1, <1>2, <1>3, PTL DEF Spec

\* The same of the SSE decoder with soft decisions, whose counter no inner loop
\* borrows (sse/cv_decode.c:12; SseSchedule has what hard decisions do to it).
THEOREM SseDecoderReadsSlicesOnce == SseSpec => []EverySliceOnce
<1>1. SseInit => LoopsInv
  BY LoopsInit DEF SseInit
<1>2. LoopsInv /\ [SseNext]_sseVars => LoopsInv'
  BY DecoderKeepsLoops
<1>3. LoopsInv => EverySliceOnce
  BY LoopsAreRight
<1> QED
  BY <1>1, <1>2, <1>3, PTL DEF SseSpec

-----------------------------------------------------------------------------
(* The ring in the decoder.                                                *)

Buf == INSTANCE HistoryBufferProofs
          WITH index <- ringIndex, SliceInputs <- {}, DistanceInputs <- {},
               MaxSlices <- 0

\* The decoder uses the ring with constants that meet what it assumes.
LEMMA RingAssumptions ==
    /\ Buf!HighbitAssumption /\ Buf!HighbitIsPower
    /\ Buf!MinTracebackAssumption /\ Buf!TracebackGroupAssumption
    /\ Buf!RenormalizeAssumption /\ Buf!DistanceMaxAssumption
    /\ Buf!MaxSlicesAssumption /\ Buf!InputsAssumption
<1>1. Order \in Nat /\ Order - 1 \in Nat
  BY TrellisAssumption
<1>2. Highbit \in Nat \ {0}
  BY <1>1, PowerStep DEF Highbit
<1>3. \A n \in Nat : n < 2^n
  <2> DEFINE S == {n \in Nat : n < 2^n}
  <2>1. 0 \in S
    BY PowerZero
  <2>2. \A n \in Nat : n \in S => n + 1 \in S
    <3> SUFFICES ASSUME NEW n \in Nat, n < 2^n PROVE n + 1 < 2^(n + 1)
      BY PowerStep
    <3>1. 2^n \in Nat \ {0} /\ 2^(n + 1) = 2 * 2^n
      BY PowerStep
    <3> QED
      BY <3>1
  <2> HIDE DEF S
  <2>3. \A n \in Nat : n \in S
    BY <2>1, <2>2, SetInduction
  <2> QED
    BY <2>3 DEF S
<1>4. Order - 1 \in 0 .. Highbit
  BY <1>1, <1>2, <1>3 DEF Highbit
<1>5. Buf!HighbitIsPower
  BY <1>4 DEF Buf!HighbitIsPower, Highbit
<1>6. Buf!InputsAssumption
  BY DEF Buf!InputsAssumption
<1> QED
  BY <1>2, <1>5, <1>6, RingAssumption, TrellisAssumption
     DEF Buf!HighbitAssumption, Buf!MinTracebackAssumption,
         Buf!TracebackGroupAssumption, Buf!RenormalizeAssumption,
         Buf!DistanceMaxAssumption, Buf!MaxSlicesAssumption

\* The two instances of the ring's module are one.
LEMMA BufferOfRing ==
    /\ Ring!Reset => Buf!Reset
    /\ Ring!Flush => Buf!Flush
    /\ \A d, dist, every : Ring!ProcessSkip(d, dist, every) => Buf!ProcessSkip(d, dist, every)
    /\ Buf!RingHoldsUndecided => Ring!RingHoldsUndecided
    /\ Buf!TracebackReadsWritten => Ring!TracebackReadsWritten
<1>1. Ring!Reset => Buf!Reset
  BY DEF Ring!Reset, Buf!Reset
<1>2. Ring!Flush => Buf!Flush
  BY DEF Ring!Flush, Buf!Flush, Ring!Cap, Buf!Cap, Ring!States, Buf!States,
         Ring!Live, Buf!Live, Ring!Back, Buf!Back,
         Ring!NextIndex, Buf!NextIndex, Ring!RingView, Buf!RingView,
         Ring!Walk, Buf!Walk, Ring!Decided, Buf!Decided,
         Ring!Merged, Buf!Merged, Ring!Search, Buf!Search,
         Ring!Renormalized, Buf!Renormalized, Ring!Filled, Buf!Filled,
         Ring!LenAfterTraceback, Buf!LenAfterTraceback,
         Ring!Stream!States, Buf!Stream!States,
         Ring!Stream!PathBit, Buf!Stream!PathBit,
         Ring!Stream!Predecessor, Buf!Stream!Predecessor,
         Ring!Stream!Walk, Buf!Stream!Walk,
         Ring!Stream!Decided, Buf!Stream!Decided,
         Ring!Stream!Undecided, Buf!Stream!Undecided
<1>3. ASSUME NEW d, NEW dist, NEW every, Ring!ProcessSkip(d, dist, every)
      PROVE  Buf!ProcessSkip(d, dist, every)
  <2>1. Ring!ProcessSkip(d, dist, every) = Buf!ProcessSkip(d, dist, every)
    BY DEF Ring!ProcessSkip, Buf!ProcessSkip, Ring!Cap, Buf!Cap,
           Ring!States, Buf!States, Ring!Live, Buf!Live, Ring!Back, Buf!Back,
           Ring!NextIndex, Buf!NextIndex, Ring!RingView, Buf!RingView,
           Ring!Walk, Buf!Walk, Ring!Decided, Buf!Decided,
           Ring!Merged, Buf!Merged, Ring!Search, Buf!Search,
           Ring!Renormalized, Buf!Renormalized, Ring!Filled, Buf!Filled,
           Ring!LenAfterTraceback, Buf!LenAfterTraceback,
           Ring!Stream!States, Buf!Stream!States,
           Ring!Stream!PathBit, Buf!Stream!PathBit,
           Ring!Stream!Predecessor, Buf!Stream!Predecessor,
           Ring!Stream!Walk, Buf!Stream!Walk,
           Ring!Stream!Decided, Buf!Stream!Decided,
           Ring!Stream!Undecided, Buf!Stream!Undecided
  <2> QED
    BY <1>3, <2>1
<1>4. Buf!RingHoldsUndecided => Ring!RingHoldsUndecided
  BY DEF Ring!RingHoldsUndecided, Buf!RingHoldsUndecided, Ring!Cap, Buf!Cap,
         Ring!States, Buf!States, Ring!Live, Buf!Live, Ring!Back, Buf!Back,
         Ring!NextIndex, Buf!NextIndex, Ring!RingView, Buf!RingView,
         Ring!Walk, Buf!Walk, Ring!Decided, Buf!Decided,
         Ring!Merged, Buf!Merged, Ring!Search, Buf!Search,
         Ring!Renormalized, Buf!Renormalized, Ring!Filled, Buf!Filled,
         Ring!LenAfterTraceback, Buf!LenAfterTraceback,
         Ring!Stream!States, Buf!Stream!States,
         Ring!Stream!PathBit, Buf!Stream!PathBit,
         Ring!Stream!Predecessor, Buf!Stream!Predecessor,
         Ring!Stream!Walk, Buf!Stream!Walk,
         Ring!Stream!Decided, Buf!Stream!Decided,
         Ring!Stream!Undecided, Buf!Stream!Undecided
<1>5. Buf!TracebackReadsWritten => Ring!TracebackReadsWritten
  BY DEF Ring!TracebackReadsWritten, Buf!TracebackReadsWritten,
         Ring!Cap, Buf!Cap, Ring!States, Buf!States, Ring!Live, Buf!Live,
         Ring!Back, Buf!Back, Ring!NextIndex, Buf!NextIndex,
         Ring!RingView, Buf!RingView, Ring!Walk, Buf!Walk,
         Ring!Decided, Buf!Decided, Ring!Merged, Buf!Merged,
         Ring!Search, Buf!Search, Ring!Renormalized, Buf!Renormalized,
         Ring!Filled, Buf!Filled,
         Ring!LenAfterTraceback, Buf!LenAfterTraceback,
         Ring!Stream!States, Buf!Stream!States,
         Ring!Stream!PathBit, Buf!Stream!PathBit,
         Ring!Stream!Predecessor, Buf!Stream!Predecessor,
         Ring!Stream!Walk, Buf!Stream!Walk,
         Ring!Stream!Decided, Buf!Stream!Decided,
         Ring!Stream!Undecided, Buf!Stream!Undecided
<1> QED
  BY <1>1, <1>2, <1>3, <1>4, <1>5

\* The states written per round go with the loop: all of them up to the tail,
\* in the tail one in 2, 4, ..., Highbit.
SkipFollowsLoop ==
    /\ phase \in {"idle", "done"} => skip = 0
    /\ phase \in {"warmup", "inner"} => skip = 1
    /\ phase = "tail" => skip = 2^(i - (sets - order + 1))

RingOfDecoder == LoopsInv /\ Buf!RingInv /\ SkipFollowsLoop

\* What the loops say of the block, the order and the counter.
LEMMA LoopFacts ==
    ASSUME LoopsInv
    PROVE  /\ order = Order /\ order \in Nat /\ order - 1 \in Nat /\ sets \in Nat
           /\ i \in Nat
           /\ phase \in {"idle", "warmup", "inner", "tail", "done"}
           /\ phase = "tail" => sets - order + 1 <= i /\ i <= sets
<1>1. order \in Nat \ {0} /\ order = Order
  BY LoopsBlock
<1>2. /\ phase \in {"idle", "warmup", "inner", "tail", "done"} /\ sets \in Nat /\ i \in Nat
      /\ phase = "tail" => sets - order + 1 <= i /\ i <= sets
  BY DEF LoopsInv
<1> QED
  BY <1>1, <1>2

\* A new codec has an empty ring.
LEMMA RingOfDecoderInit ==
    ASSUME Init
    PROVE  RingOfDecoder
<1>1. LoopsInv
  BY LoopsInit
<1>2. Buf!Init
  BY DEF Init, Ring!Init, Buf!Init, Ring!Slots, Buf!Slots, Ring!Cap, Buf!Cap,
         Ring!States, Buf!States, Ring!Stream!States, Buf!Stream!States
<1>3. Buf!RingInv
  BY <1>2, RingAssumptions, Buf!InitStep, Buf!RingPart
<1>4. phase = "idle" /\ skip = 0
  BY DEF Init, Schedule!Init, Ring!Init
<1> QED
  BY <1>1, <1>3, <1>4 DEF RingOfDecoder, SkipFollowsLoop

\* A round of the inner loop or of the tail.
LEMMA RingOfDecoderRound ==
    ASSUME Buf!RingInv, NEW far, NEW every, NEW tie, Search(far, every, tie)
    PROVE  Buf!RingInv' /\ skip' = every
<1> DEFINE survivor == [s \in States |-> Better(LowErrors(far), HighErrors(far), s, tie)]
           slice == [s \in States |-> survivor[s].bit]
<1>1. slice \in [Buf!States -> {0, 1}]
  <2>1. Buf!States = States
    BY DEF Buf!States, Buf!Stream!States, States
  <2>2. \A low, high, s : Better(low, high, s, tie).bit \in {0, 1}
    BY DEF Better
  <2> QED
    BY <2>1, <2>2
<1>2. PICK metrics : Ring!ProcessSkip(slice, metrics, every)
  BY DEF Search
<1> HIDE DEF slice
<1>3. Buf!ProcessSkip(slice, metrics, every)
  BY <1>2, BufferOfRing
<1>4. Buf!RingInv'
  BY <1>1, <1>3, RingAssumptions, Buf!RingRound
<1> QED
  BY <1>4 DEF Search

\* The steps that leave the ring alone.
LEMMA RingOfDecoderElse ==
    ASSUME Buf!RingInv, UNCHANGED ringVars
    PROVE  Buf!RingInv'
  BY DEF Buf!RingInv, Buf!RingHoldsUndecided, Buf!RingView, Buf!Back,
         Buf!Stream!Undecided, ringVars

\* Every step of the decoder keeps the ring and its skip in step with the loops.
LEMMA RingOfDecoderStep ==
    ASSUME RingOfDecoder, [Next]_vars
    PROVE  RingOfDecoder'
<1>0. LoopsInv /\ LoopsInv' /\ Buf!RingInv /\ SkipFollowsLoop
  BY DecoderKeepsLoops DEF RingOfDecoder
<1>1. ASSUME NEW b \in Pending, Start(b) PROVE RingOfDecoder'
  <2>1. Buf!RingInv'
    BY <1>0, <1>1, BufferOfRing, RingAssumptions, Buf!RingReset DEF Start
  <2>2. skip' = 1 /\ phase' = "warmup"
    BY <1>1 DEF Start, Ring!Reset, Schedule!Start
  <2> QED
    BY <1>0, <2>1, <2>2 DEF RingOfDecoder, SkipFollowsLoop
<1>2. CASE WarmupRound
  <2>1. UNCHANGED ringVars /\ phase' = phase /\ skip' = skip /\ phase = "warmup"
    BY <1>2 DEF WarmupRound, Schedule!WarmupRound, ringVars
  <2> QED
    BY <1>0, <2>1, RingOfDecoderElse DEF RingOfDecoder, SkipFollowsLoop
<1>3. CASE LoopEnd
  <2>1. UNCHANGED ringVars /\ skip' = skip
    BY <1>3 DEF LoopEnd, ringVars
  <2>2. \/ phase = "warmup" /\ phase' = "inner"
        \/ /\ phase = "inner" /\ phase' = "tail"
           /\ i' = sets - order + 1 /\ sets' = sets /\ order' = order
    BY <1>3 DEF LoopEnd, Schedule!WarmupEnd, Schedule!EndInner, Schedule!TailStart
  <2>3. SkipFollowsLoop'
    <3>1. phase' = "tail" => i' - (sets' - order' + 1) = 0
      BY <1>0, <2>2, LoopFacts
    <3> QED
      BY <1>0, <2>1, <2>2, <3>1, PowerZero DEF SkipFollowsLoop
  <2> QED
    BY <1>0, <2>1, <2>3, RingOfDecoderElse DEF RingOfDecoder
<1>4. CASE InnerRound
  <2>1. Buf!RingInv' /\ skip' = 1
    BY <1>0, <1>4, RingOfDecoderRound DEF InnerRound
  <2>2. phase' = "inner"
    BY <1>4 DEF InnerRound, Schedule!InnerRound
  <2> QED
    BY <1>0, <2>1, <2>2 DEF RingOfDecoder, SkipFollowsLoop
<1>5. CASE TailRound
  <2>1. Buf!RingInv' /\ skip' = TailSkip
    BY <1>0, <1>5, RingOfDecoderRound DEF TailRound
  <2>2. phase' = "tail" /\ i' = i + 1 /\ sets' = sets /\ order' = order
    BY <1>5 DEF TailRound, Schedule!TailRound, Schedule!Read
  <2>3. order - (sets - i) = i' - (sets' - order' + 1)
    BY <1>0, <2>2, LoopFacts
  <2> QED
    BY <1>0, <2>1, <2>2, <2>3 DEF RingOfDecoder, SkipFollowsLoop, TailSkip
<1>6. CASE Finish
  <2>1. Buf!RingInv'
    BY <1>0, <1>6, BufferOfRing, RingAssumptions, Buf!RingFlush DEF Finish
  <2>2. phase' = "done" /\ skip' = 0
    BY <1>6 DEF Finish, Schedule!Finish, Ring!Flush
  <2> QED
    BY <1>0, <2>1, <2>2 DEF RingOfDecoder, SkipFollowsLoop
<1>7. CASE Done \/ UNCHANGED vars
  <2>1. UNCHANGED <<ringVars, scheduleVars>> /\ skip' = skip
    BY <1>7 DEF Done, vars, ringVars
  <2> QED
    BY <1>0, <2>1, RingOfDecoderElse DEF RingOfDecoder, SkipFollowsLoop, scheduleVars
<1> QED
  BY <1>1, <1>2, <1>3, <1>4, <1>5, <1>6, <1>7 DEF Next, Step

\* What the invariant says of the property.
LEMMA RingOfDecoderIsCurrent ==
    ASSUME RingOfDecoder
    PROVE  RingIsCurrent
<1>1. LoopsInv /\ Buf!RingInv /\ SkipFollowsLoop
  BY DEF RingOfDecoder
<1>2. Buf!SkipIsPower
  <2> SUFFICES ASSUME skip > 0
               PROVE  \E a, b \in Nat : skip = 2^a /\ skip * 2^b = Highbit
    BY DEF Buf!SkipIsPower
  <2>1. \E a \in 0 .. Order - 1 : skip = 2^a
    <3>1. CASE phase = "tail"
      <4>1. i - (sets - order + 1) \in 0 .. Order - 1
        BY <1>1, <3>1, LoopFacts
      <4> QED
        BY <1>1, <3>1, <4>1 DEF SkipFollowsLoop
    <3>2. CASE phase # "tail"
      <4>1. skip = 1 /\ 0 \in 0 .. Order - 1
        BY <1>1, <3>2, LoopFacts DEF SkipFollowsLoop
      <4> QED
        BY <4>1, PowerZero
    <3> QED
      BY <3>1, <3>2
  <2>2. PICK a \in 0 .. Order - 1 : skip = 2^a
    BY <2>1
  <2>3. Order - 1 \in Nat /\ a \in Nat /\ Order - 1 - a \in Nat
    BY TrellisAssumption
  <2>4. skip * 2^(Order - 1 - a) = Highbit
    BY <2>2, <2>3, PowerSplit DEF Highbit
  <2> QED
    BY <2>2, <2>3, <2>4
<1>3. Buf!RingHoldsUndecided /\ Buf!TracebackReadsWritten
  BY <1>1, <1>2, RingAssumptions, Buf!ReadsWritten DEF Buf!RingInv
<1> QED
  BY <1>3, BufferOfRing DEF RingIsCurrent

\* history_buffer.c:106-148 with cv_decode.c:187-215: whatever blocks a codec has
\* decoded, the ring holds the undecided slices of this one, and no traceback
\* reads a decision of another block, or one the zero tail skipped.
THEOREM DecoderRingIsCurrent == Spec => []RingIsCurrent
<1>1. Init => RingOfDecoder
  BY RingOfDecoderInit
<1>2. RingOfDecoder /\ [Next]_vars => RingOfDecoder'
  BY RingOfDecoderStep
<1>3. RingOfDecoder => RingIsCurrent
  BY RingOfDecoderIsCurrent
<1> QED
  BY <1>1, <1>2, <1>3, PTL DEF Spec

-----------------------------------------------------------------------------
(* Least distances, and what a round does to them.                         *)

\* The path u has the bits of the survivor into state s as far as they are known.
Along(all, s, u) == \A k \in 1 .. Len(all) : u[k] = Buf!BitAt(all, s, k)

\* Of the paths of n bits into state s none costs less than c, and the survivor
\* costs c.
IsLeast(b, n, s, c, all) ==
    /\ \E u \in InputBits :
           PathState(u, n) = s /\ PathCost(b, u, n) = c /\ Along(all, s, u)
    /\ \A u \in InputBits : PathState(u, n) = s => c <= PathCost(b, u, n)

\* The metrics m of the states L are the least distances, less base.
AreLeast(b, n, L, m, base, all) == \A s \in L : IsLeast(b, n, s, m[s] + base, all)

\* No more than c rounds ago base was the cost of a path that lagged T behind.
Anchored(b, n, c, base) ==
    \E k \in Nat, u \in InputBits :
        k + T + c >= n /\ k + T <= n /\ PathCost(b, u, k) <= base

\* The metrics stay near base: since the anchor some path paid half of the worst
\* for each slice, and from there every state is T slices away.
LEMMA MetricBound ==
    ASSUME TapsNewest, NEW b \in Inputs, NEW n \in 0 .. Len(b.symbols), NEW c \in Nat,
           NEW base \in Nat, Anchored(b, n, c, base),
           NEW s \in States, NEW x \in Nat, NEW all, IsLeast(b, n, s, x + base, all)
    PROVE  x <= c * Half + T * Worst
<1>0. /\ Len(b.symbols) \in Nat /\ T \in Nat /\ Half \in Nat /\ Worst \in Nat
      /\ n \in Nat /\ n <= Len(b.symbols)
  BY LengthFacts, TrellisFacts, WorstFacts
<1>1. PICK k \in Nat, u \in InputBits :
          k + T + c >= n /\ k + T <= n /\ PathCost(b, u, k) <= base
  BY DEF Anchored
<1> DEFINE m == n - T - k
           g == k + m
<1>2. m \in Nat /\ m <= c /\ g + T = n /\ g <= Len(b.symbols) /\ g \in Nat
  BY <1>0, <1>1
<1> HIDE DEF m
<1>3. PICK v \in InputBits : /\ Agree(v, u, k)
                             /\ PathCost(b, v, k + m) <= PathCost(b, u, k) + m * Half
  BY <1>2, CheapWay
<1>4. PICK w \in InputBits : /\ PathState(w, g + T) = s
                             /\ PathCost(b, w, g + T) <= PathCost(b, v, g) + T * Worst
  <2> HIDE DEF g
  <2>1. g + T <= Len(b.symbols)
    BY <1>0, <1>2
  <2> QED BY <2>1, <1>2, AnyState
<1>5. x + base <= PathCost(b, w, n)
  BY <1>2, <1>4 DEF IsLeast
<1>6. m * Half <= c * Half /\ m * Half \in Nat /\ c * Half \in Nat /\ T * Worst \in Nat
  BY <1>0, <1>2
<1>7. PathCost(b, u, k) \in Nat /\ PathCost(b, v, g) \in Nat /\ PathCost(b, w, n) \in Nat
  <2>1. k \in 0 .. Len(b.symbols) /\ g \in 0 .. Len(b.symbols) /\ n \in 0 .. Len(b.symbols)
    BY <1>0, <1>1, <1>2
  <2> HIDE DEF g
  <2> QED BY <2>1, CostType
<1> DEFINE cu == PathCost(b, u, k)
           cv == PathCost(b, v, g)
           cw == PathCost(b, w, n)
           tw == T * Worst
           ch == c * Half
           mh == m * Half
<1>8. /\ cu \in Nat /\ cv \in Nat /\ cw \in Nat /\ tw \in Nat /\ ch \in Nat /\ mh \in Nat
      /\ cu <= base /\ cv <= cu + mh /\ mh <= ch /\ cw <= cv + tw /\ x + base <= cw
  BY <1>1, <1>2, <1>3, <1>4, <1>5, <1>6, <1>7
<1> HIDE DEF cu, cv, cw, tw, ch, mh, g
<1>9. x <= ch + tw
  BY <1>8
<1> QED BY <1>9 DEF ch, tw

\* An anchor one round later, and the first one.
LEMMA AnchorStep ==
    ASSUME NEW b, NEW n \in Nat, NEW c \in Nat, NEW base, Anchored(b, n, c, base)
    PROVE  Anchored(b, n + 1, c + 1, base)
<1>1. PICK k \in Nat, u \in InputBits :
          k + T + c >= n /\ k + T <= n /\ PathCost(b, u, k) <= base
  BY DEF Anchored
<1>2. k + T + (c + 1) >= n + 1 /\ k + T <= n + 1
  BY <1>1, TrellisFacts
<1> QED BY <1>1, <1>2 DEF Anchored

\* Before the first slice nothing has been paid.
LEMMA AnchorStart ==
    ASSUME NEW b, NEW c \in Nat
    PROVE  Anchored(b, T, c, 0)
<1> DEFINE u == [k \in Nat \ {0} |-> 0]
<1>1. u \in InputBits /\ PathCost(b, u, 0) = 0
  BY CostStart DEF InputBits
<1> HIDE DEF u
<1>2. 0 + T + c >= T /\ 0 + T <= T /\ 0 <= 0
  BY TrellisFacts
<1> QED BY <1>1, <1>2 DEF Anchored

\* The two registers that lead into a state.
LEMMA RegisterParts ==
    ASSUME NEW s \in States, NEW t \in {0, 1}
    PROVE  /\ s + t * Highbit \in Registers
           /\ (s + t * Highbit) \div 2 \in States
           /\ (s + t * Highbit) % 2 \in {0, 1}
           /\ s + t * Highbit
                  = 2 * ((s + t * Highbit) \div 2) + ((s + t * Highbit) % 2)
           /\ (s + t * Highbit) % Highbit = s
<1> DEFINE H == Highbit
           x == s + t * H
           q == x \div 2
           e == x % 2
<1>0. H \in Nat \ {0} /\ 2^Order = 2 * H /\ s \in Nat /\ s \in 0 .. H - 1
  BY TrellisFacts DEF States
<1>1. t * H = 0 \/ t * H = H
  BY <1>0
<1>2. x \in Nat /\ x \in 0 .. 2 * H - 1 /\ H * t = t * H
  BY <1>0, <1>1
<1>3. q \in Nat /\ e \in {0, 1} /\ x = 2 * q + e
  <2> HIDE DEF x
  <2> QED BY <1>2
<1>4. x % H = s
  <2>1. x \in Int /\ t \in Int /\ x = H * t + s
    BY <1>0, <1>2
  <2> HIDE DEF x, H
  <2> QED BY <2>1, <1>0, DivisionUnique
<1>5. q \in 0 .. H - 1
  <2> HIDE DEF x, q, e
  <2> QED BY <1>0, <1>2, <1>3
<1> QED BY <1>0, <1>2, <1>3, <1>4, <1>5 DEF Registers, States

\* Through which register a path came.
LEMMA PathCame ==
    ASSUME NEW u \in InputBits, NEW n \in Nat
    PROVE  PathState(u, n) = PathRegister(u, n + 1) \div 2
<1> DEFINE x == PathState(u, n)
           y == PathRegister(u, n + 1)
           e == u[n + 1]
<1>1. y = 2 * x + e /\ e \in {0, 1} /\ x \in Nat
  <2>1. Highbit \in Nat
    BY TrellisFacts
  <2> QED BY <2>1, PathStep DEF States
<1> HIDE DEF x, y, e
<1>2. y \div 2 = x
  BY <1>1
<1> QED BY <1>2 DEF x, y

\* A path can go on through either register of its state.
LEMMA GoOn ==
    ASSUME NEW b \in Inputs, NEW n \in Nat, n + 1 <= Len(b.symbols),
           NEW u \in InputBits, NEW s \in States, NEW t \in {0, 1},
           PathState(u, n) = (s + t * Highbit) \div 2
    PROVE  \E v \in InputBits :
               /\ Agree(v, u, n)
               /\ PathRegister(v, n + 1) = s + t * Highbit
               /\ PathState(v, n + 1) = s
               /\ PathCost(b, v, n + 1)
                      = PathCost(b, u, n) + SliceCost(b, n + 1, Table[s + t * Highbit])
<1> DEFINE r == s + t * Highbit
           p == r \div 2
           e == r % 2
<1>1. e \in {0, 1} /\ r = 2 * p + e /\ r % Highbit = s
  BY RegisterParts
<1>2. PathState(u, n) = p
  OBVIOUS
<1> HIDE DEF p, e
<1>3. PICK v \in InputBits : Agree(v, u, n) /\ v[n + 1] = e
  BY <1>1, OtherBit
<1>4. PathState(v, n) = p /\ PathCost(b, v, n) = PathCost(b, u, n)
  <2>1. n \in 0 .. n
    OBVIOUS
  <2> QED BY <2>1, <1>2, <1>3, AgreeRegister, AgreeCost
<1>5. PathRegister(v, n + 1) = r
  BY <1>1, <1>3, <1>4, PathStep
<1>6. PathState(v, n + 1) = s
  BY <1>1, <1>5 DEF PathState
<1>7. PathCost(b, v, n + 1) = PathCost(b, v, n) + SliceCost(b, n + 1, Table[r])
  BY <1>5, CostStep
<1> QED BY <1>3, <1>4, <1>5, <1>6, <1>7 DEF r

\* The two ways into a state.
LEMMA TwoWays ==
    ASSUME NEW u \in InputBits, NEW n \in Nat, n >= T, NEW s \in States,
           PathState(u, n + 1) = s
    PROVE  \E t \in {0, 1} : /\ u[n + 1 - T] = t
                             /\ PathRegister(u, n + 1) = s + t * Highbit
                             /\ PathState(u, n) = (s + t * Highbit) \div 2
<1>1. /\ n + 1 - T \in Nat \ {0}
      /\ PathRegister(u, n + 1) = s + u[n + 1 - T] * Highbit
  BY OldestBit
<1>2. u[n + 1 - T] \in {0, 1}
  BY <1>1 DEF InputBits
<1> QED BY <1>1, <1>2, PathCame

\* What a decision slice adds to the survivor into a state.
LEMMA DecisionAdded ==
    ASSUME NEW all \in Seq([States -> {0, 1}]), NEW d \in [States -> {0, 1}],
           NEW s \in States
    PROVE  /\ Len(Append(all, d)) = Len(all) + 1
           /\ Buf!BitAt(Append(all, d), s, Len(all) + 1) = d[s]
           /\ \A k \in 1 .. Len(all) :
                  Buf!BitAt(Append(all, d), s, k)
                      = Buf!BitAt(all, (s + d[s] * Highbit) \div 2, k)
<1> DEFINE more == Append(all, d)
           n == Len(all)
<1>0. Buf!States = States /\ s \in Buf!States
  BY DEF Buf!States, Buf!Stream!States, States
<1>1. Len(more) = n + 1 /\ more[n + 1] = d /\ n \in Nat
  OBVIOUS
<1>2. Buf!Stream!PathBit(d, s) = d[s]
  <2>1. d[s] \in {0, 1}
    OBVIOUS
  <2> QED BY <2>1 DEF Buf!Stream!PathBit
<1>3. Buf!BitAt(more, s, n + 1) = d[s]
  <2>1. Len(Buf!Full(more)) \in Nat
    BY <1>1, RingAssumptions, Buf!FullFacts
  <2>2. Buf!Walk(Buf!Full(more), s)[0] = s
    BY <2>1, <1>0, RingAssumptions, Buf!WalkDef
  <2>3. Len(more) - (n + 1) = 0
    BY <1>1
  <2> HIDE DEF more, n
  <2> QED BY <2>2, <2>3, <1>1, <1>2 DEF Buf!BitAt
<1>4. Buf!Stream!Predecessor(d, s) = (s + d[s] * Highbit) \div 2
  BY <1>2 DEF Buf!Stream!Predecessor
<1>5. \A k \in 1 .. n : Buf!BitAt(more, s, k) = Buf!BitAt(all, Buf!Stream!Predecessor(d, s), k)
  BY <1>0, RingAssumptions, Buf!PathExtends
<1> QED BY <1>1, <1>3, <1>4, <1>5

\* The better of the two ways is the least, and its survivor goes that way.
LEMMA LeastOfTwo ==
    ASSUME NEW b \in Inputs, NEW n \in Nat, n >= T, n + 1 <= Len(b.symbols),
           NEW all \in Seq([States -> {0, 1}]), Len(all) = n - T,
           NEW d \in [States -> {0, 1}], NEW s \in States,
           NEW c \in [{0, 1} -> Nat],
           \A t \in {0, 1} : IsLeast(b, n, (s + t * Highbit) \div 2, c[t], all),
           NEW e \in [{0, 1} -> Nat],
           \A t \in {0, 1} : e[t] = c[t] + SliceCost(b, n + 1, Table[s + t * Highbit]),
           \A t \in {0, 1} : e[d[s]] <= e[t]
    PROVE  IsLeast(b, n + 1, s, e[d[s]], Append(all, d))
<1> DEFINE t == d[s]
           p == (s + t * Highbit) \div 2
           more == Append(all, d)
<1>0. t \in {0, 1} /\ T \in Nat
  BY TrellisFacts
<1>1. PICK u \in InputBits : PathState(u, n) = p /\ PathCost(b, u, n) = c[t] /\ Along(all, p, u)
  BY <1>0 DEF IsLeast
<1>2. PICK v \in InputBits :
          /\ Agree(v, u, n)
          /\ PathRegister(v, n + 1) = s + t * Highbit
          /\ PathState(v, n + 1) = s
          /\ PathCost(b, v, n + 1)
                 = PathCost(b, u, n) + SliceCost(b, n + 1, Table[s + t * Highbit])
  <2> HIDE DEF t
  <2> QED BY <1>0, <1>1, GoOn
<1>3. PathCost(b, v, n + 1) = e[t]
  BY <1>0, <1>1, <1>2
<1>4. Along(more, s, v)
  <2>1. /\ Len(more) = Len(all) + 1
        /\ Buf!BitAt(more, s, Len(all) + 1) = t
        /\ \A k \in 1 .. Len(all) : Buf!BitAt(more, s, k) = Buf!BitAt(all, p, k)
    BY DecisionAdded
  <2>2. v[n + 1 - T] = t
    <3>1. PICK f \in {0, 1} : v[n + 1 - T] = f /\ PathRegister(v, n + 1) = s + f * Highbit
      BY <1>2, TwoWays
    <3>2. s \in Nat /\ Highbit \in Nat \ {0}
      BY TrellisFacts DEF States
    <3>3. s + f * Highbit = s + t * Highbit
      BY <3>1, <1>2
    <3>4. f = t
      <4> HIDE DEF t
      <4>1. 0 * Highbit = 0 /\ 1 * Highbit = Highbit
        BY <3>2
      <4>2. f = 0 \/ f = 1
        OBVIOUS
      <4>3. t = 0 \/ t = 1
        BY <1>0
      <4> QED BY <4>1, <4>2, <4>3, <3>2, <3>3
    <3> QED BY <3>1, <3>4
  <2> HIDE DEF t, p, more
  <2> SUFFICES ASSUME NEW k \in 1 .. Len(more) PROVE v[k] = Buf!BitAt(more, s, k)
    BY DEF Along
  <2>3. CASE k = Len(all) + 1
    <3>1. k = n + 1 - T
      BY <2>3, <1>0
    <3> QED BY <2>1, <2>2, <2>3, <3>1
  <2>4. CASE k # Len(all) + 1
    <3>1. k \in 1 .. Len(all) /\ k \in 1 .. n
      BY <2>1, <2>4, <1>0
    <3> QED BY <3>1, <2>1, <1>1, <1>2 DEF Along, Agree
  <2> QED BY <2>3, <2>4
<1>5. ASSUME NEW w \in InputBits, PathState(w, n + 1) = s PROVE e[t] <= PathCost(b, w, n + 1)
  <2>1. PICK f \in {0, 1} : /\ PathRegister(w, n + 1) = s + f * Highbit
                            /\ PathState(w, n) = (s + f * Highbit) \div 2
    BY <1>5, TwoWays
  <2>2. c[f] <= PathCost(b, w, n)
    BY <2>1 DEF IsLeast
  <2> DEFINE y == SliceCost(b, n + 1, Table[s + f * Highbit])
             a == PathCost(b, w, n)
             z == PathCost(b, w, n + 1)
  <2>3. a \in Nat /\ y \in Nat /\ z = a + y
    <3> DEFINE q == PathRegister(w, n + 1)
    <3>1. q = s + f * Highbit
      BY <2>1
    <3>2. /\ PathCost(b, w, n) \in Nat /\ SliceCost(b, n + 1, Table[q]) \in Nat
          /\ PathCost(b, w, n + 1) = PathCost(b, w, n) + SliceCost(b, n + 1, Table[q])
      BY CostStep
    <3> HIDE DEF q
    <3> QED BY <3>1, <3>2
  <2>4. e[f] = c[f] + y /\ e[t] <= e[f] /\ c[f] \in Nat /\ e[f] \in Nat /\ e[t] \in Nat
    BY <1>0
  <2>5. c[f] <= a
    BY <2>2
  <2> HIDE DEF y, a, z, t
  <2>6. e[t] <= z
    BY <2>3, <2>4, <2>5
  <2> QED BY <2>6 DEF z
<1> QED BY <1>2, <1>3, <1>4, <1>5 DEF IsLeast

\* While the register fills there is one way.
LEMMA LeastOfOne ==
    ASSUME NEW b \in Inputs, NEW n \in Nat, n < T, n + 1 <= Len(b.symbols),
           NEW s \in States, NEW c \in Nat, IsLeast(b, n, s \div 2, c, <<>>)
    PROVE  IsLeast(b, n + 1, s, c + SliceCost(b, n + 1, Table[s]), <<>>)
<1>0. s + 0 * Highbit = s
  BY TrellisFacts DEF States
<1>1. PICK u \in InputBits : PathState(u, n) = s \div 2 /\ PathCost(b, u, n) = c
  BY DEF IsLeast
<1>2. PICK v \in InputBits :
          /\ PathState(v, n + 1) = s
          /\ PathCost(b, v, n + 1) = PathCost(b, u, n) + SliceCost(b, n + 1, Table[s])
  <2>1. 0 \in {0, 1} /\ PathState(u, n) = (s + 0 * Highbit) \div 2
    BY <1>0, <1>1
  <2>2. \E v \in InputBits :
          /\ Agree(v, u, n)
          /\ PathRegister(v, n + 1) = s + 0 * Highbit
          /\ PathState(v, n + 1) = s
          /\ PathCost(b, v, n + 1)
                 = PathCost(b, u, n) + SliceCost(b, n + 1, Table[s + 0 * Highbit])
    BY <2>1, GoOn
  <2> QED BY <2>2, <1>0
<1>3. Along(<<>>, s, v)
  BY DEF Along
<1>4. ASSUME NEW w \in InputBits, PathState(w, n + 1) = s
      PROVE  c + SliceCost(b, n + 1, Table[s]) <= PathCost(b, w, n + 1)
  <2>1. PathRegister(w, n + 1) = s
    <3>1. n <= T
      BY TrellisFacts
    <3> QED BY <3>1, <1>4, EarlyState
  <2>2. PathState(w, n) = s \div 2
    BY <2>1, PathCame
  <2>3. c <= PathCost(b, w, n)
    BY <2>2 DEF IsLeast
  <2> DEFINE y == SliceCost(b, n + 1, Table[s])
             a == PathCost(b, w, n)
             z == PathCost(b, w, n + 1)
  <2>4. a \in Nat /\ y \in Nat /\ z = a + y
    BY <2>1, CostStep
  <2>5. c <= a
    BY <2>3
  <2> HIDE DEF y, a, z
  <2>6. c + y <= z
    BY <2>4, <2>5
  <2> QED BY <2>6 DEF y, z
<1> QED BY <1>1, <1>2, <1>3, <1>4 DEF IsLeast

\* No path at all has not cost anything.
LEMMA LeastAtStart ==
    ASSUME NEW b
    PROVE  IsLeast(b, 0, 0, 0, <<>>)
<1> DEFINE u == [k \in Nat \ {0} |-> 0]
<1>1. u \in InputBits /\ PathState(u, 0) = 0
  <2>1. u \in InputBits
    BY DEF InputBits
  <2> QED BY <2>1, PathStart
<1>2. \A v : PathCost(b, v, 0) = 0
  BY CostStart
<1> HIDE DEF u
<1>3. Along(<<>>, 0, u)
  BY DEF Along
<1> QED BY <1>1, <1>2, <1>3 DEF IsLeast

\* Lowering all metrics by the least of them moves the base, and drops an anchor.
LEMMA LeastLowered ==
    ASSUME NEW b \in Inputs, NEW n \in T .. Len(b.symbols), NEW L, NEW m, NEW l,
           NEW base \in Nat, NEW all, AreLeast(b, n, L, m, base, all),
           NEW best \in L, m[best] \in Nat,
           \A s \in L : m[s] \in Nat /\ l[s] = m[s] - m[best]
    PROVE  /\ AreLeast(b, n, L, l, base + m[best], all)
           /\ Anchored(b, n, 0, base + m[best])
<1>0. T \in Nat /\ Len(b.symbols) \in Nat /\ n \in Nat /\ n - T \in Nat /\ (n - T) + T = n
  BY TrellisFacts, LengthFacts
<1>1. \A s \in L : l[s] + (base + m[best]) = m[s] + base
  OBVIOUS
<1>2. AreLeast(b, n, L, l, base + m[best], all)
  BY <1>1 DEF AreLeast
<1>3. IsLeast(b, n, best, m[best] + base, all)
  BY DEF AreLeast
<1>4. PICK u \in InputBits : PathCost(b, u, n) = m[best] + base
  BY <1>3 DEF IsLeast
<1> DEFINE k == n - T
<1>5. PathCost(b, u, k) <= PathCost(b, u, k + T)
  <2>1. k \in Nat /\ k + T <= Len(b.symbols)
    BY <1>0
  <2> HIDE DEF k
  <2> QED BY <2>1, <1>0, CostOfMore
<1>6. PathCost(b, u, k) <= base + m[best]
  <2>1. k + T = n
    BY <1>0
  <2>2. m[best] + base = base + m[best]
    OBVIOUS
  <2> QED BY <2>1, <2>2, <1>4, <1>5
<1>7. k \in Nat /\ k + T + 0 >= n /\ k + T <= n
  BY <1>0
<1>8. Anchored(b, n, 0, base + m[best])
  <2> HIDE DEF k
  <2> QED BY <1>6, <1>7 DEF Anchored
<1> QED BY <1>2, <1>8

-----------------------------------------------------------------------------
(* One round of the metrics.                                               *)

LiveAt(every) == {s \in States : s % every = 0}

\* What the metrics m are in the loop ph after n slices, with the counter at c,
\* the states that are multiples of k live, and the slices `all` made.
Tracks(ph, b, n, c, k, m, all) ==
    /\ ph = "warmup" =>
           all = <<>> /\ \A s \in States : s < 2^n => IsLeast(b, n, s, m[s], all)
    /\ ph \in {"inner", "tail"} =>
           /\ n >= T /\ Len(all) = n - T
           /\ \E base \in Nat : AreLeast(b, n, LiveAt(k), m, base, all) /\ Anchored(b, n, c, base)

\* The sum of the way through the register of state s with oldest bit t.
WaySum(far, m, s, t) == Sum(far[s + t * Highbit], m[(s + t * Highbit) \div 2])

\* What slice n + 1 adds through each register.
Measures(far, b, n) ==
    \A r \in Registers : far[r] = SliceCost(b, n + 1, Table[r])

\* The decisions d and the metrics e of the better ways into the live states.
Survives(far, m, every, d, e) ==
    \A s \in LiveAt(every) :
        /\ e[s] = WaySum(far, m, s, d[s])
        /\ \A t \in {0, 1} : e[s] <= WaySum(far, m, s, t)

\* The predecessors of what is live next are live now.
ComesFrom(every, k) ==
    \A s \in LiveAt(every) : \A t \in {0, 1} : (s + t * Highbit) \div 2 \in LiveAt(k)

\* Either nothing is lowered, or all by the least one.
Lowers(e, every, l, c, c2) ==
    \/ l = e /\ c2 = c + 1
    \/ /\ c2 = 0
       /\ \E best \in LiveAt(every) :
              /\ \A t \in LiveAt(every) : e[best] <= e[t]
              /\ \A s \in LiveAt(every) : l[s] = e[s] - e[best]

\* With the counter at c, the sums of a round fit below max.
Fits(c, max) == c * Half + Order * Worst <= max

\* What is in range does not wrap.
LEMMA SmallRemainder ==
    ASSUME NEW x \in Nat, NEW max \in Nat, x <= max
    PROVE  x % (max + 1) = x
  OBVIOUS

\* Sums of a round stay in range: none wraps.
LEMMA SumInRange ==
    ASSUME TapsNewest, NEW b \in Inputs, NEW n \in Nat, n >= T, n + 1 <= Len(b.symbols),
           NEW c \in Nat, NEW max \in Nat, Fits(c, max), NEW base \in Nat,
           Anchored(b, n, c, base),
           NEW r \in Registers, NEW p \in States, NEW x \in Nat, NEW all,
           IsLeast(b, n, p, x + base, all)
    PROVE  /\ SliceCost(b, n + 1, Table[r]) \in Nat
           /\ SliceCost(b, n + 1, Table[r]) + x <= max
<1> DEFINE y == SliceCost(b, n + 1, Table[r])
           tw == T * Worst
           ch == c * Half
           ow == Order * Worst
<1>0. /\ Len(b.symbols) \in Nat /\ T \in Nat /\ Half \in Nat /\ Worst \in Nat /\ Order = T + 1
  BY LengthFacts, TrellisFacts, WorstFacts
<1>1. y \in Nat /\ y <= Worst
  <2>1. n + 1 \in 1 .. Len(b.symbols) /\ Table[r] \in Outputs
    BY <1>0, TableType
  <2> QED BY <2>1, CostRange
<1>2. x <= ch + tw
  <2>1. n \in 0 .. Len(b.symbols)
    BY <1>0
  <2> QED BY <2>1, MetricBound
<1>3. ow = tw + Worst /\ tw \in Nat /\ ch \in Nat
  BY <1>0
<1>4. ch + ow <= max
  BY DEF Fits
<1> HIDE DEF y, tw, ch, ow
<1>5. y + x <= max
  BY <1>0, <1>1, <1>2, <1>3, <1>4
<1> QED BY <1>1, <1>5 DEF y

\* One round of the inner loop or the tail: if the metrics were least distances,
\* each survivor the better of two, and the renormalisation the same for all,
\* they are least distances again.
LEMMA TracksRound ==
    ASSUME TapsNewest, NEW b \in Inputs, NEW n \in Nat, n + 1 <= Len(b.symbols),
           NEW c \in Nat, Fits(c, DistanceMax),
           NEW ph \in {"inner", "tail"}, NEW k, NEW every,
           NEW m \in [States -> 0 .. DistanceMax],
           NEW all \in Seq([States -> {0, 1}]),
           Tracks(ph, b, n, c, k, m, all), ComesFrom(every, k),
           NEW far, Measures(far, b, n),
           NEW d \in [States -> {0, 1}], NEW e \in [States -> 0 .. DistanceMax],
           Survives(far, m, every, d, e),
           NEW l, NEW c2, Lowers(e, every, l, c, c2)
    PROVE  Tracks(ph, b, n + 1, c2, every, l, Append(all, d))
<1> DEFINE more == Append(all, d)
<1>0. T \in Nat /\ DistanceMax \in Nat /\ Highbit \in Nat \ {0} /\ Len(b.symbols) \in Nat
  BY TrellisFacts, LengthFacts
<1>1. n >= T /\ Len(all) = n - T
  BY DEF Tracks
<1>2. PICK base \in Nat : AreLeast(b, n, LiveAt(k), m, base, all) /\ Anchored(b, n, c, base)
  BY DEF Tracks
<1>3. Len(more) = (n + 1) - T
  BY <1>0, <1>1
<1>4. ASSUME NEW s \in LiveAt(every) PROVE IsLeast(b, n + 1, s, e[s] + base, more)
  <2> DEFINE p(t) == (s + t * Highbit) \div 2
             cost(t) == SliceCost(b, n + 1, Table[s + t * Highbit])
             was == [t \in {0, 1} |-> m[p(t)] + base]
             is == [t \in {0, 1} |-> WaySum(far, m, s, t) + base]
  <2>1. s \in States
    BY DEF LiveAt
  <2>2. ASSUME NEW t \in {0, 1}
        PROVE  /\ p(t) \in States /\ p(t) \in LiveAt(k) /\ m[p(t)] \in Nat
               /\ IsLeast(b, n, p(t), m[p(t)] + base, all)
               /\ cost(t) \in Nat /\ WaySum(far, m, s, t) = m[p(t)] + cost(t)
    <3>1. p(t) \in LiveAt(k)
      BY DEF ComesFrom
    <3>2. p(t) \in States
      BY <3>1 DEF LiveAt
    <3>3. m[p(t)] \in Nat
      BY <3>2, <1>0
    <3>4. IsLeast(b, n, p(t), m[p(t)] + base, all)
      BY <3>1, <1>2 DEF AreLeast
    <3>5. s + t * Highbit \in Registers
      BY <2>1, RegisterParts
    <3>6. far[s + t * Highbit] = cost(t)
      BY <3>5 DEF Measures
    <3> DEFINE x == m[p(t)]
               y == cost(t)
               q == p(t)
               r == s + t * Highbit
    <3>7. WaySum(far, m, s, t) = (y + x) % (DistanceMax + 1)
      BY <3>6 DEF WaySum, Sum
    <3>8. y = SliceCost(b, n + 1, Table[r]) /\ r \in Registers /\ q \in States
          /\ x \in Nat /\ IsLeast(b, n, q, x + base, all)
      BY <3>2, <3>3, <3>4, <3>5
    <3> HIDE DEF x, y, q, r
    <3>9. y \in Nat /\ y + x <= DistanceMax
      BY <3>8, <1>0, <1>1, <1>2, SumInRange
    <3>10. (y + x) % (DistanceMax + 1) = x + y
      <4>1. y + x \in Nat /\ y + x <= DistanceMax /\ x + y = y + x
        BY <3>8, <3>9, <1>0
      <4> QED BY <4>1, <1>0, SmallRemainder
    <3>11. WaySum(far, m, s, t) = x + y
      BY <3>7, <3>10
    <3> QED BY <3>1, <3>2, <3>3, <3>4, <3>9, <3>11 DEF x, y
  <2>3. d[s] \in {0, 1}
    BY <2>1
  <2>4. /\ e[s] = WaySum(far, m, s, d[s])
        /\ \A t \in {0, 1} : e[s] <= WaySum(far, m, s, t)
    BY DEF Survives
  <2>5. \A t \in {0, 1} : /\ was[t] = m[p(t)] + base
                          /\ is[t] = WaySum(far, m, s, t) + base
    OBVIOUS
  <2>6. was \in [{0, 1} -> Nat]
    <3> HIDE DEF p
    <3> QED BY <2>2
  <2>7. \A t \in {0, 1} : IsLeast(b, n, p(t), was[t], all)
    <3>1. ASSUME NEW t \in {0, 1} PROVE IsLeast(b, n, p(t), was[t], all)
      <4>1. was[t] = m[p(t)] + base
        BY <2>5
      <4> HIDE DEF was, p
      <4> QED BY <4>1, <2>2
    <3> QED BY <3>1
  <2>8. ASSUME NEW t \in {0, 1} PROVE is[t] = was[t] + cost(t) /\ is[t] \in Nat
    <3>1. is[t] = (m[p(t)] + cost(t)) + base /\ was[t] = m[p(t)] + base
      BY <2>2, <2>5
    <3>2. m[p(t)] \in Nat /\ cost(t) \in Nat
      BY <2>2
    <3> HIDE DEF is, was, p, cost
    <3> QED BY <3>1, <3>2
  <2>9. is \in [{0, 1} -> Nat]
    <3>1. DOMAIN is = {0, 1} /\ is = [t \in {0, 1} |-> is[t]]
      OBVIOUS
    <3> HIDE DEF is
    <3> QED BY <3>1, <2>8
  <2>10. is[d[s]] = e[s] + base
    BY <2>3, <2>4, <2>5
  <2>11. \A t \in {0, 1} : is[d[s]] <= is[t]
    <3> SUFFICES ASSUME NEW t \in {0, 1} PROVE is[d[s]] <= is[t]
      OBVIOUS
    <3>1. is[t] = WaySum(far, m, s, t) + base /\ e[s] <= WaySum(far, m, s, t)
      BY <2>4, <2>5
    <3>2. e[s] \in Nat /\ WaySum(far, m, s, t) \in Nat
      <4>1. m[p(t)] \in Nat /\ cost(t) \in Nat /\ WaySum(far, m, s, t) = m[p(t)] + cost(t)
        BY <2>2
      <4> HIDE DEF p, cost
      <4> QED BY <4>1, <2>1, <1>0
    <3> HIDE DEF is
    <3> QED BY <3>1, <3>2, <2>10
  <2>12. \A t \in {0, 1} : is[t] = was[t] + cost(t)
    BY <2>8
  <2> HIDE DEF is, was
  <2>13. IsLeast(b, n + 1, s, is[d[s]], more)
    BY <1>1, <2>1, <2>6, <2>7, <2>9, <2>11, <2>12, LeastOfTwo
  <2> QED BY <2>10, <2>13
<1> HIDE DEF more
<1>5. AreLeast(b, n + 1, LiveAt(every), e, base, more)
  BY <1>4 DEF AreLeast
<1>6. n + 1 >= T /\ n + 1 \in T .. Len(b.symbols)
  BY <1>0, <1>1
<1>7. CASE l = e /\ c2 = c + 1
  <2>1. Anchored(b, n + 1, c2, base)
    BY <1>2, <1>7, AnchorStep
  <2> QED BY <2>1, <1>3, <1>5, <1>6, <1>7 DEF Tracks, more
<1>8. CASE c2 = 0 /\ \E best \in LiveAt(every) :
                         /\ \A t \in LiveAt(every) : e[best] <= e[t]
                         /\ \A s \in LiveAt(every) : l[s] = e[s] - e[best]
  <2>1. PICK best \in LiveAt(every) :
            /\ \A t \in LiveAt(every) : e[best] <= e[t]
            /\ \A s \in LiveAt(every) : l[s] = e[s] - e[best]
    BY <1>8
  <2>2. \A s \in LiveAt(every) : e[s] \in Nat
    BY <1>0 DEF LiveAt
  <2>3. /\ AreLeast(b, n + 1, LiveAt(every), l, base + e[best], more)
        /\ Anchored(b, n + 1, 0, base + e[best])
    BY <1>5, <1>6, <2>1, <2>2, LeastLowered
  <2>4. base + e[best] \in Nat
    BY <2>1, <2>2
  <2> QED BY <2>3, <2>4, <1>3, <1>6, <1>8 DEF Tracks, more
<1> QED BY <1>7, <1>8 DEF Lowers

\* A round of the warm-up fills the metrics l of the states reached so far; the
\* first one is lost, and leaves the metrics as the reset has made them.
Fills(l, far, m, n) ==
    \A s \in States : s < 2^(n + 1) =>
        l[s] = IF n = 0 THEN m[s] ELSE Sum(far[s], m[s \div 2])
MeasuresRest(far, b, n) == n >= 1 => Measures(far, b, n)
Fresh(m, n) == n = 0 => \A s \in States : m[s] = 0

\* One round of the warm-up: each state is reached in one way only, so that its
\* sum is its least distance.
LEMMA TracksWarm ==
    ASSUME NEW b \in Inputs, NEW n \in Nat, n < T, n + 1 <= Len(b.symbols),
           T * Worst <= DistanceMax, NEW c, NEW c2, NEW k, NEW m \in [States -> 0 .. DistanceMax],
           Tracks("warmup", b, n, c, k, m, <<>>),
           NEW far, MeasuresRest(far, b, n), NEW l, Fills(l, far, m, n), Fresh(m, n)
    PROVE  Tracks("warmup", b, n + 1, c2, k, l, <<>>)
<1>0. /\ T \in Nat /\ DistanceMax \in Nat /\ Highbit \in Nat \ {0} /\ Len(b.symbols) \in Nat
      /\ Highbit = 2^T /\ 2^Order = 2 * Highbit /\ Worst \in Nat
  BY TrellisFacts, LengthFacts, WorstFacts
<1> SUFFICES ASSUME NEW s \in States, s < 2^(n + 1)
             PROVE  IsLeast(b, n + 1, s, l[s], <<>>)
  BY DEF Tracks
<1> DEFINE p == s \div 2
           x == m[p]
           y == SliceCost(b, n + 1, Table[s])
<1>1. p \in States /\ p < 2^n /\ s \in Registers /\ p \in Nat
  <2> DEFINE a == 2^n
             e == 2^(n + 1)
  <2>1. e = 2 * a /\ a \in Nat /\ s < e
    BY PowerStep
  <2>2. s \in Nat /\ s \in 0 .. Highbit - 1
    BY <1>0 DEF States
  <2> HIDE DEF a, e
  <2>3. p \in 0 .. Highbit - 1 /\ p < a
    BY <2>1, <2>2, <1>0
  <2>4. s \in 0 .. 2 * Highbit - 1
    BY <2>2, <1>0
  <2> QED BY <2>3, <2>4, <1>0 DEF States, Registers, a
<1> HIDE DEF p
<1>2. IsLeast(b, n, p, x, <<>>) /\ x \in Nat
  BY <1>0, <1>1 DEF Tracks
<1>3. y \in Nat
  <2>1. n + 1 \in 1 .. Len(b.symbols) /\ Table[s] \in Outputs
    BY <1>0, <1>1, TableType
  <2> QED BY <2>1, CostRange
<1>4. IsLeast(b, n + 1, s, x + y, <<>>)
  BY <1>2, LeastOfOne DEF p
<1>5. x + y <= DistanceMax
  <2>1. PICK u \in InputBits : PathCost(b, u, n + 1) = x + y
    BY <1>4 DEF IsLeast
  <2> DEFINE z == PathCost(b, u, 0 + (n + 1))
             w == (n + 1) * Worst
  <2>2. z <= PathCost(b, u, 0) + w
    <3> DEFINE g == n + 1
    <3>1. g \in Nat /\ 0 + g <= Len(b.symbols)
      BY <1>0
    <3>2. PathCost(b, u, 0 + g) <= PathCost(b, u, 0) + g * Worst
      <4> HIDE DEF g
      <4> QED BY <3>1, CostOfMore
    <3> QED BY <3>2
  <2>3. z = x + y /\ PathCost(b, u, 0) = 0
    BY <2>1, CostStart
  <2>4. w <= T * Worst /\ w \in Nat
    <3>1. n + 1 <= T
      BY <1>0
    <3> QED BY <3>1, <1>0
  <2> HIDE DEF z, w, x, y
  <2> DEFINE tw == T * Worst
  <2>5. tw <= DistanceMax /\ w <= tw /\ tw \in Nat
    BY <2>4, <1>0
  <2> HIDE DEF tw
  <2> QED BY <2>2, <2>3, <2>5, <2>4, <1>0, <1>2, <1>3
<1>6. l[s] = x + y
  <2>1. CASE n = 0
    <3>1. y = 0
      BY <2>1 DEF SliceCost
    <3>2. x = 0 /\ m[s] = 0
      BY <2>1, <1>1 DEF Fresh
    <3>3. l[s] = m[s]
      BY <2>1 DEF Fills
    <3> HIDE DEF x, y
    <3> QED BY <3>1, <3>2, <3>3
  <2>2. CASE n # 0
    <3>1. far[s] = y
      BY <2>2, <1>1 DEF MeasuresRest, Measures
    <3>2. l[s] = (y + x) % (DistanceMax + 1)
      BY <2>2, <3>1 DEF Fills, Sum, p
    <3> HIDE DEF x, y
    <3>3. y + x \in Nat /\ y + x <= DistanceMax /\ x + y = y + x
      BY <1>2, <1>3, <1>5, <1>0 DEF x, y
    <3> QED BY <3>2, <3>3, <1>0, SmallRemainder
  <2> QED BY <2>1, <2>2
<1> QED BY <1>4, <1>6

\* The register is full: the inner loop begins with all states live.
LEMMA TracksFull ==
    ASSUME NEW b \in Inputs, NEW c \in Nat, NEW k, NEW m \in [States -> 0 .. DistanceMax], NEW all,
           Tracks("warmup", b, T, c, k, m, all)
    PROVE  Tracks("inner", b, T, c, 1, m, all)
<1>0. T \in Nat /\ Highbit = 2^T /\ Highbit \in Nat \ {0} /\ DistanceMax \in Nat
  BY TrellisFacts
<1>1. all = <<>> /\ \A s \in States : s < 2^T => IsLeast(b, T, s, m[s], all)
  BY DEF Tracks
<1>2. ASSUME NEW s \in States PROVE IsLeast(b, T, s, m[s] + 0, all)
  <2>1. s < 2^T
    BY <1>0 DEF States
  <2>2. m[s] + 0 = m[s]
    BY <1>0
  <2> QED BY <2>1, <2>2, <1>1
<1>3. AreLeast(b, T, LiveAt(1), m, 0, all)
  BY <1>2 DEF AreLeast, LiveAt
<1>4. Anchored(b, T, c, 0)
  BY AnchorStart
<1>5. T >= T /\ Len(all) = T - T /\ 0 \in Nat
  BY <1>0, <1>1
<1> QED BY <1>3, <1>4, <1>5 DEF Tracks

-----------------------------------------------------------------------------
(* The metrics in the decoders' states.                                    *)

\* Between two renormalisations the sums of a round stay below DistanceMax.
RangeIsEnough == Fits(RenormalizeInterval - 1, DistanceMax)

\* An interval that is the range divided by the worst distance of a slice is
\* short enough for codes of up to half its order.
LEMMA IntervalFits ==
    ASSUME NEW max \in Nat, RenormalizeInterval = max \div Worst,
           2 * Order <= RenormalizeInterval + 1
    PROVE  Fits(RenormalizeInterval - 1, max)
<1> DEFINE p == RenormalizeInterval
           w == Worst
           h == Half
           a == (p - 1) * h
           z == Order * w
<1>1. /\ w \in Nat /\ h \in Nat /\ 2 * h <= w /\ Rate <= w /\ p \in Nat \ {0}
      /\ Order \in Nat /\ Rate \in Nat /\ Rate >= 2
  BY WorstFacts, TrellisFacts, RingAssumption, TrellisAssumption
<1>2. p = max \div w
  OBVIOUS
<1>3. w * p <= max
  <2> HIDE DEF w, p
  <2>1. w \in Nat \ {0} /\ max \in Int
    BY <1>1
  <2>2. max = w * (max \div w) + (max % w)
        /\ max % w \in 0 .. w - 1
    BY <2>1, Division
  <2>3. max = w * p + (max % w)
    BY <1>2, <2>2
  <2> DEFINE q == w * p
             e == max % w
  <2>4. q \in Nat /\ e \in Nat /\ max = q + e
    BY <1>1, <2>1, <2>2, <2>3
  <2> HIDE DEF q, e
  <2>5. q <= max
    BY <2>4
  <2> QED BY <2>5 DEF q
<1>4. 2 * a <= (p - 1) * w
  <2> HIDE DEF p, w, h
  <2>1. p - 1 \in Nat /\ 2 * h <= w /\ 2 * h \in Nat
    BY <1>1
  <2> DEFINE g == p - 1
             k == 2 * h
  <2>2. g * k <= g * w
    <3> HIDE DEF g, k
    <3>1. g \in Nat /\ k \in Nat /\ w \in Nat /\ k <= w
      BY <2>1, <1>1 DEF g, k
    <3> QED BY <3>1
  <2>3. g * k = 2 * a
    BY <1>1, <2>1
  <2> QED BY <2>2, <2>3
<1>5. 2 * z <= (p + 1) * w
  <2> HIDE DEF p, w
  <2> DEFINE g == 2 * Order
             k == p + 1
  <2>1. g * w <= k * w
    <3>1. g \in Nat /\ k \in Nat /\ w \in Nat /\ g <= k
      BY <1>1 DEF p
    <3> HIDE DEF g, k
    <3> QED BY <3>1
  <2>2. g * w = 2 * z
    BY <1>1
  <2> QED BY <2>1, <2>2
<1>6. (p - 1) * w + (p + 1) * w = 2 * (w * p)
  <2> HIDE DEF p, w
  <2> QED BY <1>1
<1>7. a \in Nat /\ z \in Nat /\ (p - 1) * w \in Nat /\ (p + 1) * w \in Nat /\ w * p \in Nat
  <2> HIDE DEF p, w, h
  <2>1. p - 1 \in Nat /\ p + 1 \in Nat
    BY <1>1
  <2> QED BY <1>1, <2>1
<1>8. a + z <= max
  <2> DEFINE x1 == (p - 1) * w
             x2 == (p + 1) * w
             x3 == w * p
  <2> HIDE DEF a, z, x1, x2, x3
  <2>1. a \in Nat /\ z \in Nat /\ x1 \in Nat /\ x2 \in Nat /\ x3 \in Nat /\ max \in Nat
    BY <1>1, <1>7 DEF a, z, x1, x2, x3
  <2>2. 2 * a <= x1 /\ 2 * z <= x2 /\ x1 + x2 = 2 * x3 /\ x3 <= max
    BY <1>3, <1>4, <1>5, <1>6 DEF x1, x2, x3
  <2> QED BY <2>1, <2>2
<1> QED BY <1>8 DEF Fits

\* The interval of cv_decode.c.
LEMMA PlainIntervalFits ==
    ASSUME RenormalizeInterval = PlainInterval, 2 * Order <= PlainInterval + 1
    PROVE  RangeIsEnough
<1>1. DistanceMax \in Nat /\ RenormalizeInterval = DistanceMax \div Worst
  BY TrellisFacts DEF PlainInterval, Worst
<1>2. 2 * Order <= RenormalizeInterval + 1
  OBVIOUS
<1> QED BY <1>1, <1>2, IntervalFits DEF RangeIsEnough

\* A smaller counter fits as well.
LEMMA FitsBelow ==
    ASSUME NEW c \in Nat, NEW e \in Nat, c <= e, NEW max \in Nat, NEW max2 \in Nat, max <= max2,
           Fits(e, max)
    PROVE  Fits(c, max2) /\ T * Worst <= max2
<1> DEFINE ch == c * Half
           eh == e * Half
           ow == Order * Worst
           tw == T * Worst
<1>1. Half \in Nat /\ Worst \in Nat /\ Order = T + 1 /\ T \in Nat
  BY WorstFacts, TrellisFacts
<1>2. ch <= eh /\ ch \in Nat /\ eh \in Nat
  BY <1>1
<1>3. ow \in Nat /\ tw \in Nat /\ ow = tw + Worst
  BY <1>1
<1>4. eh + ow <= max
  BY DEF Fits
<1> HIDE DEF ch, eh, ow, tw
<1>5. ch + ow <= max2 /\ tw <= max2
  BY <1>1, <1>2, <1>3, <1>4
<1> QED BY <1>5 DEF Fits, ch, ow, tw

\* What the loops and the buffers keep, whatever the metrics are, and what their
\* arrays hold.
Arrays ==
    /\ LoopsInv /\ Buffered /\ SkipFollowsLoop
    /\ errors \in [{0, 1} -> [States -> 0 .. DistanceMax]]
    /\ slices \in Seq([States -> {0, 1}])
    /\ phase # "idle" => block \in Inputs /\ sets = Len(block.symbols)
    /\ phase = "warmup" /\ i = 0 => \A s \in States : errors[read][s] = 0

\* The metrics to be read next are least distances, with the renormalisation
\* counter at c.
Counted(c) ==
    /\ c \in 0 .. RenormalizeInterval - 1
    /\ phase # "idle" => Tracks(phase, block, i, c, skip, errors[read], slices)

\* What the loops say of the round at hand.
LEMMA RoundFacts ==
    ASSUME Arrays, phase \in {"warmup", "inner", "tail"}
    PROVE  /\ block \in Inputs /\ sets = Len(block.symbols) /\ sets \in Nat /\ sets >= 2 * T
           /\ i \in Nat /\ order = Order /\ order - 1 = T
           /\ phase = "warmup" => i <= T /\ Len(consumed) = i
           /\ phase = "inner" => T <= i /\ i <= sets - T /\ Len(consumed) = i
           /\ phase = "tail" => sets - T <= i /\ i <= sets /\ Len(consumed) = i
           /\ read \in {0, 1} /\ write \in {0, 1} /\ index \in {0, 1}
           /\ Len(consumed) = 0 => index = 0 /\ read = 0 /\ write = 1
           /\ Len(consumed) >= 1 => write = index /\ read # write
           /\ errors[read] \in [States -> 0 .. DistanceMax]
           /\ errors[write] \in [States -> 0 .. DistanceMax]
           /\ Schedule!InnerEnd = sets - T
<1>1. /\ block \in Inputs /\ sets = Len(block.symbols) /\ sets \in Nat /\ sets >= 2 * T
  BY LengthFacts DEF Arrays
<1>2. i \in Nat /\ order = Order /\ order \in Nat
  BY LoopFacts DEF Arrays
<1>3. T = Order - 1 /\ T \in Nat /\ T >= 3
  BY TrellisFacts
<1>4. Schedule!InnerEnd = sets - T /\ sets - order + 1 = sets - T /\ order - 1 = T
  BY <1>1, <1>2, <1>3 DEF Schedule!InnerEnd
<1>5. LoopsInv
  BY DEF Arrays
<1>6. /\ phase = "warmup" => i <= T /\ Len(consumed) = i
      /\ phase = "inner" => T <= i /\ i <= sets - T /\ Len(consumed) = i
      /\ phase = "tail" => sets - T <= i /\ i <= sets /\ Len(consumed) = i
  BY <1>4, <1>5 DEF LoopsInv
<1>7. /\ read \in {0, 1} /\ write \in {0, 1} /\ index \in {0, 1}
      /\ Len(consumed) = 0 => index = 0 /\ read = 0 /\ write = 1
      /\ Len(consumed) >= 1 => write = index /\ read # write
  BY DEF Arrays, Buffered
<1>8. /\ errors[read] \in [States -> 0 .. DistanceMax]
      /\ errors[write] \in [States -> 0 .. DistanceMax]
  BY <1>7 DEF Arrays
<1> QED BY <1>1, <1>2, <1>3, <1>4, <1>6, <1>7, <1>8

\* What a round measures.
LEMMA RoundMeasures ==
    ASSUME block \in Inputs, i \in Nat, i + 1 <= Len(block.symbols)
    PROVE  /\ i >= 1 => Measures(DirectDistances, block, i)
           /\ \A r \in Registers : DirectDistances[r] \in Nat
<1>1. \A r \in Registers : DirectDistances[r] = OutputDistances[Table[r]]
  BY DEF DirectDistances
<1>2. \A y \in Outputs : OutputDistances[y] = Distance(y, block.symbols[i + 1], block.soft)
  BY DEF OutputDistances
<1>3. i + 1 \in 1 .. Len(block.symbols)
  BY LengthFacts
<1>4. \A r \in Registers :
          DirectDistances[r] = Distance(Table[r], block.symbols[i + 1], block.soft)
  BY <1>1, <1>2, TableType
<1>5. \A r \in Registers : DirectDistances[r] \in Nat
  BY <1>3, <1>4, TableType, CostRange
<1>6. i >= 1 => \A r \in Registers :
                    SliceCost(block, i + 1, Table[r])
                        = Distance(Table[r], block.symbols[i + 1], block.soft)
  BY DEF SliceCost
<1> QED BY <1>4, <1>5, <1>6 DEF Measures

\* Every sum is in the range of distance_t.
LEMMA SumType ==
    ASSUME NEW a \in Nat, NEW b \in Nat
    PROVE  Sum(a, b) \in 0 .. DistanceMax
<1>1. a + b \in Int /\ DistanceMax + 1 \in Nat \ {0}
  BY TrellisFacts
<1>2. (a + b) % (DistanceMax + 1) \in 0 .. (DistanceMax + 1) - 1
  BY <1>1, Division
<1>3. (DistanceMax + 1) - 1 = DistanceMax
  BY TrellisFacts
<1> QED BY <1>2, <1>3 DEF Sum

\* The sums of the two ways into a state.
LEMMA WayErrors ==
    ASSUME NEW far, \A r \in Registers : far[r] \in Nat,
           errors[read] \in [States -> 0 .. DistanceMax], NEW s \in States
    PROVE  /\ LowErrors(far)[s] = WaySum(far, errors[read], s, 0)
           /\ HighErrors(far)[s] = WaySum(far, errors[read], s, 1)
           /\ WaySum(far, errors[read], s, 0) \in 0 .. DistanceMax
           /\ WaySum(far, errors[read], s, 1) \in 0 .. DistanceMax
<1>1. /\ LowErrors(far)[s] = PathError(far, LowRegister(s))
      /\ HighErrors(far)[s] = PathError(far, HighRegister(s))
  BY DEF LowErrors, HighErrors
<1>2. LowRegister(s) = s + 0 * Highbit /\ HighRegister(s) = s + 1 * Highbit
  BY TrellisFacts DEF LowRegister, HighRegister, States
<1>3. \A t \in {0, 1} : PathError(far, s + t * Highbit) = WaySum(far, errors[read], s, t)
  BY DEF PathError, WaySum
<1>4. ASSUME NEW t \in {0, 1} PROVE WaySum(far, errors[read], s, t) \in 0 .. DistanceMax
  <2>1. s + t * Highbit \in Registers /\ (s + t * Highbit) \div 2 \in States
    BY RegisterParts
  <2>2. far[s + t * Highbit] \in Nat
    BY <2>1
  <2>3. errors[read][(s + t * Highbit) \div 2] \in Nat
    BY <2>1, TrellisFacts
  <2> QED BY <2>2, <2>3, SumType DEF WaySum
<1> QED BY <1>1, <1>2, <1>3, <1>4

\* The decisions d and the metrics e that a search hands to the ring.
Chosen(d, e, every) ==
    /\ d \in [States -> {0, 1}] /\ e \in [States -> 0 .. DistanceMax]
    /\ Survives(DirectDistances, errors[read], every, d, e)

\* What a search decides, and the metrics it leaves.
SearchBits(far, tie) ==
    [s \in States |-> Better(LowErrors(far), HighErrors(far), s, tie).bit]
SearchErrors(far, every, tie) ==
    [s \in States |-> IF s % every = 0
                      THEN Better(LowErrors(far), HighErrors(far), s, tie).error
                      ELSE errors[write][s]]

\* What the search of the inner loop and of the tail hands to the ring.
LEMMA SearchHands ==
    ASSUME NEW far, NEW every, NEW tie, Search(far, every, tie)
    PROVE  /\ Ring!ProcessSkip(SearchBits(far, tie), SearchErrors(far, every, tie), every)
           /\ skip' = every /\ Errors!Round(distances')
<1> DEFINE b(s) == Better(LowErrors(far), HighErrors(far), s, tie)
           survivor == [s \in States |-> b(s)]
           e == [s \in States |-> IF s % every = 0 THEN survivor[s].error
                                  ELSE errors[write][s]]
           d == [s \in States |-> survivor[s].bit]
<1>1. Ring!ProcessSkip(d, e, every) /\ skip' = every /\ Errors!Round(distances')
  BY DEF Search
<1>2. d = SearchBits(far, tie) /\ e = SearchErrors(far, every, tie)
  <2>1. \A s \in States : survivor[s] = b(s)
    OBVIOUS
  <2>2. /\ SearchBits(far, tie) = [s \in States |-> b(s).bit]
        /\ SearchErrors(far, every, tie)
               = [s \in States |-> IF s % every = 0 THEN b(s).error ELSE errors[write][s]]
    BY DEF SearchBits, SearchErrors
  <2> HIDE DEF b, survivor
  <2> QED BY <2>1, <2>2
<1> HIDE DEF d, e
<1> QED BY <1>1, <1>2

\* The search picks the better way into every live state.
LEMMA SearchIsChosen ==
    ASSUME Arrays, phase \in {"inner", "tail"}, i < sets,
           NEW every \in Nat \ {0}, NEW tie
    PROVE  Chosen(SearchBits(DirectDistances, tie),
                  SearchErrors(DirectDistances, every, tie), every)
<1> DEFINE far == DirectDistances
           m == errors[read]
           low == LowErrors(far)
           high == HighErrors(far)
           e == SearchErrors(far, every, tie)
           d == SearchBits(far, tie)
<1>2. /\ block \in Inputs /\ i \in Nat /\ i + 1 <= Len(block.symbols)
      /\ m \in [States -> 0 .. DistanceMax] /\ errors[write] \in [States -> 0 .. DistanceMax]
  BY RoundFacts
<1>3. \A r \in Registers : far[r] \in Nat
  BY <1>2, RoundMeasures
<1>4. \A s \in States :
          /\ low[s] = WaySum(far, m, s, 0) /\ high[s] = WaySum(far, m, s, 1)
          /\ WaySum(far, m, s, 0) \in 0 .. DistanceMax
          /\ WaySum(far, m, s, 1) \in 0 .. DistanceMax
  BY <1>2, <1>3, WayErrors
<1> DEFINE b(s) == Better(low, high, s, tie)
<1>5. ASSUME NEW s \in States
      PROVE  /\ b(s).bit \in {0, 1}
             /\ b(s).error \in 0 .. DistanceMax
             /\ b(s).error = WaySum(far, m, s, b(s).bit)
             /\ \A t \in {0, 1} : b(s).error <= WaySum(far, m, s, t)
  <2> DEFINE x == WaySum(far, m, s, 0)
             y == WaySum(far, m, s, 1)
  <2>1. low[s] = x /\ high[s] = y /\ x \in 0 .. DistanceMax /\ y \in 0 .. DistanceMax
    BY <1>4
  <2>2. b(s) = IF low[s] < high[s] \/ (low[s] = high[s] /\ tie = 0)
               THEN [bit |-> 0, error |-> low[s]]
               ELSE [bit |-> 1, error |-> high[s]]
    BY DEF Better
  <2> HIDE DEF low, high, b
  <2>3. \/ b(s).bit = 0 /\ b(s).error = x /\ x <= y
        \/ b(s).bit = 1 /\ b(s).error = y /\ y <= x
    <3> HIDE DEF x, y
    <3> QED BY <2>1, <2>2, TrellisFacts
  <2> DEFINE bb == b(s).bit
             be == b(s).error
  <2>4. bb \in {0, 1} /\ be = WaySum(far, m, s, bb) /\ be \in 0 .. DistanceMax
    <3> HIDE DEF far, m
    <3> QED BY <2>1, <2>3
  <2>5. be <= x /\ be <= y
    <3> HIDE DEF x, y
    <3> QED BY <2>1, <2>3, TrellisFacts
  <2>6. \A t \in {0, 1} : be <= WaySum(far, m, s, t)
    BY <2>5
  <2> QED BY <2>4, <2>6
<1>6. /\ d = [s \in States |-> b(s).bit]
      /\ e = [s \in States |-> IF s % every = 0 THEN b(s).error ELSE errors[write][s]]
  BY DEF SearchBits, SearchErrors
<1> HIDE DEF b, d, e
<1>7. d \in [States -> {0, 1}]
  BY <1>5, <1>6
<1>8. e \in [States -> 0 .. DistanceMax]
  BY <1>2, <1>5, <1>6
<1>9. ASSUME NEW s \in LiveAt(every)
      PROVE  /\ e[s] = WaySum(far, m, s, d[s])
             /\ \A t \in {0, 1} : e[s] <= WaySum(far, m, s, t)
  <2>1. s \in States /\ s % every = 0
    BY DEF LiveAt
  <2>2. e[s] = b(s).error /\ d[s] = b(s).bit
    BY <1>6, <2>1
  <2> HIDE DEF e, d, far, m
  <2> QED BY <1>5, <2>1, <2>2
<1>10. Survives(far, m, every, d, e)
  <2> HIDE DEF e, d, far, m
  <2> QED BY <1>9 DEF Survives
<1>11. Chosen(d, e, every)
  BY <1>7, <1>8, <1>10 DEF Chosen
<1> QED BY <1>11 DEF d, e

\* The decisions and sums that the search hands over choose the better branch.
LEMMA SearchChooses ==
    ASSUME Arrays, phase \in {"inner", "tail"}, i < sets,
           NEW every \in Nat \ {0}, NEW tie, Search(DirectDistances, every, tie)
    PROVE  /\ \E d, e : Chosen(d, e, every) /\ Ring!ProcessSkip(d, e, every)
           /\ skip' = every /\ Errors!Round(distances')
<1> DEFINE d == SearchBits(DirectDistances, tie)
           e == SearchErrors(DirectDistances, every, tie)
<1>1. Chosen(d, e, every)
  BY SearchIsChosen
<1>2. Ring!ProcessSkip(d, e, every) /\ skip' = every /\ Errors!Round(distances')
  BY SearchHands
<1> HIDE DEF d, e
<1> QED BY <1>1, <1>2

\* What the ring makes of them.
Recorded(d, e, every, c, c2) ==
    /\ distances' \in [States -> 0 .. DistanceMax]
    /\ \E slice \in [States -> {0, 1}] :
           slices' = Append(slices, slice) /\ \A s \in LiveAt(every) : slice[s] = d[s]
    /\ Lowers(e, every, distances', c, c2)

\* What the ring does with a round: it keeps the decisions and may lower the
\* metrics, all by the same.
LEMMA RingRecords ==
    ASSUME history \in [Buf!Slots -> [States -> {0, 1}]], ringIndex \in Buf!Slots,
           renormalizeCounter \in 0 .. RenormalizeInterval - 1,
           NEW d \in [States -> {0, 1}], NEW e \in [States -> 0 .. DistanceMax],
           NEW every \in Nat \ {0}, Buf!ProcessSkip(d, e, every)
    PROVE  /\ history' \in [Buf!Slots -> [States -> {0, 1}]] /\ ringIndex' \in Buf!Slots
           /\ renormalizeCounter' \in 0 .. RenormalizeInterval - 1
           /\ Recorded(d, e, every, renormalizeCounter, renormalizeCounter')
<1>1. Buf!States = States /\ Buf!Live(every) = LiveAt(every)
  BY DEF Buf!States, Buf!Stream!States, States, Buf!Live, LiveAt
<1>3. /\ history \in [Buf!Slots -> [Buf!States -> {0, 1}]]
      /\ d \in [Buf!States -> {0, 1}] /\ e \in [Buf!States -> 0 .. DistanceMax]
  BY <1>1
<1>2. /\ history' \in [Buf!Slots -> [Buf!States -> {0, 1}]] /\ ringIndex' \in Buf!Slots
      /\ renormalizeCounter' \in 0 .. RenormalizeInterval - 1
      /\ Buf!RoundRecorded(d, e, every)
  BY <1>3, RingAssumptions, Buf!RoundMetrics
<1> QED BY <1>1, <1>2 DEF Recorded, Lowers, Buf!RoundRecorded

\* A round whose record is swapped in keeps the arrays and the metrics.
LEMMA RoundKeeps ==
    ASSUME TapsNewest, RangeIsEnough, Arrays, phase \in {"inner", "tail"}, i < sets,
           NEW c, Counted(c), NEW every, ComesFrom(every, skip), skip' = every,
           NEW d, NEW e, Chosen(d, e, every),
           NEW c2, c2 \in 0 .. RenormalizeInterval - 1, Recorded(d, e, every, c, c2),
           Errors!Round(distances'),
           i' = i + 1, UNCHANGED <<phase, sets, block>>
    PROVE  /\ errors' \in [{0, 1} -> [States -> 0 .. DistanceMax]]
           /\ slices' \in Seq([States -> {0, 1}])
           /\ Tracks(phase', block', i', c2, skip', errors'[read'], slices')
<1>1. /\ block \in Inputs /\ sets = Len(block.symbols) /\ i \in Nat /\ T <= i
      /\ Len(consumed) = i /\ T \in Nat /\ T >= 3 /\ sets \in Nat /\ sets >= 2 * T
      /\ write = index /\ write \in {0, 1}
      /\ errors[read] \in [States -> 0 .. DistanceMax]
      /\ slices \in Seq([States -> {0, 1}])
      /\ errors \in [{0, 1} -> [States -> 0 .. DistanceMax]]
  <2>1. T \in Nat /\ T >= 3
    BY TrellisFacts
  <2>2. /\ block \in Inputs /\ sets = Len(block.symbols) /\ i \in Nat /\ sets \in Nat
        /\ sets >= 2 * T
        /\ phase = "inner" => T <= i /\ Len(consumed) = i
        /\ phase = "tail" => sets - T <= i /\ Len(consumed) = i
        /\ Len(consumed) >= 1 => write = index
        /\ write \in {0, 1} /\ errors[read] \in [States -> 0 .. DistanceMax]
    BY RoundFacts
  <2>3. T <= i /\ Len(consumed) = i
    BY <2>1, <2>2
  <2>4. write = index
    BY <2>1, <2>2, <2>3
  <2>5. /\ slices \in Seq([States -> {0, 1}])
        /\ errors \in [{0, 1} -> [States -> 0 .. DistanceMax]]
    BY DEF Arrays
  <2> QED BY <2>1, <2>2, <2>3, <2>4, <2>5
<1>2. /\ errors' = [errors EXCEPT ![write] = distances'] /\ read' = index
  BY DEF Errors!Round, Errors!Swap
<1>3. distances' \in [States -> 0 .. DistanceMax]
  BY DEF Recorded
<1>4. errors'[read'] = distances' /\ errors' \in [{0, 1} -> [States -> 0 .. DistanceMax]]
  BY <1>1, <1>2, <1>3
<1>5. PICK slice \in [States -> {0, 1}] :
          slices' = Append(slices, slice) /\ \A s \in LiveAt(every) : slice[s] = d[s]
  BY DEF Recorded
<1>6. slices' \in Seq([States -> {0, 1}])
  BY <1>1, <1>5
<1>7. Survives(DirectDistances, errors[read], every, slice, e)
  <2>1. Survives(DirectDistances, errors[read], every, d, e)
    BY DEF Chosen
  <2> QED BY <2>1, <1>5 DEF Survives
<1>8. c \in Nat /\ Fits(c, DistanceMax)
  <2>1. c \in Nat /\ RenormalizeInterval - 1 \in Nat /\ c <= RenormalizeInterval - 1
        /\ DistanceMax \in Nat
    BY RingAssumption, TrellisFacts DEF Counted
  <2>2. Fits(RenormalizeInterval - 1, DistanceMax)
    BY DEF RangeIsEnough
  <2>3. DistanceMax <= DistanceMax
    BY <2>1
  <2> QED BY <2>1, <2>2, <2>3, FitsBelow
<1>9. Tracks(phase, block, i, c, skip, errors[read], slices)
  BY DEF Counted
<1>10. Measures(DirectDistances, block, i) /\ i + 1 <= Len(block.symbols)
  <2>1. i + 1 <= Len(block.symbols) /\ i >= 1
    BY <1>1
  <2> QED BY <2>1, <1>1, RoundMeasures
<1>11. Lowers(e, every, distances', c, c2)
  BY DEF Recorded
<1>12. e \in [States -> 0 .. DistanceMax]
  BY DEF Chosen
<1> DEFINE far == DirectDistances
           l == distances'
<1>13. Tracks(phase, block, i + 1, c2, every, l, Append(slices, slice))
  <2>1. Measures(far, block, i) /\ Survives(far, errors[read], every, slice, e)
        /\ Lowers(e, every, l, c, c2)
    BY <1>7, <1>10, <1>11
  <2> HIDE DEF far, l
  <2> QED BY <1>1, <1>8, <1>9, <1>10, <1>12, <2>1, TracksRound
<1> HIDE DEF far
<1> QED BY <1>4, <1>5, <1>6, <1>13

\* The states a round writes come from states the round before it wrote: all in
\* the inner loop, twice as far apart with each round of the tail.
LEMMA HalvedLive ==
    ASSUME NEW e \in Nat \ {0}, NEW h \in Nat, Highbit = (2 * e) * h
    PROVE  ComesFrom(2 * e, e)
<1> SUFFICES ASSUME NEW s \in LiveAt(2 * e), NEW t \in {0, 1}
             PROVE  (s + t * Highbit) \div 2 \in LiveAt(e)
  BY DEF ComesFrom
<1>1. Buf!States = States /\ Buf!Live(e) = LiveAt(e) /\ Buf!Live(2 * e) = LiveAt(2 * e)
  BY DEF Buf!States, Buf!Stream!States, States, Buf!Live, LiveAt
<1> DEFINE d == [x \in States |-> t]
<1>2. Buf!Stream!Predecessor(d, s) = (s + t * Highbit) \div 2
  <2>1. s \in States
    BY DEF LiveAt
  <2>2. d[s] = t
    BY <2>1
  <2> QED BY <2>2 DEF Buf!Stream!Predecessor, Buf!Stream!PathBit
<1> HIDE DEF d
<1>3. Buf!Stream!Predecessor(d, s) \in Buf!Live(e)
  <2>1. s \in Buf!Live(2 * e)
    BY <1>1
  <2> QED BY <2>1, RingAssumptions, Buf!PredecessorIsLive
<1> QED BY <1>1, <1>2, <1>3

\* The states a round works on come from states the round before worked on.
LEMMA RoundSkips ==
    ASSUME Arrays, phase \in {"inner", "tail"}, i < sets
    PROVE  /\ phase = "inner" => ComesFrom(1, skip)
           /\ phase = "tail" => TailSkip \in Nat \ {0} /\ ComesFrom(TailSkip, skip)
<1>0. /\ sets \in Nat /\ i \in Nat /\ order \in Nat /\ order - 1 = T /\ T \in Nat
      /\ phase = "tail" => sets - T <= i
      /\ Highbit = 2^T /\ SkipFollowsLoop
  BY RoundFacts, TrellisFacts DEF Arrays
<1>1. ASSUME phase = "inner" PROVE ComesFrom(1, skip)
  <2>1. skip = 1
    BY <1>0, <1>1 DEF SkipFollowsLoop
  <2>2. ASSUME NEW s \in States, NEW t \in {0, 1}
        PROVE  (s + t * Highbit) \div 2 \in LiveAt(1)
    <3>1. (s + t * Highbit) \div 2 \in States
      BY RegisterParts
    <3> DEFINE p == (s + t * Highbit) \div 2
    <3>2. p \in Nat
      BY <3>1 DEF States
    <3> HIDE DEF p
    <3>3. p % 1 = 0
      BY <3>2
    <3> QED BY <3>1, <3>3 DEF p, LiveAt
  <2>3. \A s \in LiveAt(1) : s \in States
    BY DEF LiveAt
  <2> QED BY <2>1, <2>2, <2>3 DEF ComesFrom
<1>2. ASSUME phase = "tail" PROVE TailSkip \in Nat \ {0} /\ ComesFrom(TailSkip, skip)
  <2> DEFINE a == i - (sets - T)
             e == 2^a
             h == 2^(T - (a + 1))
  <2>1. /\ a \in Nat /\ a + 1 \in 0 .. T /\ i - (sets - order + 1) = a
        /\ order - (sets - i) = a + 1
    BY <1>0, <1>2
  <2>2. skip = e /\ TailSkip = 2^(a + 1)
    BY <1>0, <1>2, <2>1 DEF SkipFollowsLoop, TailSkip
  <2>3. e \in Nat \ {0} /\ 2^(a + 1) = 2 * e
    <3> HIDE DEF a
    <3> QED BY <2>1, PowerStep
  <2>4. h \in Nat /\ 2^(a + 1) * h = Highbit
    <3>1. a + 1 \in 0 .. T /\ T - (a + 1) \in Nat
      BY <1>0, <2>1
    <3> HIDE DEF a
    <3> QED BY <1>0, <3>1, PowerStep, PowerSplit
  <2> HIDE DEF e, h, a
  <2>5. ComesFrom(2 * e, e)
    BY <2>3, <2>4, HalvedLive
  <2> QED BY <2>2, <2>3, <2>5
<1> QED BY <1>1, <1>2

-----------------------------------------------------------------------------
(* The steps of the plain decoder.                                         *)

PlainInv == Arrays /\ Buf!RingInv /\ Counted(renormalizeCounter)

\* The part of the invariant that the earlier proofs do not keep.
Measured ==
    /\ errors \in [{0, 1} -> [States -> 0 .. DistanceMax]]
    /\ phase # "idle" => block \in Inputs /\ sets = Len(block.symbols)
    /\ phase = "warmup" /\ i = 0 => \A s \in States : errors[read][s] = 0
    /\ Counted(renormalizeCounter)

\* The parts PlainInv is proved in.
LEMMA PlainInvParts ==
    PlainInv <=> LoopsInv /\ Buffered /\ SkipFollowsLoop /\ Buf!RingInv /\ Measured
<1>1. Buf!States = States
  BY DEF Buf!States, Buf!Stream!States, States
<1>2. Buf!RingInv => slices \in Seq([States -> {0, 1}])
  BY <1>1 DEF Buf!RingInv
<1> QED BY <1>2 DEF PlainInv, Arrays, Measured

\* The metrics a block starts with.
LEMMA ZeroType == /\ Zero \in [States -> 0 .. DistanceMax]
                  /\ \A s \in States : Zero[s] = 0
  BY TrellisFacts DEF Zero

\* The arrays of a new or reset buffer.
LEMMA MeasuredInit ==
    ASSUME Init
    PROVE  Measured
<1>1. errors = [b \in {0, 1} |-> Zero] /\ phase = "idle" /\ renormalizeCounter = 0
  BY DEF Init, Errors!Init, Schedule!Init, Ring!Init
<1> HIDE DEF Zero
<1>2. 0 \in 0 .. RenormalizeInterval - 1
  BY RingAssumption
<1> QED BY <1>1, <1>2, ZeroType DEF Measured, Counted

\* A block starts with metrics of 0 and no slices.
LEMMA MeasuredStart ==
    ASSUME NEW b \in Pending, Start(b), NEW c
    PROVE  /\ errors' \in [{0, 1} -> [States -> 0 .. DistanceMax]]
           /\ phase' = "warmup" /\ i' = 0
           /\ block' \in Inputs /\ sets' = Len(block'.symbols)
           /\ \A s \in States : errors'[read'][s] = 0
           /\ Tracks(phase', block', i', c, skip', errors'[read'], slices')
<1>1. b \in Inputs
  BY MaxDecodesAssumption DEF Pending
<1>2. /\ errors' = [x \in {0, 1} |-> Zero] /\ read' = 0 /\ block' = b
      /\ sets' = Len(b.symbols) /\ phase' = "warmup" /\ i' = 0
      /\ slices' = <<>> /\ skip' = 1
  BY DEF Start, Errors!Reset, Errors!Cleared, Schedule!Start, Ring!Reset
<1> HIDE DEF Zero
<1>3. /\ errors' \in [{0, 1} -> [States -> 0 .. DistanceMax]]
      /\ errors'[read'] = Zero
  BY <1>2, ZeroType
<1>4. ASSUME NEW s \in States, s < 2^0 PROVE IsLeast(b, 0, s, Zero[s], <<>>)
  <2>1. s = 0
    BY <1>4, PowerZero DEF States
  <2>2. Zero[s] = 0
    BY ZeroType
  <2> QED BY <2>1, <2>2, LeastAtStart
<1>5. Tracks("warmup", b, 0, c, 1, Zero, <<>>)
  BY <1>4 DEF Tracks
<1> QED BY <1>1, <1>2, <1>3, <1>5, ZeroType

\* A round of the warm-up keeps the metrics least distances.
LEMMA MeasuredWarmup ==
    ASSUME RangeIsEnough, Arrays, WarmupRound, NEW c,
           Tracks(phase, block, i, c, skip, errors[read], slices)
    PROVE  /\ errors' \in [{0, 1} -> [States -> 0 .. DistanceMax]]
           /\ phase' = phase /\ i' = i + 1 /\ UNCHANGED <<block, sets, ringVars>>
           /\ Tracks(phase', block', i', c, skip', errors'[read'], slices')
<1> DEFINE far == DirectDistances
           m == errors[read]
           e == WarmupMetrics
<1>1. /\ phase = "warmup" /\ i < order - 1 /\ i < sets /\ i' = i + 1
      /\ UNCHANGED <<order, sets, phase>> /\ UNCHANGED <<ringVars, block, decodes>>
      /\ errors' = [errors EXCEPT ![write] = e] /\ read' = index
  BY DEF WarmupRound, Schedule!WarmupRound, Schedule!Read, Errors!Round, Errors!Swap
<1>2. /\ block \in Inputs /\ sets = Len(block.symbols) /\ sets \in Nat
      /\ i \in Nat /\ order - 1 = T /\ Len(consumed) = i
      /\ read \in {0, 1} /\ write \in {0, 1} /\ index \in {0, 1}
      /\ i = 0 => index = 0 /\ read = 0 /\ write = 1
      /\ i >= 1 => write = index /\ read # write
      /\ m \in [States -> 0 .. DistanceMax] /\ errors[write] \in [States -> 0 .. DistanceMax]
      /\ errors \in [{0, 1} -> [States -> 0 .. DistanceMax]]
      /\ i = 0 => \A s \in States : m[s] = 0
  BY <1>1, RoundFacts DEF Arrays
<1>3. i + 1 <= Len(block.symbols)
  BY <1>1, <1>2
<1>4. i >= 1 => Measures(far, block, i)
  BY <1>2, <1>3, RoundMeasures
<1>5. \A r \in Registers : far[r] \in Nat
  BY <1>2, <1>3, RoundMeasures
<1>6. /\ e \in [States -> 0 .. DistanceMax]
      /\ \A s \in States : s < Warm => e[s] = Sum(far[s], m[s \div 2])
  <2>1. e = [s \in States |-> IF s < Warm THEN PathError(far, LowRegister(s)) ELSE errors[write][s]]
    BY DEF WarmupMetrics
  <2>2. ASSUME NEW s \in States
        PROVE  /\ PathError(far, LowRegister(s)) = Sum(far[s], m[s \div 2])
               /\ PathError(far, LowRegister(s)) \in 0 .. DistanceMax
    <3> DEFINE w == WaySum(far, m, s, 0)
    <3>3. LowErrors(far)[s] = w /\ w \in 0 .. DistanceMax
      <4>1. errors[read] \in [States -> 0 .. DistanceMax]
        BY <1>2
      <4> HIDE DEF far
      <4> QED BY <4>1, <1>5, WayErrors
    <3>1. LowErrors(far)[s] \in 0 .. DistanceMax
      BY <3>3
    <3>2. LowErrors(far)[s] = PathError(far, LowRegister(s))
      BY DEF LowErrors
    <3> QED BY <3>1, <3>2 DEF PathError, LowRegister
  <2> HIDE DEF e, far, m
  <2> QED BY <1>2, <2>1, <2>2
<1>7. phase' = phase /\ UNCHANGED <<block, skip, slices>>
  BY <1>1 DEF ringVars
<1> HIDE DEF e, far
<1>8. errors' \in [{0, 1} -> [States -> 0 .. DistanceMax]]
  BY <1>1, <1>2, <1>6
<1> DEFINE l == errors'[read']
<1>9. /\ i = 0 => l = m
      /\ i >= 1 => l = e
  BY <1>1, <1>2
<1> HIDE DEF l
<1>10. \A s \in States : s < 2^(i + 1) =>
           l[s] = IF i = 0 THEN m[s] ELSE Sum(far[s], m[s \div 2])
  BY <1>2, <1>6, <1>9 DEF Warm
<1>11. T * Worst <= DistanceMax
  <2>1. RenormalizeInterval - 1 \in Nat /\ DistanceMax \in Nat /\ DistanceMax <= DistanceMax
        /\ RenormalizeInterval - 1 <= RenormalizeInterval - 1
    BY RingAssumption, TrellisFacts
  <2>2. Fits(RenormalizeInterval - 1, DistanceMax)
    BY DEF RangeIsEnough
  <2> QED BY <2>1, <2>2, FitsBelow
<1>12. slices = <<>> /\ Tracks("warmup", block, i, c, skip, m, <<>>)
  BY <1>1 DEF Tracks
<1>13. i < T
  BY <1>1, <1>2
<1> HIDE DEF m
<1>14. i = 0 => \A s \in States : m[s] = 0
  BY <1>2 DEF m
<1>15. m \in [States -> 0 .. DistanceMax]
  BY <1>2 DEF m
<1>16. Tracks("warmup", block, i + 1, c, skip, l, <<>>)
  <2>1. MeasuresRest(far, block, i) /\ Fills(l, far, m, i) /\ Fresh(m, i)
    BY <1>4, <1>10, <1>14 DEF MeasuresRest, Fills, Fresh
  <2>2. block \in Inputs /\ i \in Nat
    BY <1>2
  <2> QED BY <2>1, <2>2, <1>3, <1>11, <1>12, <1>13, <1>15, TracksWarm
<1> QED BY <1>1, <1>7, <1>8, <1>12, <1>16 DEF l

\* Where one loop hands over to the next.
LEMMA MeasuredLoopEnd ==
    ASSUME Arrays, Schedule!WarmupEnd \/ Schedule!EndInner, NEW c \in Nat,
           UNCHANGED <<errors, read, skip, slices, block>>,
           Tracks(phase, block, i, c, skip, errors[read], slices)
    PROVE  /\ phase' \in {"inner", "tail"}
           /\ Tracks(phase', block', i', c, skip', errors'[read'], slices')
<1>1. /\ \/ phase = "warmup" /\ phase' = "inner" /\ i' = order - 1
            /\ ~(i < order - 1 /\ i < sets)
         \/ /\ phase = "inner" /\ phase' = "tail" /\ i' = sets - order + 1
            /\ ~(i < Schedule!InnerEnd)
  BY DEF Schedule!WarmupEnd, Schedule!EndInner, Schedule!TailStart
<1>2. /\ block \in Inputs /\ sets \in Nat /\ sets >= 2 * T /\ i \in Nat
      /\ order = Order /\ order - 1 = T /\ Schedule!InnerEnd = sets - T
      /\ phase = "warmup" => i <= T
      /\ phase = "inner" => T <= i /\ i <= sets - T
      /\ errors[read] \in [States -> 0 .. DistanceMax]
  BY <1>1, RoundFacts
<1>3. T \in Nat /\ Order = T + 1
  BY TrellisFacts
<1>4. i' = i /\ (phase = "warmup" => i = T)
  BY <1>1, <1>2, <1>3
<1>5. CASE phase = "warmup"
  <2>1. skip = 1
    BY <1>5 DEF Arrays, SkipFollowsLoop
  <2>2. Tracks("warmup", block, T, c, skip, errors[read], slices)
    BY <1>4, <1>5
  <2>3. Tracks("inner", block, T, c, 1, errors[read], slices)
    BY <1>2, <2>2, TracksFull
  <2> QED BY <1>1, <1>4, <1>5, <2>1, <2>3
<1>6. CASE phase = "inner"
  <2>1. phase' = "tail"
    BY <1>1, <1>6
  <2>2. Tracks("inner", block, i, c, skip, errors[read], slices)
    BY <1>6
  <2>3. Tracks("tail", block, i, c, skip, errors[read], slices)
    BY <2>2 DEF Tracks
  <2> QED BY <1>4, <2>1, <2>3
<1> QED BY <1>1, <1>5, <1>6

\* What a round of the inner loop or of the tail does to the loops.
LEMMA LoopRound ==
    ASSUME InnerRound \/ TailRound, Arrays
    PROVE  /\ phase \in {"inner", "tail"} /\ i < sets /\ i' = i + 1
           /\ UNCHANGED <<phase, sets, block>>
           /\ phase = "inner" => Search(PairDistances, 1, 0)
           /\ phase = "tail" => Search(DirectDistances, TailSkip, 1)
<1>1. CASE InnerRound
  <2>1. /\ phase = "inner" /\ i < Schedule!InnerEnd /\ i' = i + 1
        /\ UNCHANGED <<order, sets, phase>> /\ UNCHANGED <<block, decodes>>
        /\ Search(PairDistances, 1, 0)
    BY <1>1 DEF InnerRound, Schedule!InnerRound, Schedule!Read
  <2>2. sets \in Nat /\ i \in Nat /\ Schedule!InnerEnd = sets - T
    BY <2>1, RoundFacts
  <2>3. i < sets
    BY <2>1, <2>2, TrellisFacts
  <2> QED BY <2>1, <2>3
<1>2. CASE TailRound
  BY <1>2 DEF TailRound, Schedule!TailRound, Schedule!Read
<1> QED BY <1>1, <1>2

\* A round of the inner loop or of the tail keeps the metrics least distances.
LEMMA MeasuredRound ==
    ASSUME TapsNewest, RangeIsEnough, PlainInv, InnerRound \/ TailRound
    PROVE  Measured'
<1>1. /\ Arrays /\ Buf!RingInv /\ Counted(renormalizeCounter)
  BY DEF PlainInv
<1>2. /\ phase \in {"inner", "tail"} /\ i < sets /\ i' = i + 1
      /\ UNCHANGED <<phase, sets, block>>
      /\ phase = "inner" => Search(PairDistances, 1, 0)
      /\ phase = "tail" => Search(DirectDistances, TailSkip, 1)
  BY <1>1, LoopRound
<1>3. \E every \in Nat \ {0}, tie \in {0, 1} :
          ComesFrom(every, skip) /\ Search(DirectDistances, every, tie)
  <2>1. CASE phase = "inner"
    <3>1. ComesFrom(1, skip) /\ Search(PairDistances, 1, 0)
      BY <1>1, <1>2, <2>1, RoundSkips
    <3>2. Search(DirectDistances, 1, 0)
      BY <3>1, LookupsAgree
    <3> QED BY <3>1, <3>2
  <2>2. CASE phase = "tail"
    <3>1. /\ ComesFrom(TailSkip, skip) /\ TailSkip \in Nat \ {0}
          /\ Search(DirectDistances, TailSkip, 1)
      BY <1>1, <1>2, <2>2, RoundSkips
    <3> QED BY <3>1
  <2> QED BY <1>2, <2>1, <2>2
<1>4. PICK every \in Nat \ {0}, tie \in {0, 1} :
          ComesFrom(every, skip) /\ Search(DirectDistances, every, tie)
  BY <1>3
<1>5. skip' = every /\ Errors!Round(distances')
  BY <1>1, <1>2, <1>4, SearchChooses
<1>6. PICK d, e : Chosen(d, e, every) /\ Ring!ProcessSkip(d, e, every)
  BY <1>1, <1>2, <1>4, SearchChooses
<1>7. Buf!ProcessSkip(d, e, every)
  BY <1>6, BufferOfRing
<1>8. /\ history \in [Buf!Slots -> [States -> {0, 1}]] /\ ringIndex \in Buf!Slots
      /\ renormalizeCounter \in 0 .. RenormalizeInterval - 1
  BY <1>1 DEF Buf!RingInv, Buf!States, Buf!Stream!States, States, Counted
<1>9. d \in [States -> {0, 1}] /\ e \in [States -> 0 .. DistanceMax]
  BY <1>6 DEF Chosen
<1>10. /\ renormalizeCounter' \in 0 .. RenormalizeInterval - 1
       /\ Recorded(d, e, every, renormalizeCounter, renormalizeCounter')
  BY <1>7, <1>8, <1>9, RingRecords
<1> DEFINE c == renormalizeCounter
           c2 == renormalizeCounter'
<1>11. Counted(c) /\ c2 \in 0 .. RenormalizeInterval - 1 /\ Recorded(d, e, every, c, c2)
  BY <1>1, <1>10
<1>12. Chosen(d, e, every) /\ ComesFrom(every, skip)
  BY <1>4, <1>6
<1>13. /\ errors' \in [{0, 1} -> [States -> 0 .. DistanceMax]]
       /\ Tracks(phase', block', i', c2, skip', errors'[read'], slices')
  BY <1>1, <1>2, <1>5, <1>11, <1>12, RoundKeeps
<1>14. phase' # "warmup" /\ block' = block /\ sets' = sets /\ phase' = phase
  BY <1>2
<1>15. phase # "idle" => block \in Inputs /\ sets = Len(block.symbols)
  BY <1>1 DEF Arrays
<1> QED BY <1>10, <1>13, <1>14, <1>15 DEF Measured, Counted

\* A new codec has the invariant.
LEMMA PlainInvInit ==
    ASSUME Init
    PROVE  PlainInv
<1>1. RingOfDecoder /\ Buffered /\ Measured
  BY RingOfDecoderInit, BufferedInit, MeasuredInit
<1> QED BY <1>1, PlainInvParts DEF RingOfDecoder

\* Every step of the decoder keeps the metrics least distances.
LEMMA MeasuredStep ==
    ASSUME TapsNewest, RangeIsEnough, PlainInv, [Next]_vars
    PROVE  Measured'
<1>1. Arrays /\ Counted(renormalizeCounter) /\ Measured
  BY PlainInvParts DEF PlainInv
<1>2. renormalizeCounter \in 0 .. RenormalizeInterval - 1 /\ renormalizeCounter \in Nat
  BY <1>1, RingAssumption DEF Counted
<1> DEFINE c == renormalizeCounter
<1>3. phase # "idle" => Tracks(phase, block, i, c, skip, errors[read], slices)
  BY <1>1 DEF Counted
<1>4. ASSUME NEW b \in Pending, Start(b) PROVE Measured'
  <2>1. renormalizeCounter' = renormalizeCounter
    BY <1>4 DEF Start, Ring!Reset
  <2>2. /\ errors' \in [{0, 1} -> [States -> 0 .. DistanceMax]]
        /\ phase' = "warmup" /\ i' = 0
        /\ block' \in Inputs /\ sets' = Len(block'.symbols)
        /\ \A s \in States : errors'[read'][s] = 0
        /\ Tracks(phase', block', i', c, skip', errors'[read'], slices')
    BY <1>4, MeasuredStart
  <2> QED BY <1>2, <2>1, <2>2 DEF Measured, Counted
<1>5. CASE WarmupRound
  <2>1. phase = "warmup" /\ phase # "idle"
    BY <1>5 DEF WarmupRound, Schedule!WarmupRound
  <2>2. Tracks(phase, block, i, c, skip, errors[read], slices)
    BY <1>3, <2>1
  <2>3. /\ errors' \in [{0, 1} -> [States -> 0 .. DistanceMax]]
        /\ phase' = phase /\ i' = i + 1 /\ UNCHANGED <<block, sets, ringVars>>
        /\ Tracks(phase', block', i', c, skip', errors'[read'], slices')
    BY <1>1, <1>5, <2>2, MeasuredWarmup
  <2>4. renormalizeCounter' = renormalizeCounter
    BY <2>3 DEF ringVars
  <2>5. i' # 0
    BY <1>1, <2>1, <2>3, RoundFacts
  <2> QED BY <1>1, <1>2, <2>1, <2>3, <2>4, <2>5 DEF Measured, Counted
<1>6. CASE LoopEnd
  <2>1. /\ Schedule!WarmupEnd \/ Schedule!EndInner
        /\ UNCHANGED <<errors, read, skip, slices, block>>
        /\ renormalizeCounter' = renormalizeCounter
    BY <1>6 DEF LoopEnd, errorVars, ringVars
  <2>2. phase # "idle" /\ sets' = sets
    BY <2>1 DEF Schedule!WarmupEnd, Schedule!EndInner
  <2>3. Tracks(phase, block, i, c, skip, errors[read], slices)
    BY <1>3, <2>2
  <2>4. /\ phase' \in {"inner", "tail"}
        /\ Tracks(phase', block', i', c, skip', errors'[read'], slices')
    BY <1>1, <1>2, <2>1, <2>3, MeasuredLoopEnd
  <2> QED BY <1>1, <1>2, <2>1, <2>2, <2>4 DEF Measured, Counted
<1>7. CASE InnerRound \/ TailRound
  BY <1>7, MeasuredRound
<1>8. CASE Finish
  <2>1. /\ phase' = "done" /\ phase = "tail" /\ UNCHANGED <<errors, block, sets, renormalizeCounter>>
    BY <1>8 DEF Finish, Schedule!Finish, Ring!Flush, errorVars
  <2>2. Tracks("done", block', i', c, skip', errors'[read'], slices')
    BY DEF Tracks
  <2> QED BY <1>1, <1>2, <2>1, <2>2 DEF Measured, Counted
<1>9. CASE Done \/ UNCHANGED vars
  <2>1. UNCHANGED <<errors, read, phase, i, sets, block, skip, slices, renormalizeCounter>>
    BY <1>9 DEF Done, vars, scheduleVars, errorVars, ringVars
  <2> QED BY <1>1, <2>1 DEF Measured, Counted
<1> QED BY <1>4, <1>5, <1>6, <1>7, <1>8, <1>9 DEF Next, Step

\* Every step of the decoder keeps the invariant.
LEMMA PlainInvStep ==
    ASSUME TapsNewest, RangeIsEnough, PlainInv, [Next]_vars
    PROVE  PlainInv'
<1>1. RingOfDecoder /\ Buffered
  BY PlainInvParts DEF RingOfDecoder
<1>2. RingOfDecoder' /\ Buffered' /\ Measured'
  BY <1>1, RingOfDecoderStep, BufferedStep, MeasuredStep
<1>3. slices' \in Seq([States -> {0, 1}])
  BY <1>2 DEF RingOfDecoder, Buf!RingInv, Buf!States, Buf!Stream!States, States
<1> QED BY <1>2, <1>3 DEF RingOfDecoder, PlainInv, Arrays, Measured

-----------------------------------------------------------------------------
(* The reference definitions of ViterbiDecoder.                            *)

\* A path that ends is the start of an endless one.
LEMMA EndlessPath ==
    ASSUME NEW n \in Nat, NEW u \in AllPaths(n)
    PROVE  \E v \in InputBits : Agree(u, v, n)
<1> DEFINE v == [k \in Nat \ {0} |-> IF k <= n THEN u[k] ELSE 0]
<1>1. v \in InputBits
  <2> SUFFICES ASSUME NEW k \in Nat \ {0} PROVE (IF k <= n THEN u[k] ELSE 0) \in {0, 1}
    BY DEF InputBits
  <2>1. CASE k <= n
    <3>1. k \in 1 .. n
      BY <2>1
    <3> QED BY <3>1 DEF AllPaths
  <2> QED BY <2>1
<1>2. Agree(u, v, n)
  BY DEF Agree
<1> HIDE DEF v
<1> QED BY <1>1, <1>2

\* A finite path is a prefix of an endless one.
LEMMA FinitePath ==
    ASSUME NEW n \in Nat, NEW v \in InputBits
    PROVE  \E u \in AllPaths(n) : Agree(u, v, n)
<1> DEFINE u == [k \in 1 .. n |-> v[k]]
<1>1. u \in AllPaths(n)
  BY DEF AllPaths, InputBits
<1>2. Agree(u, v, n)
  BY DEF Agree
<1> HIDE DEF u
<1> QED BY <1>1, <1>2

\* The encoder's register is the one that bits are shifted into.
LEMMA RegisterIsShifted ==
    ASSUME NEW u, NEW k
    PROVE  RegisterAt(u, k) = PathRegister(u, k)
  BY DEF RegisterAt, PathRegister, ShiftRegister, Total, SumTo

\* The reference's distances and end states are those of the endless path.
LEMMA ReferencePath ==
    ASSUME NEW n \in 1 .. PathBound, NEW u \in AllPaths(n), NEW v \in InputBits, Agree(u, v, n)
    PROVE  /\ EndState(u) = PathState(v, n)
           /\ PathDistances(n, 2)[u] = PathCost(block, v, n)
<1>0. n \in Nat
  BY PathBoundAssumption
<1>1. Len(u) = n /\ DOMAIN u = 1 .. n
  BY <1>0 DEF AllPaths
<1>2. EndState(u) = PathState(v, n)
  <2>1. EndState(u) = PathState(u, n)
    BY <1>1, RegisterIsShifted DEF EndState, PathState
  <2>2. n \in 0 .. n
    BY <1>0
  <2> QED BY <1>0, <2>1, <2>2, AgreeRegister
<1> DEFINE far == [k \in 1 .. n |-> [y \in Outputs |->
                      IF k < 2 THEN 0 ELSE Distance(y, block.symbols[k], block.soft)]]
           f == [k \in 1 .. n |-> far[k][PathOuts[n][u][k]]]
           g == [k \in 1 .. n |-> SliceCost(block, k, Table[PathRegister(v, k)])]
<1>3. PathDistances(n, 2)[u] = Total(f)
  BY DEF PathDistances
<1>4. ASSUME NEW k \in 1 .. n PROVE f[k] = g[k]
  <2>1. PathOuts[n][u] = Outs(u)
    BY DEF PathOuts
  <2>2. Outs(u)[k] = Table[RegisterAt(u, k)]
    BY <1>1 DEF Outs
  <2>3. RegisterAt(u, k) = PathRegister(v, k)
    <3>1. k \in 0 .. n
      BY <1>0
    <3> QED BY <1>0, <3>1, RegisterIsShifted, AgreeRegister
  <2> DEFINE y == Table[PathRegister(v, k)]
  <2>4. y \in Outputs
    <3>1. k \in Nat
      BY <1>0
    <3> QED BY <3>1, PathStep, TableType
  <2>5. f[k] = far[k][y]
    <3> HIDE DEF far
    <3> QED BY <2>1, <2>2, <2>3
  <2> HIDE DEF y
  <2>6. far[k][y] = SliceCost(block, k, y)
    BY <2>4 DEF SliceCost
  <2> QED BY <2>5, <2>6 DEF y
<1>5. f = g
  <2> DEFINE ff(k) == far[k][PathOuts[n][u][k]]
             gg(k) == SliceCost(block, k, Table[PathRegister(v, k)])
  <2>1. \A k \in 1 .. n : ff(k) = gg(k)
    BY <1>4
  <2>2. f = [k \in 1 .. n |-> ff(k)] /\ g = [k \in 1 .. n |-> gg(k)]
    OBVIOUS
  <2> HIDE DEF f, g, ff, gg
  <2> QED BY <2>1, <2>2
<1> HIDE DEF f, g
<1>6. Total(g) = SumTo(g)
  BY DEF Total, SumTo
<1>7. SumTo(g) = PathCost(block, v, n)
  BY DEF PathCost, g
<1> QED BY <1>2, <1>3, <1>5, <1>6, <1>7

\* A least element is what Min chooses.
LEMMA MinIsLeast ==
    ASSUME NEW S \in SUBSET Int, NEW x \in S, \A y \in S : x <= y
    PROVE  Min(S) = x
<1>1. \E z \in S : \A y \in S : z <= y
  OBVIOUS
<1> DEFINE z == CHOOSE a \in S : \A y \in S : a <= y
<1>2. z \in S /\ \A y \in S : z <= y
  BY <1>1
<1>3. Min(S) = z
  BY DEF Min
<1> HIDE DEF z
<1>4. z <= x /\ x <= z /\ z \in Int /\ x \in Int
  BY <1>2
<1> QED BY <1>3, <1>4

\* The least of the reference's distances of the paths into a state.
LEMMA ReferenceLeast ==
    ASSUME block \in Inputs, NEW n \in 1 .. PathBound, n <= Len(block.symbols),
           NEW s \in States, NEW x, NEW all, IsLeast(block, n, s, x, all)
    PROVE  LET path == PathDistances(n, 2)
               ends == {<<EndState(u), path[u]>> : u \in AllPaths(n)}
           IN  Min({e[2] : e \in {f \in ends : f[1] = s}}) = x
<1> DEFINE path == PathDistances(n, 2)
           ends == {<<EndState(u), path[u]>> : u \in AllPaths(n)}
           S == {e[2] : e \in {f \in ends : f[1] = s}}
<1>0. n \in Nat /\ n \in 0 .. Len(block.symbols)
  BY PathBoundAssumption, LengthFacts
<1>1. ASSUME NEW y \in S
      PROVE  \E v \in InputBits : PathState(v, n) = s /\ PathCost(block, v, n) = y
  <2>1. PICK u \in AllPaths(n) : EndState(u) = s /\ path[u] = y
    <3> HIDE DEF path
    <3> QED OBVIOUS
  <2>2. PICK v \in InputBits : Agree(u, v, n)
    BY <1>0, EndlessPath
  <2>3. EndState(u) = PathState(v, n) /\ path[u] = PathCost(block, v, n)
    BY <2>2, ReferencePath
  <2> QED BY <2>1, <2>3
<1>2. ASSUME NEW v \in InputBits, PathState(v, n) = s PROVE PathCost(block, v, n) \in S
  <2>1. PICK u \in AllPaths(n) : Agree(u, v, n)
    BY <1>0, FinitePath
  <2>2. EndState(u) = s /\ path[u] = PathCost(block, v, n)
    BY <1>2, <2>1, ReferencePath
  <2> DEFINE e == <<EndState(u), path[u]>>
  <2>3. e \in ends /\ e[1] = s /\ e[2] = PathCost(block, v, n)
    <3> HIDE DEF path
    <3> QED BY <2>2
  <2> HIDE DEF e, ends
  <2> QED BY <2>3
<1> HIDE DEF S
<1>3. \A y \in S : y \in Int
  BY <1>0, <1>1, CostType
<1>4. x \in S /\ \A y \in S : x <= y
  BY <1>1, <1>2 DEF IsLeast
<1>5. Min(S) = x
  BY <1>3, <1>4, MinIsLeast
<1> QED BY <1>5 DEF S

\* The invariant says what the reference definition asks for, path by path.
LEMMA PlainInvIsLeast ==
    ASSUME PlainInv
    PROVE  MetricsAreLeastDistances
<1> SUFFICES ASSUME InLoop, i >= 2 PROVE LeastDistances(2)
  BY DEF MetricsAreLeastDistances
<1>1. /\ Arrays /\ phase \in {"warmup", "inner", "tail"} /\ i <= PathBound
      /\ Tracks(phase, block, i, renormalizeCounter, skip, errors[read], slices)
  BY DEF InLoop, PlainInv, Counted
<1>2. /\ block \in Inputs /\ i \in Nat /\ sets = Len(block.symbols) /\ sets \in Nat /\ sets >= 2 * T
      /\ phase = "warmup" => i <= T
      /\ phase = "inner" => i <= sets - T
      /\ phase = "tail" => i <= sets
      /\ errors[read] \in [States -> 0 .. DistanceMax]
  BY <1>1, RoundFacts
<1>3. T \in Nat /\ DistanceMax \in Nat /\ Highbit \in Nat \ {0}
  BY TrellisFacts
<1>4. i \in 1 .. PathBound /\ i <= Len(block.symbols)
  BY <1>1, <1>2, <1>3, PathBoundAssumption
<1> DEFINE path == PathDistances(i, 2)
           ends == {<<EndState(u), path[u]>> : u \in AllPaths(i)}
           least(s) == Min({e[2] : e \in {f \in ends : f[1] = s}})
           m == errors[read]
           D == {m[s] - least(s) : s \in LiveStates}
<1>5. \E base \in Nat : \A s \in LiveStates : s \in States /\ IsLeast(block, i, s, m[s] + base, slices)
  <2>1. CASE phase = "warmup"
    <3>1. slices = <<>> /\ \A s \in States : s < 2^i => IsLeast(block, i, s, m[s], slices)
      BY <1>1, <2>1 DEF Tracks
    <3>2. LiveStates = {s \in States : s < 2^i}
      BY <2>1 DEF LiveStates
    <3>3. \A s \in States : m[s] + 0 = m[s]
      BY <1>2, <1>3
    <3> HIDE DEF m
    <3>4. \A s \in LiveStates : s \in States /\ IsLeast(block, i, s, m[s] + 0, slices)
      BY <3>1, <3>2, <3>3
    <3> QED BY <3>4
  <2>2. CASE phase \in {"inner", "tail"}
    <3>1. PICK base \in Nat : AreLeast(block, i, LiveAt(skip), m, base, slices)
      BY <1>1, <2>2 DEF Tracks
    <3>2. skip # 0
      <4>1. CASE phase = "inner"
        BY <1>1, <4>1 DEF Arrays, SkipFollowsLoop
      <4>2. CASE phase = "tail"
        <5>1. skip = 2^(i - (sets - order + 1))
          BY <1>1, <4>2 DEF Arrays, SkipFollowsLoop
        <5>2. i - (sets - order + 1) \in Nat
          <6>1. order \in Nat /\ order - 1 = T /\ sets - T <= i
            BY <1>1, <1>3, <4>2, RoundFacts, TrellisFacts
          <6> QED BY <6>1, <1>2, <1>3
        <5> QED BY <5>1, <5>2, PowerStep
      <4> QED BY <2>2, <4>1, <4>2
    <3>3. LiveStates = LiveAt(skip)
      BY <2>2, <3>2 DEF LiveStates, LiveAt
    <3>4. \A s \in LiveStates : s \in States
      BY <3>3 DEF LiveAt
    <3> QED BY <3>1, <3>3, <3>4 DEF AreLeast
  <2> QED BY <1>1, <2>1, <2>2
<1>6. PICK base \in Nat :
          \A s \in LiveStates : s \in States /\ IsLeast(block, i, s, m[s] + base, slices)
  BY <1>5
<1>7. ASSUME NEW s \in LiveStates PROVE least(s) = m[s] + base
  BY <1>2, <1>4, <1>6, <1>7, ReferenceLeast
<1>8. 0 \in LiveStates
  <2>1. 0 \in States
    BY <1>3 DEF States
  <2>2. phase = "warmup" => 0 < 2^i
    BY <1>2, PowerStep
  <2>3. 0 % Highbit = 0
    BY <1>3
  <2>4. phase # "warmup" => skip \in Nat
    <3>1. CASE phase = "inner"
      BY <1>1, <3>1 DEF Arrays, SkipFollowsLoop
    <3>2. CASE phase = "tail"
      <4>1. skip = 2^(i - (sets - order + 1))
        BY <1>1, <3>2 DEF Arrays, SkipFollowsLoop
      <4>2. i - (sets - order + 1) \in Nat
        <5>1. order \in Nat /\ order - 1 = T /\ sets - T <= i
          BY <1>1, <1>3, <3>2, RoundFacts, TrellisFacts
        <5> QED BY <5>1, <1>2, <1>3
      <4> QED BY <4>1, <4>2, PowerStep
    <3> QED BY <1>1, <3>1, <3>2
  <2>5. phase # "warmup" /\ skip # 0 => 0 % skip = 0
    BY <2>4
  <2> QED BY <2>1, <2>2, <2>3, <2>5 DEF LiveStates
<1>9. ASSUME NEW s \in LiveStates PROVE m[s] - least(s) = 0 - base
  <2>1. m[s] \in Nat
    BY <1>2, <1>3, <1>6
  <2>2. least(s) = m[s] + base
    BY <1>7
  <2> HIDE DEF m, least
  <2> QED BY <2>1, <2>2
<1> HIDE DEF m, least
<1>10. D = {0 - base}
  BY <1>8, <1>9
<1>11. Cardinality(D) = 1
  BY <1>10, FS_Singleton
<1> QED BY <1>11 DEF LeastDistances, m, least

\* cv_decode.c:32, 111-145, 195-216: for every code whose polynomials tap the
\* newest bit and whose renormalisation interval leaves room for the sums, the
\* metric of each live state is after every round the least distance of any path
\* to it, less what renormalising took from all of them.
THEOREM MetricsCorrect ==
    ASSUME TapsNewest, RangeIsEnough
    PROVE  Spec => []MetricsAreLeastDistances
<1>1. Init => PlainInv
  BY PlainInvInit
<1>2. PlainInv /\ [Next]_vars => PlainInv'
  BY PlainInvStep
<1>3. PlainInv => MetricsAreLeastDistances
  BY PlainInvIsLeast
<1> QED BY <1>1, <1>2, <1>3, PTL DEF Spec

-----------------------------------------------------------------------------
(* The decoded message.                                                    *)

\* A path that ends in state 0 ends with T zeros, and the other way round.
LEMMA ZerosEnd ==
    ASSUME NEW u \in InputBits, NEW n \in Nat, n >= T
    PROVE  PathState(u, n) = 0 <=> \A k \in n - T + 1 .. n : u[k] = 0
<1>0. T \in Nat /\ Order = T + 1 /\ Highbit = 2^T
  BY TrellisFacts
<1> DEFINE x == PathRegister(u, n)
           z == PathState(u, n)
<1>1. x \in Nat /\ z = x % 2^T /\ \A j \in 0 .. T : Digit(x, j) = RecentBit(u, n, j)
  <2>1. x \in 0 .. 2^Order - 1 /\ \A j \in 0 .. Order - 1 : Digit(x, j) = RecentBit(u, n, j)
    BY RegisterDigits
  <2>2. 2^Order \in Nat
    BY <1>0, PowerStep
  <2> QED BY <1>0, <2>1, <2>2 DEF PathState
<1> HIDE DEF x, z
<1>2. z \in 0 .. 2^T - 1 /\ \A j \in 0 .. T - 1 : Digit(z, j) = Digit(x, j)
  BY <1>0, <1>1, BitBelow
<1>3. \A j \in 0 .. T - 1 : Digit(z, j) = u[n - j]
  <2> SUFFICES ASSUME NEW j \in 0 .. T - 1 PROVE Digit(z, j) = u[n - j]
    OBVIOUS
  <2>1. j + 1 <= n
    BY <1>0
  <2>2. RecentBit(u, n, j) = u[n - j]
    BY <2>1 DEF RecentBit
  <2> QED BY <1>0, <1>1, <1>2, <2>2
<1>4. ASSUME z = 0, NEW k \in n - T + 1 .. n PROVE u[k] = 0
  <2>1. n - k \in 0 .. T - 1 /\ n - (n - k) = k
    BY <1>0
  <2>2. Digit(0, n - k) = 0
    <3>1. 0 \in 0 .. 2^0 - 1 /\ n - k \in Nat /\ 0 \in Nat /\ 0 <= n - k
      BY <2>1, PowerZero
    <3> DEFINE g == n - k
    <3> HIDE DEF g
    <3>2. g \in Nat /\ 0 <= g
      BY <3>1 DEF g
    <3>3. Digit(0, g) = 0
      BY <3>1, <3>2, BitAbove
    <3> QED BY <3>3 DEF g
  <2>3. Digit(z, n - k) = u[n - (n - k)]
    BY <1>3, <2>1
  <2> QED BY <1>4, <2>1, <2>2, <2>3
<1>5. ASSUME \A k \in n - T + 1 .. n : u[k] = 0 PROVE z = 0
  <2>1. ASSUME NEW j \in 0 .. T - 1 PROVE Digit(z, j) = Digit(0, j)
    <3>1. n - j \in n - T + 1 .. n
      BY <1>0
    <3>2. 0 \in 0 .. 2^0 - 1 /\ j \in Nat /\ 0 \in Nat /\ 0 <= j
      BY PowerZero
    <3>3. Digit(0, j) = 0
      BY <3>2, BitAbove
    <3> QED BY <1>3, <1>5, <3>1, <3>3
  <2>2. 0 \in 0 .. 2^T - 1
    BY <1>0, PowerStep
  <2> QED BY <1>0, <1>2, <2>1, <2>2, BitsDetermine
<1> QED BY <1>4, <1>5 DEF z

\* The bits are those of a path that ends in state 0, and none costs less.
Answer(b, n, bits) ==
    /\ bits \in Seq({0, 1}) /\ Len(bits) = n - T
    /\ \E u \in InputBits :
           /\ PathState(u, n) = 0
           /\ \A k \in 1 .. n - T : bits[k] = u[k]
           /\ \A v \in InputBits : PathState(v, n) = 0 => PathCost(b, u, n) <= PathCost(b, v, n)

Answered == phase = "done" /\ merged => Answer(block, sets, out)

\* A message with its zeros.
LEMMA MessagePath ==
    ASSUME NEW n \in Nat, NEW z \in Nat, NEW bits \in Seq({0, 1}), Len(bits) = n
    PROVE  /\ bits \o Zeros(z) \in AllPaths(n + z)
           /\ \A k \in 1 .. n : (bits \o Zeros(z))[k] = bits[k]
           /\ \A k \in n + 1 .. n + z : (bits \o Zeros(z))[k] = 0
<1>1. Zeros(z) \in Seq({0, 1}) /\ Len(Zeros(z)) = z /\ \A k \in 1 .. z : Zeros(z)[k] = 0
  BY DEF Zeros
<1> DEFINE w == bits \o Zeros(z)
<1>2. w \in Seq({0, 1}) /\ Len(w) = n + z
  BY <1>1
<1>3. \A k \in 1 .. n : w[k] = bits[k]
  BY <1>1
<1>4. \A k \in n + 1 .. n + z : w[k] = 0
  <2> SUFFICES ASSUME NEW k \in n + 1 .. n + z PROVE w[k] = 0
    OBVIOUS
  <2>1. w[k] = Zeros(z)[k - n] /\ k - n \in 1 .. z
    BY <1>1
  <2> QED BY <1>1, <2>1
<1> HIDE DEF w
<1>5. w \in AllPaths(n + z)
  BY <1>2 DEF AllPaths
<1> QED BY <1>3, <1>4, <1>5 DEF w

\* Bits along a least path to state 0 are a most likely message.
LEMMA AnswerIsMostLikely ==
    ASSUME Arrays, phase = "done", Answer(block, sets, out), sets <= PathBound
    PROVE  LET n == sets - (order - 1)
               path == PathDistances(sets, 2)
               tail == Zeros(order - 1)
           IN  /\ Len(out) = n
               /\ \A u \in AllPaths(n) : path[out \o tail] <= path[u \o tail]
<1> DEFINE n == sets - T
           tail == Zeros(T)
           path == PathDistances(sets, 2)
<1>0. /\ block \in Inputs /\ sets = Len(block.symbols) /\ sets \in Nat /\ sets >= 2 * T
      /\ T \in Nat /\ T >= 3 /\ order - 1 = T
  BY LengthFacts, TrellisFacts, LoopFacts DEF Arrays
<1>1. n \in Nat /\ n + T = sets /\ sets \in 1 .. PathBound /\ sets >= T /\ sets - T + 1 = n + 1
  BY <1>0, PathBoundAssumption
<1>2. out \in Seq({0, 1}) /\ Len(out) = n
  BY DEF Answer
<1>3. PICK u \in InputBits :
          /\ PathState(u, sets) = 0
          /\ \A k \in 1 .. n : out[k] = u[k]
          /\ \A v \in InputBits : PathState(v, sets) = 0 =>
                 PathCost(block, u, sets) <= PathCost(block, v, sets)
  BY DEF Answer
<1> HIDE DEF n
<1>4. path[out \o tail] = PathCost(block, u, sets)
  <2> DEFINE w == out \o tail
  <2>1. /\ w \in AllPaths(sets) /\ \A k \in 1 .. n : w[k] = out[k]
        /\ \A k \in n + 1 .. sets : w[k] = 0
    <3>1. /\ w \in AllPaths(n + T) /\ \A k \in 1 .. n : w[k] = out[k]
          /\ \A k \in n + 1 .. n + T : w[k] = 0
      <4>1. n \in Nat /\ T \in Nat
        BY <1>0, <1>1
      <4> QED BY <4>1, <1>2, MessagePath
    <3> HIDE DEF w
    <3> QED BY <3>1, <1>1
  <2>2. \A k \in n + 1 .. sets : u[k] = 0
    BY <1>1, <1>3, ZerosEnd
  <2> HIDE DEF w
  <2>3. Agree(w, u, sets)
    <3> SUFFICES ASSUME NEW k \in 1 .. sets PROVE w[k] = u[k]
      BY DEF Agree
    <3>1. k \in 1 .. n \/ k \in n + 1 .. sets
      BY <1>0, <1>1
    <3> QED BY <3>1, <1>3, <2>1, <2>2
  <2>4. path[w] = PathCost(block, u, sets)
    BY <1>1, <2>1, <2>3, ReferencePath
  <2> QED BY <2>4 DEF w
<1>5. ASSUME NEW x \in AllPaths(n) PROVE path[out \o tail] <= path[x \o tail]
  <2> DEFINE w == x \o tail
  <2>0. x \in Seq({0, 1}) /\ Len(x) = n
    BY <1>1 DEF AllPaths
  <2>1. w \in AllPaths(sets) /\ \A k \in n + 1 .. sets : w[k] = 0
    <3>1. w \in AllPaths(n + T) /\ \A k \in n + 1 .. n + T : w[k] = 0
      <4>1. n \in Nat /\ T \in Nat
        BY <1>0, <1>1
      <4> QED BY <4>1, <2>0, MessagePath
    <3> HIDE DEF w
    <3> QED BY <3>1, <1>1
  <2> HIDE DEF w
  <2>2. PICK v \in InputBits : Agree(w, v, sets)
    BY <1>0, <2>1, EndlessPath
  <2>3. \A k \in n + 1 .. sets : v[k] = 0
    <3> SUFFICES ASSUME NEW k \in n + 1 .. sets PROVE v[k] = 0
      OBVIOUS
    <3>1. k \in 1 .. sets
      BY <1>1
    <3> QED BY <3>1, <2>1, <2>2 DEF Agree
  <2>4. PathState(v, sets) = 0
    BY <1>0, <1>1, <2>3, ZerosEnd
  <2>5. path[w] = PathCost(block, v, sets)
    BY <1>1, <2>1, <2>2, ReferencePath
  <2>6. path[out \o tail] <= path[w]
    BY <1>3, <1>4, <2>4, <2>5
  <2> QED BY <2>6 DEF w
<1>6. sets - (order - 1) = n /\ Zeros(order - 1) = tail
  BY <1>0 DEF n
<1> QED BY <1>2, <1>5, <1>6

\* The metrics are right, what is out lies on every survivor path, and the answer
\* is a most likely one.
DecodedInv == PlainInv /\ Buf!OutIsOnEveryPath /\ Answered

\* A new codec has decoded nothing.
LEMMA DecodedInit ==
    ASSUME Init
    PROVE  DecodedInv
<1>1. skip = 0 /\ phase = "idle"
  BY DEF Init, Ring!Init, Schedule!Init
<1> QED BY <1>1, PlainInvInit DEF DecodedInv, Answered, Buf!OutIsOnEveryPath

\* Nothing is out when a block starts.
LEMMA DecodedStart ==
    ASSUME NEW b \in Pending, Start(b)
    PROVE  Buf!OutIsOnEveryPath' /\ Answered'
<1>1. Len(out') = 0 /\ phase' = "warmup"
  BY DEF Start, Ring!Reset, Schedule!Start
<1>2. Buf!OutIsOnEveryPath'
  BY <1>1 DEF Buf!OutIsOnEveryPath
<1> QED BY <1>1, <1>2 DEF Answered

\* The steps that leave the bits and slices alone.
LEMMA DecodedElse ==
    ASSUME Buf!OutIsOnEveryPath, Answered, UNCHANGED <<skip, merged, out, slices>>,
           phase' # "done" \/ UNCHANGED <<phase, block, sets>>
    PROVE  Buf!OutIsOnEveryPath' /\ Answered'
<1>1. Buf!OutIsOnEveryPath'
  BY Buf!OutIsOnEveryPathPrimed DEF Buf!OutIsOnEveryPath
<1>2. Answered'
  BY DEF Answered
<1> QED BY <1>1, <1>2

\* A round keeps what is out on the survivor paths.
LEMMA DecodedRound ==
    ASSUME DecodedInv, InnerRound \/ TailRound
    PROVE  Buf!OutIsOnEveryPath' /\ Answered'
<1>1. /\ Arrays /\ Buf!RingInv /\ Buf!OutIsOnEveryPath
  BY DEF DecodedInv, PlainInv
<1>2. /\ phase \in {"inner", "tail"} /\ i < sets
      /\ UNCHANGED <<phase, sets, block>>
      /\ phase = "inner" => Search(PairDistances, 1, 0)
      /\ phase = "tail" => Search(DirectDistances, TailSkip, 1)
  BY <1>1, LoopRound
<1>3. \E every \in Nat \ {0}, tie \in {0, 1} :
          ComesFrom(every, skip) /\ Search(DirectDistances, every, tie)
  <2>1. CASE phase = "inner"
    <3>1. ComesFrom(1, skip) /\ Search(DirectDistances, 1, 0)
      BY <1>1, <1>2, <2>1, RoundSkips, LookupsAgree
    <3> QED BY <3>1
  <2>2. CASE phase = "tail"
    <3>1. /\ ComesFrom(TailSkip, skip) /\ TailSkip \in Nat \ {0}
          /\ Search(DirectDistances, TailSkip, 1)
      BY <1>1, <1>2, <2>2, RoundSkips
    <3> QED BY <3>1
  <2> QED BY <1>2, <2>1, <2>2
<1>4. PICK every \in Nat \ {0}, tie \in {0, 1} :
          ComesFrom(every, skip) /\ Search(DirectDistances, every, tie)
  BY <1>3
<1>5. skip' = every
  BY <1>1, <1>2, <1>4, SearchChooses
<1>6. PICK d, e : Chosen(d, e, every) /\ Ring!ProcessSkip(d, e, every)
  BY <1>1, <1>2, <1>4, SearchChooses
<1>7. Buf!ProcessSkip(d, e, every)
  BY <1>6, BufferOfRing
<1>8. Buf!States = States /\ Buf!Live(every) = LiveAt(every) /\ Buf!Live(skip) = LiveAt(skip)
  BY DEF Buf!States, Buf!Stream!States, States, Buf!Live, LiveAt
<1>9. d \in [Buf!States -> {0, 1}] /\ e \in [Buf!States -> 0 .. DistanceMax]
  BY <1>6, <1>8 DEF Chosen
<1>10. \A slice, s : s \in Buf!Live(every) => Buf!Stream!Predecessor(slice, s) \in Buf!Live(skip)
  <2> SUFFICES ASSUME NEW slice, NEW s \in LiveAt(every)
               PROVE  Buf!Stream!Predecessor(slice, s) \in LiveAt(skip)
    BY <1>8
  <2>1. Buf!Stream!PathBit(slice, s) \in {0, 1}
    BY DEF Buf!Stream!PathBit
  <2> QED BY <2>1, <1>4 DEF ComesFrom, Buf!Stream!Predecessor
<1>11. skip \in Nat \ {0}
  <2>1. CASE phase = "inner"
    BY <1>1, <2>1 DEF Arrays, SkipFollowsLoop
  <2>2. CASE phase = "tail"
    <3>1. skip = 2^(i - (sets - order + 1))
      BY <1>1, <2>2 DEF Arrays, SkipFollowsLoop
    <3>2. i - (sets - order + 1) \in Nat
      <4>1. order \in Nat /\ order - 1 = T /\ sets - T <= i /\ i \in Nat /\ sets \in Nat /\ T \in Nat
        BY <1>1, <2>2, RoundFacts, TrellisFacts
      <4> QED BY <4>1
    <3> QED BY <3>1, <3>2, PowerStep
  <2> QED BY <1>2, <2>1, <2>2
<1>12. Buf!OutIsOnEveryPath'
  BY <1>1, <1>5, <1>7, <1>9, <1>10, <1>11, RingAssumptions, Buf!RoundKeepsPath
<1>13. phase' # "done"
  BY <1>2
<1> QED BY <1>12, <1>13 DEF Answered

\* The flush completes the survivor into state 0, which is a least path.
LEMMA DecodedFinish ==
    ASSUME DecodedInv, Finish
    PROVE  Buf!OutIsOnEveryPath' /\ Answered'
<1>1. /\ Arrays /\ Buf!RingInv /\ Buf!OutIsOnEveryPath
      /\ Tracks("tail", block, i, renormalizeCounter, skip, errors[read], slices)
      /\ phase = "tail" /\ ~(i < sets) /\ phase' = "done" /\ UNCHANGED <<sets, block>>
  BY DEF DecodedInv, PlainInv, Counted, Finish, Schedule!Finish
<1>2. Ring!Flush /\ Buf!Flush /\ skip' = 0 /\ merged' = merged /\ skip = Highbit
      /\ slices' = slices
  BY BufferOfRing DEF Finish, Ring!Flush
<1>3. Buf!OutIsOnEveryPath'
  BY <1>2 DEF Buf!OutIsOnEveryPath
<1>4. ASSUME merged PROVE Answer(block, sets, out')
  <2>0. /\ block \in Inputs /\ sets \in Nat /\ i = sets /\ T \in Nat /\ sets >= 2 * T
        /\ DistanceMax \in Nat /\ Highbit \in Nat \ {0}
        /\ errors[read] \in [States -> 0 .. DistanceMax]
    BY <1>1, RoundFacts, TrellisFacts
  <2>1. Len(slices) = sets - T
    BY <1>1, <2>0 DEF Tracks
  <2>2. /\ out' \in Seq({0, 1}) /\ Len(out') = Len(slices)
        /\ \A k \in 1 .. Len(slices) : out'[k] = Buf!BitAt(slices, 0, k)
    BY <1>1, <1>2, <1>4, RingAssumptions, Buf!FlushIsSeamless
  <2>3. 0 \in LiveAt(skip)
    <3>1. 0 \in States /\ 0 % Highbit = 0
      BY <2>0 DEF States
    <3> QED BY <1>2, <3>1 DEF LiveAt
  <2>4. PICK base \in Nat : AreLeast(block, i, LiveAt(skip), errors[read], base, slices)
    BY <1>1 DEF Tracks
  <2> DEFINE c == errors[read][0] + base
  <2>5. IsLeast(block, sets, 0, c, slices)
    BY <2>0, <2>3, <2>4 DEF AreLeast
  <2> HIDE DEF c
  <2>6. PICK u \in InputBits :
            /\ PathState(u, sets) = 0 /\ PathCost(block, u, sets) = c /\ Along(slices, 0, u)
    BY <2>5 DEF IsLeast
  <2>7. \A v \in InputBits : PathState(v, sets) = 0 =>
            PathCost(block, u, sets) <= PathCost(block, v, sets)
    BY <2>5, <2>6 DEF IsLeast
  <2>8. \A k \in 1 .. sets - T : out'[k] = u[k]
    BY <2>1, <2>2, <2>6 DEF Along
  <2> QED BY <2>1, <2>2, <2>6, <2>7, <2>8 DEF Answer
<1> QED BY <1>1, <1>2, <1>3, <1>4 DEF Answered

\* Every step of the decoder keeps the decoded bits on a least path.
LEMMA DecodedStep ==
    ASSUME TapsNewest, RangeIsEnough, DecodedInv, [Next]_vars
    PROVE  DecodedInv'
<1>1. PlainInv'
  BY PlainInvStep DEF DecodedInv
<1>2. Buf!OutIsOnEveryPath /\ Answered
  BY DEF DecodedInv
<1> SUFFICES Buf!OutIsOnEveryPath' /\ Answered'
  BY <1>1 DEF DecodedInv
<1>3. ASSUME NEW b \in Pending, Start(b) PROVE Buf!OutIsOnEveryPath' /\ Answered'
  BY <1>3, DecodedStart
<1>4. CASE WarmupRound \/ LoopEnd
  <2>1. UNCHANGED ringVars /\ phase' # "done"
    BY <1>4 DEF WarmupRound, LoopEnd, Schedule!WarmupRound, Schedule!WarmupEnd, Schedule!EndInner
  <2>2. UNCHANGED <<skip, merged, out, slices>>
    BY <2>1 DEF ringVars
  <2> QED BY <1>2, <2>1, <2>2, DecodedElse
<1>5. CASE InnerRound \/ TailRound
  BY <1>5, DecodedRound
<1>6. CASE Finish
  BY <1>6, DecodedFinish
<1>7. CASE Done \/ UNCHANGED vars
  <2>1. UNCHANGED <<skip, merged, out, slices>> /\ UNCHANGED <<phase, block, sets>>
    BY <1>7 DEF Done, vars, ringVars, scheduleVars
  <2> QED BY <1>2, <2>1, DecodedElse
<1> QED BY <1>3, <1>4, <1>5, <1>6, <1>7 DEF Next, Step

\* The decoder is a maximum-likelihood one (cv_decode.c with history_buffer.c):
\* whenever the survivors had met at each group traceback, no message is nearer to
\* what was received than the decoded one, the first slice excepted, for every
\* code, block and ring and whatever the codec decoded before.
THEOREM DecodedIsMostLikely ==
    ASSUME TapsNewest, RangeIsEnough
    PROVE  Spec => []DecodesMostLikely
<1>1. Init => DecodedInv
  BY DecodedInit
<1>2. DecodedInv /\ [Next]_vars => DecodedInv'
  BY DecodedStep
<1>3. DecodedInv => DecodesMostLikely
  BY AnswerIsMostLikely DEF DecodedInv, PlainInv, Answered, DecodesMostLikely
<1> QED BY <1>1, <1>2, <1>3, PTL DEF Spec

-----------------------------------------------------------------------------
(* The SSE decoder.                                                        *)

\* Its interval keeps the sums in the positive half.
SseRangeIsEnough == Fits(RenormalizeInterval - 1, DistanceMax \div 2)

\* The sign bit is half of the range, so the SSE bound is the stricter one.
LEMMA HalfRange ==
    /\ DistanceMax \div 2 \in Nat /\ DistanceMax \div 2 <= DistanceMax
    /\ SseRangeIsEnough => RangeIsEnough
<1>1. DistanceMax \in Nat /\ RenormalizeInterval - 1 \in Nat
  BY TrellisFacts, RingAssumption
<1> DEFINE h == DistanceMax \div 2
           c == RenormalizeInterval - 1
<1>2. h \in Nat /\ h <= DistanceMax
  BY <1>1
<1> HIDE DEF h, c
<1>3. Fits(c, h) => Fits(c, DistanceMax)
  BY <1>1, <1>2, FitsBelow DEF c
<1> QED BY <1>2, <1>3 DEF h, c, SseRangeIsEnough, RangeIsEnough

\* The interval of sse/cv_decode.c is short enough for codes of up to half its
\* order, which is half of what the plain decoder's allows.
LEMMA SseIntervalFits ==
    ASSUME RenormalizeInterval = SseInterval, 2 * Order <= SseInterval + 1
    PROVE  SseRangeIsEnough
<1> DEFINE max == DistanceMax \div 2
<1>1. max \in Nat /\ RenormalizeInterval = max \div Worst
  BY HalfRange DEF SseInterval, Worst
<1>2. 2 * Order <= RenormalizeInterval + 1
  OBVIOUS
<1> HIDE DEF max
<1>3. Fits(RenormalizeInterval - 1, max)
  BY <1>1, <1>2, IntervalFits
<1> QED BY <1>3 DEF SseRangeIsEnough, max

\* The ring that the local variables describe.
LocalBuf == INSTANCE HistoryBufferProofs
               WITH index <- localIndex, len <- localLen,
                    renormalizeCounter <- localCounter,
                    SliceInputs <- {}, DistanceInputs <- {}, MaxSlices <- 0

\* The ring over the local copies meets the assumptions of the ring.
LEMMA LocalAssumptions ==
    /\ LocalBuf!HighbitAssumption /\ LocalBuf!HighbitIsPower
    /\ LocalBuf!MinTracebackAssumption /\ LocalBuf!TracebackGroupAssumption
    /\ LocalBuf!RenormalizeAssumption /\ LocalBuf!DistanceMaxAssumption
    /\ LocalBuf!MaxSlicesAssumption /\ LocalBuf!InputsAssumption
<1>1. /\ Buf!HighbitAssumption <=> LocalBuf!HighbitAssumption
      /\ Buf!HighbitIsPower <=> LocalBuf!HighbitIsPower
      /\ Buf!MinTracebackAssumption <=> LocalBuf!MinTracebackAssumption
      /\ Buf!TracebackGroupAssumption <=> LocalBuf!TracebackGroupAssumption
      /\ Buf!RenormalizeAssumption <=> LocalBuf!RenormalizeAssumption
      /\ Buf!DistanceMaxAssumption <=> LocalBuf!DistanceMaxAssumption
      /\ Buf!MaxSlicesAssumption <=> LocalBuf!MaxSlicesAssumption
  BY DEF Buf!HighbitAssumption, LocalBuf!HighbitAssumption,
         Buf!HighbitIsPower, LocalBuf!HighbitIsPower,
         Buf!MinTracebackAssumption, LocalBuf!MinTracebackAssumption,
         Buf!TracebackGroupAssumption, LocalBuf!TracebackGroupAssumption,
         Buf!RenormalizeAssumption, LocalBuf!RenormalizeAssumption,
         Buf!DistanceMaxAssumption, LocalBuf!DistanceMaxAssumption,
         Buf!MaxSlicesAssumption, LocalBuf!MaxSlicesAssumption
<1>2. LocalBuf!InputsAssumption
  BY DEF LocalBuf!InputsAssumption
<1> QED BY <1>1, <1>2, RingAssumptions

\* The two instances with the local variables are one.
LEMMA BufferOfLocal ==
    ASSUME NEW d, NEW dist, NEW every, LocalRing!ProcessSkip(d, dist, every)
    PROVE  LocalBuf!ProcessSkip(d, dist, every)
<1>1. LocalRing!ProcessSkip(d, dist, every) = LocalBuf!ProcessSkip(d, dist, every)
  BY DEF LocalRing!ProcessSkip, LocalBuf!ProcessSkip, LocalRing!Cap, LocalBuf!Cap,
         LocalRing!States, LocalBuf!States, LocalRing!Live, LocalBuf!Live,
         LocalRing!Back, LocalBuf!Back,
         LocalRing!NextIndex, LocalBuf!NextIndex, LocalRing!RingView, LocalBuf!RingView,
         LocalRing!Walk, LocalBuf!Walk, LocalRing!Decided, LocalBuf!Decided,
         LocalRing!Merged, LocalBuf!Merged, LocalRing!Search, LocalBuf!Search,
         LocalRing!Renormalized, LocalBuf!Renormalized, LocalRing!Filled, LocalBuf!Filled,
         LocalRing!LenAfterTraceback, LocalBuf!LenAfterTraceback,
         LocalRing!Stream!States, LocalBuf!Stream!States,
         LocalRing!Stream!PathBit, LocalBuf!Stream!PathBit,
         LocalRing!Stream!Predecessor, LocalBuf!Stream!Predecessor,
         LocalRing!Stream!Walk, LocalBuf!Stream!Walk,
         LocalRing!Stream!Decided, LocalBuf!Stream!Decided,
         LocalRing!Stream!Undecided, LocalBuf!Stream!Undecided
<1> QED BY <1>1

\* The part of a ring's invariant that speaks of the index and the length.
LEMMA RingMoves ==
    /\ localIndex' = ringIndex /\ localLen' = len
          /\ UNCHANGED <<history, out, slices>> /\ Buf!RingInv => LocalBuf!RingInv'
    /\ ringIndex' = localIndex /\ len' = localLen
          /\ UNCHANGED <<history, out, slices>> /\ LocalBuf!RingInv => Buf!RingInv'
<1> USE DEF Buf!RingInv, LocalBuf!RingInv, Buf!RingHoldsUndecided, LocalBuf!RingHoldsUndecided,
           Buf!RingView, LocalBuf!RingView, Buf!Back, LocalBuf!Back, Buf!Cap, LocalBuf!Cap,
           Buf!Slots, LocalBuf!Slots, Buf!States, LocalBuf!States,
           Buf!Stream!States, LocalBuf!Stream!States,
           Buf!Stream!Undecided, LocalBuf!Stream!Undecided
<1>1. ASSUME localIndex' = ringIndex, localLen' = len, UNCHANGED <<history, out, slices>>,
             Buf!RingInv
      PROVE  LocalBuf!RingInv'
  BY <1>1
<1>2. ASSUME ringIndex' = localIndex, len' = localLen, UNCHANGED <<history, out, slices>>,
             LocalBuf!RingInv
      PROVE  Buf!RingInv'
  BY <1>2
<1> QED BY <1>1, <1>2

SseInv ==
    /\ Arrays
    /\ InInner => LocalBuf!RingInv /\ Counted(localCounter)
    /\ ~InInner => Buf!RingInv /\ Counted(renormalizeCounter)

\* No sum of a round of the inner loop wraps or reaches the sign bit.
LEMMA SumsPositive ==
    ASSUME TapsNewest, SseRangeIsEnough, Arrays, phase = "inner", i < sets,
           NEW c, Counted(c), NEW r \in Registers
    PROVE  /\ PathError(DirectDistances, r) \in Nat
           /\ PathError(DirectDistances, r) <= DistanceMax \div 2
<1> DEFINE p == r \div 2
           m == errors[read]
           x == m[p]
           y == SliceCost(block, i + 1, Table[r])
           h == DistanceMax \div 2
<1>0. /\ block \in Inputs /\ i \in Nat /\ sets = Len(block.symbols) /\ sets \in Nat
      /\ T \in Nat /\ T >= 3 /\ i >= T /\ skip = 1
      /\ m \in [States -> 0 .. DistanceMax] /\ DistanceMax \in Nat
      /\ Highbit \in Nat \ {0} /\ 2^Order = 2 * Highbit
  BY RoundFacts, TrellisFacts DEF Arrays, SkipFollowsLoop
<1>1. c \in Nat /\ Fits(c, h) /\ h \in Nat /\ h <= DistanceMax
  <2>1. c \in Nat /\ RenormalizeInterval - 1 \in Nat /\ c <= RenormalizeInterval - 1
    BY RingAssumption DEF Counted
  <2>2. h \in Nat /\ h <= DistanceMax
    BY HalfRange
  <2>3. Fits(RenormalizeInterval - 1, h)
    BY DEF SseRangeIsEnough
  <2> HIDE DEF h
  <2>4. h <= h
    BY <2>2
  <2> QED BY <2>1, <2>2, <2>3, <2>4, FitsBelow
<1>2. p \in States /\ p \in LiveAt(1)
  <2>1. r \in 0 .. 2 * Highbit - 1
    BY <1>0 DEF Registers
  <2>2. p \in 0 .. Highbit - 1
    BY <1>0, <2>1
  <2> HIDE DEF p
  <2>3. p % 1 = 0
    BY <2>2, <1>0
  <2> QED BY <2>2, <2>3 DEF States, LiveAt
<1>3. PICK base \in Nat :
          AreLeast(block, i, LiveAt(1), m, base, slices) /\ Anchored(block, i, c, base)
  BY <1>0 DEF Counted, Tracks
<1>4. IsLeast(block, i, p, x + base, slices) /\ x \in Nat
  BY <1>0, <1>2, <1>3 DEF AreLeast
<1>5. i + 1 <= Len(block.symbols)
  BY <1>0
<1> HIDE DEF x, h, p
<1>6. y \in Nat /\ y + x <= h
  BY <1>0, <1>1, <1>2, <1>3, <1>4, <1>5, SumInRange
<1>7. DirectDistances[r] = y
  <2>1. i >= 1
    BY <1>0
  <2> QED BY <1>0, <1>5, <2>1, RoundMeasures DEF Measures
<1>8. PathError(DirectDistances, r) = (y + x) % (DistanceMax + 1)
  BY <1>7 DEF PathError, Sum, x, p
<1> HIDE DEF y
<1>9. y + x \in Nat /\ y + x <= DistanceMax
  BY <1>0, <1>1, <1>4, <1>6
<1>10. (y + x) % (DistanceMax + 1) = y + x
  BY <1>0, <1>9, SmallRemainder
<1> QED BY <1>6, <1>8, <1>9, <1>10 DEF h

\* In a round of the inner loop the signed comparison picks what the plain
\* decoder picks, and so does the lookup of eight registers.
LEMMA SsePicksTheSame ==
    ASSUME TapsNewest, SseRangeIsEnough, Arrays, phase = "inner", i < sets,
           NEW c, Counted(c)
    PROVE  LET low   == LowErrors(OctDistances)
               high  == HighErrors(OctDistances)
               least == Least(low, high)
           IN  /\ least = SearchErrors(DirectDistances, 1, 0)
               /\ HighChosen(low, least) = SearchBits(DirectDistances, 0)
<1> DEFINE far == DirectDistances
           low == LowErrors(far)
           high == HighErrors(far)
           least == Least(low, high)
           h == DistanceMax \div 2
           b(s) == Better(low, high, s, 0)
<1>1. OctDistances = far
  BY LookupsAgree, SseOrderAssumption
<1>2. h \in Nat
  BY HalfRange
<1>3. ASSUME NEW s \in States
      PROVE  /\ low[s] \in Nat /\ low[s] <= h
             /\ high[s] \in Nat /\ high[s] <= h
  <2>1. LowRegister(s) \in Registers /\ HighRegister(s) \in Registers
    <3>1. s \in 0 .. Highbit - 1 /\ Highbit \in Nat \ {0} /\ 2^Order = 2 * Highbit
      BY TrellisFacts DEF States
    <3>2. s \in 0 .. 2 * Highbit - 1 /\ s + Highbit \in 0 .. 2 * Highbit - 1
      BY <3>1
    <3> QED BY <3>1, <3>2 DEF LowRegister, HighRegister, Registers
  <2>2. low[s] = PathError(far, LowRegister(s)) /\ high[s] = PathError(far, HighRegister(s))
    BY DEF LowErrors, HighErrors
  <2>3. ASSUME NEW r \in Registers
        PROVE  PathError(far, r) \in Nat /\ PathError(far, r) <= h
    BY SumsPositive
  <2> HIDE DEF far, low, high, h
  <2> QED BY <2>1, <2>2, <2>3
<1>4. ASSUME NEW s \in States
      PROVE  /\ (IF low[s] <= high[s] THEN low[s] ELSE high[s]) = b(s).error
             /\ least[s] = b(s).error
             /\ b(s).bit = IF Signed(low[s]) > Signed(least[s]) THEN 1 ELSE 0
             /\ s % 1 = 0
  <2> DEFINE x == low[s]
             y == high[s]
             z == IF x <= y THEN x ELSE y
  <2>1. x \in Nat /\ y \in Nat /\ x <= h /\ y <= h
    BY <1>3
  <2>2. b(s) = IF x < y \/ (x = y /\ 0 = 0)
               THEN [bit |-> 0, error |-> x] ELSE [bit |-> 1, error |-> y]
    BY DEF Better
  <2>3. least[s] = z
    BY DEF Least
  <2>4. s % 1 = 0
    <3>1. s \in Nat
      BY DEF States
    <3> QED BY <3>1
  <2> HIDE DEF low, high, least, b, x, y, h
  <2>5. z \in Nat /\ z <= h
    BY <2>1
  <2>6. Signed(x) = x /\ Signed(z) = z
    <3>1. ~(x > h) /\ ~(z > h)
      BY <1>2, <2>1, <2>5
    <3> HIDE DEF z
    <3> QED BY <3>1 DEF Signed, h
  <2>7. z = b(s).error /\ b(s).bit = IF x > z THEN 1 ELSE 0
    <3>1. CASE x <= y
      <4>1. x < y \/ (x = y /\ 0 = 0)
        BY <3>1, <2>1
      <4>2. z = x /\ ~(x > z)
        BY <3>1, <2>1
      <4> QED BY <4>1, <4>2, <2>2
    <3>2. CASE ~(x <= y)
      <4>1. ~(x < y \/ (x = y /\ 0 = 0))
        BY <3>2, <2>1
      <4>2. z = y /\ x > z
        BY <3>2, <2>1
      <4> QED BY <4>1, <4>2, <2>2
    <3> QED BY <3>1, <3>2
  <2>8. Signed(low[s]) = x /\ Signed(least[s]) = z
    BY <2>6, <2>3 DEF x
  <2> QED BY <2>3, <2>4, <2>7, <2>8 DEF x, y
<1>5. SearchErrors(far, 1, 0) = [s \in States |-> IF s % 1 = 0 THEN b(s).error ELSE errors[write][s]]
      /\ SearchBits(far, 0) = [s \in States |-> b(s).bit]
  BY DEF SearchErrors, SearchBits
<1>6. HighChosen(low, least)
          = [s \in States |-> IF Signed(low[s]) > Signed(least[s]) THEN 1 ELSE 0]
  BY DEF HighChosen
<1>7. least = [s \in States |-> IF low[s] <= high[s] THEN low[s] ELSE high[s]]
  BY DEF Least
<1> HIDE DEF b
<1>8. least = SearchErrors(far, 1, 0)
  <2>1. SearchErrors(far, 1, 0) = [s \in States |-> b(s).error]
    <3> HIDE DEF far, least, low, high
    <3> QED BY <1>4, <1>5
  <2> HIDE DEF far, low, high, least
  <2> QED BY <1>4, <1>7, <2>1
<1>9. HighChosen(low, least) = SearchBits(far, 0)
  <2> HIDE DEF far, low, high, least
  <2> QED BY <1>4, <1>5, <1>6
<1> QED BY <1>1, <1>8, <1>9

\* The round without the call is the call that would have found nothing to do.
LEMMA BypassIsCall ==
    ASSUME LocalBuf!RingInv, NEW c, localCounter = c, Counted(c),
           ~MustProcess, NEW d \in [States -> {0, 1}], NEW e, Bypass(d, e)
    PROVE  LocalRing!ProcessSkip(d, e, 1)
<1>1. /\ localLen \in Nat /\ localCounter \in Nat
      /\ history \in [LocalRing!Slots -> [States -> {0, 1}]]
      /\ localIndex \in LocalRing!Slots
      /\ LocalRing!Cap \in Nat \ {0} /\ RenormalizeInterval \in Nat \ {0}
  <2>1. /\ history \in [LocalBuf!Slots -> [LocalBuf!States -> {0, 1}]]
        /\ localIndex \in LocalBuf!Slots /\ localLen \in LocalBuf!Slots
    BY DEF LocalBuf!RingInv
  <2>2. LocalBuf!States = States
    BY DEF LocalBuf!States, LocalBuf!Stream!States, States
  <2>3. LocalBuf!Slots = LocalRing!Slots /\ LocalBuf!Cap = LocalRing!Cap
    BY DEF LocalBuf!Slots, LocalRing!Slots, LocalBuf!Cap, LocalRing!Cap
  <2>4. LocalRing!Cap = MinTraceback + TracebackGroup
    BY DEF LocalRing!Cap
  <2>5. LocalRing!Slots = 0 .. LocalRing!Cap - 1
    BY DEF LocalRing!Slots
  <2>6. localLen \in 0 .. LocalRing!Cap - 1 /\ LocalRing!Cap \in Nat \ {0}
    BY <2>1, <2>3, <2>4, <2>5, RingAssumption
  <2>7. localCounter \in Nat
    BY RingAssumption DEF Counted
  <2> QED BY <2>1, <2>2, <2>3, <2>6, <2>7, RingAssumption
<1>2. localLen + 1 # LocalRing!Cap /\ localCounter + 1 # RenormalizeInterval
  BY <1>1 DEF MustProcess
<1>3. LocalRing!Filled(history[localIndex], d, 1) = d
  <2>1. \A s \in States : s % 1 = 0
    <3> SUFFICES ASSUME NEW s \in States PROVE s % 1 = 0
      OBVIOUS
    <3>1. s \in Nat
      BY DEF States
    <3> QED BY <3>1
  <2>2. LocalRing!Filled(history[localIndex], d, 1)
            = [s \in States |-> IF s % 1 = 0 THEN d[s] ELSE history[localIndex][s]]
    BY DEF LocalRing!Filled, LocalRing!States, LocalRing!Stream!States, States
  <2> QED BY <2>1, <2>2
<1>4. [history EXCEPT ![localIndex] = d][localIndex] = d
  BY <1>1
<1>5. /\ history' = [history EXCEPT ![localIndex] = d]
      /\ localLen' = localLen + 1
      /\ localIndex' = LocalRing!NextIndex(localIndex)
      /\ localCounter' = localCounter + 1
      /\ distances' = e /\ handed' = e
      /\ slices' = Append(slices, d)
      /\ UNCHANGED <<out, merged>>
  BY DEF Bypass
<1> QED BY <1>2, <1>3, <1>4, <1>5 DEF LocalRing!ProcessSkip

\* A round of the SSE decoder's inner loop is, call or no call, one of the plain
\* decoder's on the ring of the local variables.
LEMMA SseRoundIsSearch ==
    ASSUME TapsNewest, SseRangeIsEnough, SseInv, SseInnerRound
    PROVE  /\ phase = "inner" /\ phase' = "inner" /\ i < sets /\ i' = i + 1
           /\ UNCHANGED <<sets, block, decodes>> /\ Schedule!InnerRound
           /\ LocalRing!ProcessSkip(SearchBits(DirectDistances, 0),
                                    SearchErrors(DirectDistances, 1, 0), 1)
           /\ Chosen(SearchBits(DirectDistances, 0),
                     SearchErrors(DirectDistances, 1, 0), 1)
           /\ skip' = 1 /\ Errors!Round(distances')
<1> DEFINE d == SearchBits(DirectDistances, 0)
           e == SearchErrors(DirectDistances, 1, 0)
           low == LowErrors(OctDistances)
           high == HighErrors(OctDistances)
           least == Least(low, high)
           slice == HighChosen(low, least)
<1>1. /\ Schedule!InnerRound
      /\ IF MustProcess THEN Restore(slice, least) ELSE Bypass(slice, least)
      /\ skip' = 1 /\ Errors!Round(distances')
      /\ UNCHANGED <<block, decodes>>
  BY DEF SseInnerRound
<1>2. /\ phase = "inner" /\ i < Schedule!InnerEnd /\ i' = i + 1
      /\ UNCHANGED <<order, sets, phase>>
  BY <1>1 DEF Schedule!InnerRound, Schedule!Read
<1>3. Arrays /\ LocalBuf!RingInv /\ Counted(localCounter)
  BY <1>2 DEF SseInv, InInner
<1>4. i < sets
  <2>1. sets \in Nat /\ i \in Nat /\ Schedule!InnerEnd = sets - T
    BY <1>2, <1>3, RoundFacts
  <2> QED BY <1>2, <2>1, TrellisFacts
<1> HIDE DEF low, high, least, slice, d, e
<1>5. least = e /\ slice = d
  BY <1>2, <1>3, <1>4, SsePicksTheSame DEF low, high, least, slice, d, e
<1>6. Chosen(d, e, 1)
  BY <1>2, <1>3, <1>4, SearchIsChosen DEF d, e
<1>7. d \in [States -> {0, 1}]
  BY <1>6 DEF Chosen
<1>8. LocalRing!ProcessSkip(d, e, 1)
  <2>1. CASE MustProcess
    BY <1>1, <1>5, <2>1 DEF Restore
  <2>2. CASE ~MustProcess
    <3>1. Bypass(d, e)
      BY <1>1, <1>5, <2>2
    <3> DEFINE c == localCounter
    <3>2. Counted(c) /\ localCounter = c
      BY <1>3
    <3> HIDE DEF c
    <3> QED BY <1>3, <1>7, <2>2, <3>1, <3>2, BypassIsCall
  <2> QED BY <2>1, <2>2
<1> QED BY <1>1, <1>2, <1>4, <1>6, <1>8 DEF d, e

\* What it makes of the metrics.
LEMMA LocalRecords ==
    ASSUME LocalBuf!RingInv, localCounter \in 0 .. RenormalizeInterval - 1,
           NEW d \in [States -> {0, 1}], NEW e \in [States -> 0 .. DistanceMax],
           NEW every \in Nat \ {0}, LocalRing!ProcessSkip(d, e, every)
    PROVE  /\ LocalBuf!RingInv'
           /\ localCounter' \in 0 .. RenormalizeInterval - 1
           /\ Recorded(d, e, every, localCounter, localCounter')
<1>1. LocalBuf!States = States /\ LocalBuf!Live(every) = LiveAt(every)
  BY DEF LocalBuf!States, LocalBuf!Stream!States, States, LocalBuf!Live, LiveAt
<1>2. LocalBuf!ProcessSkip(d, e, every)
  BY BufferOfLocal
<1>3. /\ history \in [LocalBuf!Slots -> [LocalBuf!States -> {0, 1}]]
      /\ localIndex \in LocalBuf!Slots
      /\ d \in [LocalBuf!States -> {0, 1}] /\ e \in [LocalBuf!States -> 0 .. DistanceMax]
  BY <1>1 DEF LocalBuf!RingInv
<1>4. /\ localCounter' \in 0 .. RenormalizeInterval - 1
      /\ LocalBuf!RoundRecorded(d, e, every)
  BY <1>2, <1>3, LocalAssumptions, LocalBuf!RoundMetrics
<1>5. LocalBuf!RingInv'
  BY <1>2, <1>3, LocalAssumptions, LocalBuf!RingRound
<1> QED BY <1>1, <1>4, <1>5 DEF Recorded, Lowers, LocalBuf!RoundRecorded

\* The loops, the pointers and the skip in the SSE decoder's steps.
LEMMA SseKeepsLoops ==
    ASSUME LoopsInv, Buffered, SkipFollowsLoop, Load \/ SseInnerRound \/ Store
    PROVE  LoopsInv' /\ Buffered' /\ SkipFollowsLoop'
<1>0. [SseNext]_sseVars
  BY DEF SseNext, SseStep
<1>1. LoopsInv' /\ Buffered'
  BY <1>0, DecoderKeepsLoops, BufferedSseStep
<1>2. CASE Load
  <2>1. skip' = skip /\ phase = "warmup" /\ phase' = "inner"
    BY <1>2 DEF Load, Schedule!WarmupEnd, ringVars
  <2> QED BY <1>1, <2>1 DEF SkipFollowsLoop
<1>3. CASE SseInnerRound
  <2>1. skip' = 1 /\ phase' = "inner"
    BY <1>3 DEF SseInnerRound, Schedule!InnerRound
  <2> QED BY <1>1, <2>1 DEF SkipFollowsLoop
<1>4. CASE Store
  <2>1. /\ skip' = skip /\ phase = "inner" /\ phase' = "tail"
        /\ i' = sets - order + 1 /\ sets' = sets /\ order' = order
    BY <1>4 DEF Store, Schedule!EndInner, Schedule!TailStart
  <2>2. i' - (sets' - order' + 1) = 0
    BY <2>1, LoopFacts
  <2> QED BY <1>1, <2>1, <2>2, PowerZero DEF SkipFollowsLoop
<1> QED BY <1>2, <1>3, <1>4

\* A new codec.
LEMMA SseInvInit ==
    ASSUME SseInit
    PROVE  SseInv
<1>1. PlainInv /\ phase = "idle"
  BY PlainInvInit DEF SseInit, Init, Schedule!Init
<1> QED BY <1>1 DEF SseInv, PlainInv, InInner

\* The steps the two decoders share.
LEMMA SharedStep ==
    ASSUME SseNext, ~(Load \/ SseInnerRound \/ Store)
    PROVE  /\ Next /\ UNCHANGED localVars
           /\ phase # "inner" /\ phase' # "inner"
           /\ ~LoopEnd /\ ~InnerRound
<1>1. CASE WarmupRound /\ UNCHANGED localVars
  <2>1. phase = "warmup" /\ phase' = "warmup" /\ i' = i + 1
    BY <1>1 DEF WarmupRound, Schedule!WarmupRound, Schedule!Read
  <2> QED BY <1>1, <2>1 DEF Next, Step, LoopEnd, InnerRound, Schedule!WarmupEnd,
                            Schedule!EndInner, Schedule!InnerRound
<1>2. CASE TailRound /\ UNCHANGED localVars
  <2>1. phase = "tail" /\ phase' = "tail"
    BY <1>2 DEF TailRound, Schedule!TailRound
  <2> QED BY <1>2, <2>1 DEF Next, Step, LoopEnd, InnerRound, Schedule!WarmupEnd,
                            Schedule!EndInner, Schedule!InnerRound
<1>3. CASE Finish /\ UNCHANGED localVars
  <2>1. phase = "tail" /\ phase' = "done"
    BY <1>3 DEF Finish, Schedule!Finish
  <2> QED BY <1>3, <2>1 DEF Next, Step, LoopEnd, InnerRound, Schedule!WarmupEnd,
                            Schedule!EndInner, Schedule!InnerRound
<1>4. CASE (\E b \in Pending : Start(b)) /\ UNCHANGED localVars
  <2>1. phase \in {"idle", "done"} /\ phase' = "warmup"
    BY <1>4 DEF Start, Schedule!Start
  <2> QED BY <1>4, <2>1 DEF Next, Step, LoopEnd, InnerRound, Schedule!WarmupEnd,
                            Schedule!EndInner, Schedule!InnerRound
<1>5. CASE Done /\ UNCHANGED localVars
  <2>1. phase = "done" /\ phase' = "done"
    BY <1>5 DEF Done, vars, scheduleVars
  <2> QED BY <1>5, <2>1 DEF Next, Step, LoopEnd, InnerRound, Schedule!WarmupEnd,
                            Schedule!EndInner, Schedule!InnerRound
<1> QED BY <1>1, <1>2, <1>3, <1>4, <1>5 DEF SseNext, SseStep

\* The steps that hand the ring over.
LEMMA SseHandsOver ==
    ASSUME SseInv, Load \/ Store
    PROVE  SseInv'
<1>0. Arrays /\ LoopsInv /\ Buffered /\ SkipFollowsLoop
  BY DEF SseInv, Arrays
<1>1. LoopsInv' /\ Buffered' /\ SkipFollowsLoop'
  BY <1>0, SseKeepsLoops
<1>2. /\ Schedule!WarmupEnd \/ Schedule!EndInner
      /\ UNCHANGED <<errors, read, skip, slices, block, history, out>>
  BY DEF Load, Store, errorVars, ringVars
<1>3. sets' = sets /\ phase # "idle"
  BY <1>2 DEF Schedule!WarmupEnd, Schedule!EndInner
<1>4. phase' \in {"inner", "tail"}
  BY <1>2 DEF Schedule!WarmupEnd, Schedule!EndInner
<1>5. Arrays'
  BY <1>0, <1>1, <1>2, <1>3, <1>4 DEF Arrays
<1>6. ASSUME NEW c, Counted(c)
      PROVE  /\ c \in 0 .. RenormalizeInterval - 1
             /\ Tracks(phase', block', i', c, skip', errors'[read'], slices')
  <2>1. c \in Nat /\ c \in 0 .. RenormalizeInterval - 1
        /\ Tracks(phase, block, i, c, skip, errors[read], slices)
    BY <1>3, <1>6, RingAssumption DEF Counted
  <2> QED BY <1>0, <1>2, <2>1, MeasuredLoopEnd
<1>7. CASE Load
  <2>1. /\ phase = "warmup" /\ phase' = "inner"
        /\ localIndex' = ringIndex /\ localLen' = len
        /\ localCounter' = renormalizeCounter
    BY <1>7 DEF Load, Schedule!WarmupEnd
  <2>2. Buf!RingInv /\ Counted(renormalizeCounter)
    BY <2>1 DEF SseInv, InInner
  <2>3. LocalBuf!RingInv'
    BY <1>2, <2>1, <2>2, RingMoves
  <2> DEFINE c == renormalizeCounter
  <2>4. /\ c \in 0 .. RenormalizeInterval - 1
        /\ Tracks(phase', block', i', c, skip', errors'[read'], slices')
    BY <2>2, <1>6
  <2>5. Counted(localCounter)'
    BY <2>1, <2>4 DEF Counted
  <2> QED BY <1>5, <2>1, <2>3, <2>5 DEF SseInv, InInner
<1>8. CASE Store
  <2>1. /\ phase = "inner" /\ phase' = "tail"
        /\ ringIndex' = localIndex /\ len' = localLen
        /\ renormalizeCounter' = localCounter
    BY <1>8 DEF Store, Schedule!EndInner
  <2>2. LocalBuf!RingInv /\ Counted(localCounter)
    BY <2>1 DEF SseInv, InInner
  <2>3. Buf!RingInv'
    BY <1>2, <2>1, <2>2, RingMoves
  <2> DEFINE c == localCounter
  <2>4. /\ c \in 0 .. RenormalizeInterval - 1
        /\ Tracks(phase', block', i', c, skip', errors'[read'], slices')
    BY <2>2, <1>6
  <2>5. Counted(renormalizeCounter)'
    BY <2>1, <2>4 DEF Counted
  <2> QED BY <1>5, <2>1, <2>3, <2>5 DEF SseInv, InInner
<1> QED BY <1>7, <1>8

\* A round of the SSE inner loop, past the history buffer or not, keeps the
\* invariant.
LEMMA SseRoundKeeps ==
    ASSUME TapsNewest, SseRangeIsEnough, SseInv, SseInnerRound
    PROVE  SseInv'
<1> DEFINE d == SearchBits(DirectDistances, 0)
           e == SearchErrors(DirectDistances, 1, 0)
<1>1. /\ phase = "inner" /\ phase' = "inner" /\ i < sets /\ i' = i + 1
      /\ UNCHANGED <<sets, block>>
      /\ LocalRing!ProcessSkip(d, e, 1) /\ Chosen(d, e, 1)
      /\ skip' = 1 /\ Errors!Round(distances')
  BY SseRoundIsSearch
<1> HIDE DEF d, e
<1>2. Arrays /\ LocalBuf!RingInv /\ Counted(localCounter)
  BY <1>1 DEF SseInv, InInner
<1>3. LoopsInv' /\ Buffered' /\ SkipFollowsLoop'
  BY <1>2, SseKeepsLoops DEF Arrays
<1>4. localCounter \in 0 .. RenormalizeInterval - 1
  BY <1>2 DEF Counted
<1>5. d \in [States -> {0, 1}] /\ e \in [States -> 0 .. DistanceMax]
  BY <1>1 DEF Chosen
<1>6. /\ LocalBuf!RingInv' /\ localCounter' \in 0 .. RenormalizeInterval - 1
      /\ Recorded(d, e, 1, localCounter, localCounter')
  BY <1>1, <1>2, <1>4, <1>5, LocalRecords
<1>7. ComesFrom(1, skip)
  BY <1>1, <1>2, RoundSkips
<1> DEFINE c == localCounter
           c2 == localCounter'
           every == 1
<1>8. Counted(c) /\ c2 \in 0 .. RenormalizeInterval - 1 /\ Recorded(d, e, every, c, c2)
      /\ ComesFrom(every, skip) /\ skip' = every /\ Chosen(d, e, every)
  BY <1>1, <1>2, <1>6, <1>7
<1>9. RangeIsEnough /\ phase \in {"inner", "tail"} /\ UNCHANGED <<phase, sets, block>>
  BY <1>1, HalfRange
<1>10. /\ errors' \in [{0, 1} -> [States -> 0 .. DistanceMax]]
       /\ slices' \in Seq([States -> {0, 1}])
       /\ Tracks(phase', block', i', c2, skip', errors'[read'], slices')
  <2> HIDE DEF c, c2, every
  <2> QED BY <1>1, <1>2, <1>8, <1>9, RoundKeeps
<1>11. Counted(localCounter)'
  BY <1>6, <1>10 DEF Counted
<1>12. block \in Inputs /\ sets = Len(block.symbols)
  BY <1>1, <1>2 DEF Arrays
<1>13. Arrays'
  BY <1>1, <1>3, <1>10, <1>12 DEF Arrays
<1> QED BY <1>1, <1>6, <1>11, <1>13 DEF SseInv, InInner

\* Every step of the SSE decoder keeps the invariant.
LEMMA SseInvStep ==
    ASSUME TapsNewest, SseRangeIsEnough, SseInv, [SseNext]_sseVars
    PROVE  SseInv'
<1>1. CASE Load \/ Store
  BY <1>1, SseHandsOver
<1>2. CASE SseInnerRound
  BY <1>2, SseRoundKeeps
<1>3. CASE SseNext /\ ~(Load \/ SseInnerRound \/ Store)
  <2>1. Next /\ phase # "inner" /\ phase' # "inner"
    BY <1>3, SharedStep
  <2>2. PlainInv
    BY <2>1 DEF SseInv, InInner, PlainInv
  <2>3. PlainInv'
    BY <2>1, <2>2, HalfRange, PlainInvStep
  <2> QED BY <2>1, <2>3 DEF SseInv, InInner, PlainInv
<1>4. CASE UNCHANGED sseVars
  <2>0. Arrays /\ LoopsInv /\ Buffered /\ SkipFollowsLoop
    BY DEF SseInv, Arrays
  <2>1. UNCHANGED <<errors, read, phase, i, sets, order, block, skip, slices, renormalizeCounter,
                    localCounter, localIndex, localLen, ringIndex, len, history, out>>
    BY <1>4 DEF sseVars, localVars, vars, scheduleVars, errorVars, ringVars
  <2>2. LoopsInv' /\ Buffered'
    BY <2>0, DecoderKeepsLoops, BufferedSseStep
  <2>3. SkipFollowsLoop'
    BY <2>0, <2>1 DEF SkipFollowsLoop
  <2>4. Arrays'
    BY <2>0, <2>1, <2>2, <2>3 DEF Arrays
  <2>5. CASE phase = "inner"
    <3>1. LocalBuf!RingInv /\ Counted(localCounter)
      BY <2>5 DEF SseInv, InInner
    <3>2. LocalBuf!RingInv'
      BY <2>1, <3>1 DEF LocalBuf!RingInv, LocalBuf!RingHoldsUndecided, LocalBuf!RingView,
                        LocalBuf!Back, LocalBuf!Stream!Undecided
    <3>3. Counted(localCounter)'
      BY <2>1, <3>1 DEF Counted
    <3> QED BY <2>1, <2>4, <2>5, <3>2, <3>3 DEF SseInv, InInner
  <2>6. CASE phase # "inner"
    <3>1. Buf!RingInv /\ Counted(renormalizeCounter)
      BY <2>6 DEF SseInv, InInner
    <3>2. Buf!RingInv'
      BY <2>1, <3>1 DEF Buf!RingInv, Buf!RingHoldsUndecided, Buf!RingView,
                        Buf!Back, Buf!Stream!Undecided
    <3>3. Counted(renormalizeCounter)'
      BY <2>1, <3>1 DEF Counted
    <3> QED BY <2>1, <2>4, <2>6, <3>2, <3>3 DEF SseInv, InInner
  <2> QED BY <2>5, <2>6
<1> QED BY <1>1, <1>2, <1>3, <1>4

\* The invariant keeps every sum of a round below the sign bit.
LEMMA SseInvIsPositive ==
    ASSUME TapsNewest, SseRangeIsEnough, SseInv
    PROVE  SumsStayPositive
<1> SUFFICES ASSUME InInner, i < Schedule!InnerEnd, NEW r \in Registers
             PROVE  PathError(OctDistances, r) <= DistanceMax \div 2
  BY DEF SumsStayPositive
<1>1. phase = "inner" /\ Arrays /\ Counted(localCounter)
  BY DEF SseInv, InInner
<1>2. i < sets
  <2>1. sets \in Nat /\ i \in Nat /\ Schedule!InnerEnd = sets - T
    BY <1>1, RoundFacts
  <2> QED BY <2>1, TrellisFacts
<1>3. PathError(DirectDistances, r) <= DistanceMax \div 2
  BY <1>1, <1>2, SumsPositive
<1> QED BY <1>3, LookupsAgree, SseOrderAssumption

\* sse/cv_decode.c:247 and the comparison at 107: in every round of the inner loop
\* no sum reaches the sign bit, for every code whose polynomials tap the newest bit
\* and every interval that leaves the sums of one round their half of the range.
THEOREM SumsStayPositiveCorrect ==
    ASSUME TapsNewest, SseRangeIsEnough
    PROVE  SseSpec => []SumsStayPositive
<1>1. SseInit => SseInv
  BY SseInvInit
<1>2. SseInv /\ [SseNext]_sseVars => SseInv'
  BY SseInvStep
<1>3. SseInv => SumsStayPositive
  BY SseInvIsPositive
<1> QED BY <1>1, <1>2, <1>3, PTL DEF SseSpec

\* history_buffer_process_skip on a ring whose fields are where the arguments say,
\* before the call and after it.
RoundOf(at, at2, n, n2, c, c2, d, dist, every) ==
    LET filled == [history EXCEPT ![at] = Ring!Filled(history[at], d, every)]
        best   == Ring!Search(dist, every)
        view   == Ring!RingView(filled, Ring!NextIndex(at), n + 1)
    IN  /\ history' = filled
        /\ at2 = Ring!NextIndex(at)
        /\ handed' = dist
        /\ IF c + 1 = RenormalizeInterval
           THEN /\ c2 = 0
                /\ distances' = Ring!Renormalized(dist, best)
           ELSE /\ c2 = c + 1
                /\ distances' = dist
        /\ IF n + 1 = Ring!Cap
           THEN /\ out' = out \o Ring!Decided(view, best, MinTraceback)
                /\ n2 = Ring!LenAfterTraceback(n + 1)
                /\ merged' = (merged /\ Ring!Merged(view, every))
           ELSE /\ n2 = n + 1
                /\ UNCHANGED <<out, merged>>
        /\ slices' = Append(slices, filled[at])

\* A call of the history buffer in the warm-up and the tail is RoundOf the fields.
LEMMA RoundOfRing ==
    ASSUME NEW d, NEW dist, NEW every
    PROVE  Ring!ProcessSkip(d, dist, every)
               = RoundOf(ringIndex, ringIndex', len, len', renormalizeCounter,
                         renormalizeCounter', d, dist, every)
  BY DEF Ring!ProcessSkip, RoundOf

\* ... in the SSE inner loop, RoundOf the local copies.
LEMMA RoundOfLocal ==
    ASSUME NEW d, NEW dist, NEW every
    PROVE  LocalRing!ProcessSkip(d, dist, every)
               = RoundOf(localIndex, localIndex', localLen, localLen', localCounter,
                         localCounter', d, dist, every)
  BY DEF LocalRing!ProcessSkip, RoundOf, Ring!Cap, LocalRing!Cap, Ring!States, LocalRing!States,
         Ring!Live, LocalRing!Live, Ring!Back, LocalRing!Back,
         Ring!NextIndex, LocalRing!NextIndex, Ring!RingView, LocalRing!RingView,
         Ring!Walk, LocalRing!Walk, Ring!Decided, LocalRing!Decided,
         Ring!Merged, LocalRing!Merged, Ring!Search, LocalRing!Search,
         Ring!Renormalized, LocalRing!Renormalized, Ring!Filled, LocalRing!Filled,
         Ring!LenAfterTraceback, LocalRing!LenAfterTraceback,
         Ring!Stream!States, LocalRing!Stream!States,
         Ring!Stream!PathBit, LocalRing!Stream!PathBit,
         Ring!Stream!Predecessor, LocalRing!Stream!Predecessor,
         Ring!Stream!Walk, LocalRing!Stream!Walk,
         Ring!Stream!Decided, LocalRing!Stream!Decided,
         Ring!Stream!Undecided, LocalRing!Stream!Undecided

\* The ring's fields as Plain has them.
AtOf == IF InInner THEN localIndex ELSE ringIndex
LenOf == IF InInner THEN localLen ELSE len
CounterOf == IF InInner THEN localCounter ELSE renormalizeCounter

\* ... in the plain decoder, RoundOf what the refinement takes for the fields.
LEMMA RoundOfPlain ==
    ASSUME NEW d, NEW dist, NEW every
    PROVE  Plain!Ring!ProcessSkip(d, dist, every)
               = RoundOf(AtOf, AtOf', LenOf, LenOf', CounterOf, CounterOf', d, dist, every)
  BY DEF Plain!Ring!ProcessSkip, RoundOf, AtOf, LenOf, CounterOf, Plain!Highbit, Highbit,
         Ring!Cap, Plain!Ring!Cap, Ring!States, Plain!Ring!States,
         Ring!Live, Plain!Ring!Live, Ring!Back, Plain!Ring!Back,
         Ring!NextIndex, Plain!Ring!NextIndex, Ring!RingView, Plain!Ring!RingView,
         Ring!Walk, Plain!Ring!Walk, Ring!Decided, Plain!Ring!Decided,
         Ring!Merged, Plain!Ring!Merged, Ring!Search, Plain!Ring!Search,
         Ring!Renormalized, Plain!Ring!Renormalized, Ring!Filled, Plain!Ring!Filled,
         Ring!LenAfterTraceback, Plain!Ring!LenAfterTraceback,
         Ring!Stream!States, Plain!Ring!Stream!States,
         Ring!Stream!PathBit, Plain!Ring!Stream!PathBit,
         Ring!Stream!Predecessor, Plain!Ring!Stream!Predecessor,
         Ring!Stream!Walk, Plain!Ring!Stream!Walk,
         Ring!Stream!Decided, Plain!Ring!Stream!Decided,
         Ring!Stream!Undecided, Plain!Ring!Stream!Undecided

\* What the refinement takes for the fields, in each phase.
LEMMA FieldsOf ==
    /\ phase # "inner" => AtOf = ringIndex /\ LenOf = len /\ CounterOf = renormalizeCounter
    /\ phase = "inner" => AtOf = localIndex /\ LenOf = localLen /\ CounterOf = localCounter
    /\ phase' # "inner" => /\ AtOf' = ringIndex' /\ LenOf' = len'
                           /\ CounterOf' = renormalizeCounter'
    /\ phase' = "inner" => /\ AtOf' = localIndex' /\ LenOf' = localLen'
                           /\ CounterOf' = localCounter'
  BY DEF AtOf, LenOf, CounterOf, InInner

\* Plain's ring is that of the local variables in the inner loop.
LEMMA PlainRingInside ==
    ASSUME phase = "inner", phase' = "inner", NEW d, NEW dist, NEW every,
           LocalRing!ProcessSkip(d, dist, every)
    PROVE  Plain!Ring!ProcessSkip(d, dist, every)
<1>1. RoundOf(localIndex, localIndex', localLen, localLen', localCounter,
              localCounter', d, dist, every)
  BY RoundOfLocal
<1>2. /\ AtOf = localIndex /\ LenOf = localLen /\ CounterOf = localCounter
      /\ AtOf' = localIndex' /\ LenOf' = localLen' /\ CounterOf' = localCounter'
  BY FieldsOf
<1>3. RoundOf(AtOf, AtOf', LenOf, LenOf', CounterOf, CounterOf', d, dist, every)
  BY <1>1, <1>2
<1> QED BY <1>3, RoundOfPlain

\* Elsewhere it is the codec's.
LEMMA PlainRingOutside ==
    ASSUME phase # "inner", phase' # "inner"
    PROVE  /\ \A d, dist, every : Ring!ProcessSkip(d, dist, every)
                                      => Plain!Ring!ProcessSkip(d, dist, every)
           /\ Ring!Reset => Plain!Ring!Reset
           /\ Ring!Flush => Plain!Ring!Flush
<1>0. /\ AtOf = ringIndex /\ LenOf = len /\ CounterOf = renormalizeCounter
      /\ AtOf' = ringIndex' /\ LenOf' = len' /\ CounterOf' = renormalizeCounter'
  BY FieldsOf
<1>1. ASSUME NEW d, NEW dist, NEW every, Ring!ProcessSkip(d, dist, every)
      PROVE  Plain!Ring!ProcessSkip(d, dist, every)
  <2>1. RoundOf(ringIndex, ringIndex', len, len', renormalizeCounter,
                renormalizeCounter', d, dist, every)
    BY <1>1, RoundOfRing
  <2>2. RoundOf(AtOf, AtOf', LenOf, LenOf', CounterOf, CounterOf', d, dist, every)
    BY <1>0, <2>1
  <2> QED BY <2>2, RoundOfPlain
<1>2. Ring!Reset => Plain!Ring!Reset
  BY <1>0 DEF Ring!Reset, Plain!Ring!Reset, AtOf, LenOf, CounterOf
<1>3. ASSUME Ring!Flush PROVE Plain!Ring!Flush
  <2> DEFINE bits == Ring!Decided(Ring!RingView(history, ringIndex, len), 0, 0)
             more == Plain!Ring!Decided(Plain!Ring!RingView(history, AtOf, LenOf), 0, 0)
  <2>1. more = Ring!Decided(Ring!RingView(history, AtOf, LenOf), 0, 0)
    BY DEF Ring!Decided, Plain!Ring!Decided, Ring!RingView, Plain!Ring!RingView,
           Ring!Back, Plain!Ring!Back, Ring!Cap, Plain!Ring!Cap, Plain!Highbit, Highbit,
           Ring!Stream!States, Plain!Ring!Stream!States,
           Ring!Stream!PathBit, Plain!Ring!Stream!PathBit,
           Ring!Stream!Predecessor, Plain!Ring!Stream!Predecessor,
           Ring!Stream!Walk, Plain!Ring!Stream!Walk,
           Ring!Stream!Decided, Plain!Ring!Stream!Decided
  <2>2. more = bits
    BY <1>0, <2>1
  <2>3. /\ skip = Highbit /\ skip' = 0 /\ out' = out \o bits /\ len' = 0
        /\ UNCHANGED <<history, ringIndex, renormalizeCounter, distances,
                       slices, handed, merged>>
    BY <1>3 DEF Ring!Flush
  <2>4. Plain!Highbit = Highbit
    BY DEF Plain!Highbit, Highbit
  <2> HIDE DEF bits, more
  <2>5. /\ skip = Plain!Highbit /\ skip' = 0 /\ out' = out \o more /\ LenOf' = 0
        /\ UNCHANGED <<history, distances, slices, handed, merged>>
        /\ AtOf' = AtOf /\ CounterOf' = CounterOf
    BY <1>0, <2>2, <2>3, <2>4
  <2> QED BY <2>5 DEF Plain!Ring!Flush, more, AtOf, LenOf, CounterOf
<1> QED BY <1>1, <1>2, <1>3

\* What does not touch the ring is the same in Plain.
LEMMA PlainMetrics ==
    /\ Plain!DirectDistances = DirectDistances
    /\ Plain!PairDistances = PairDistances
    /\ Plain!WarmupMetrics = WarmupMetrics
<1> USE DEF Plain!DirectDistances, DirectDistances, Plain!OutputDistances, OutputDistances,
            Plain!Outputs, Outputs, Plain!Table, Table, Plain!Registers, Registers,
            Plain!Parity, Parity, Plain!BitOf, BitOf, Plain!Distance, Distance,
            Plain!LinearDistance, LinearDistance, Plain!HardDistance, HardDistance,
            Plain!Capped, Capped, Plain!Total, Total, Plain!Gap, Gap,
            Plain!Cardinality, Cardinality
<1>1. Plain!DirectDistances = DirectDistances
  OBVIOUS
<1>2. Plain!PairDistances = PairDistances
  BY DEF Plain!PairDistances, PairDistances, Plain!FillDistance, FillDistance,
         Plain!PairOutputs, PairOutputs, Plain!PairKeys, PairKeys,
         Plain!GroupOutputs, GroupOutputs, Plain!GroupKeys, GroupKeys, Plain!Group, Group,
         Plain!IfNew, IfNew
<1>3. Plain!WarmupMetrics = WarmupMetrics
  BY DEF Plain!WarmupMetrics, WarmupMetrics, Plain!PathError, PathError, Plain!Sum, Sum,
         Plain!LowRegister, LowRegister, Plain!Warm, Warm,
         Plain!States, States, Plain!Highbit, Highbit
<1> QED BY <1>1, <1>2, <1>3

\* Both decoders search in the same way.
LEMMA PlainSearch ==
    ASSUME NEW far, NEW every, NEW tie
    PROVE  /\ Plain!LowErrors(far) = LowErrors(far)
           /\ Plain!HighErrors(far) = HighErrors(far)
           /\ \A s : Plain!Better(LowErrors(far), HighErrors(far), s, tie)
                         = Better(LowErrors(far), HighErrors(far), s, tie)
           /\ Plain!States = States
<1>1. Plain!LowErrors(far) = LowErrors(far)
  BY DEF Plain!LowErrors, LowErrors, Plain!PathError, PathError, Plain!Sum, Sum,
         Plain!LowRegister, LowRegister, Plain!States, States, Plain!Highbit, Highbit
<1>2. Plain!HighErrors(far) = HighErrors(far)
  BY DEF Plain!HighErrors, HighErrors, Plain!PathError, PathError, Plain!Sum, Sum,
         Plain!HighRegister, HighRegister, Plain!States, States, Plain!Highbit, Highbit
<1>3. ASSUME NEW s
      PROVE  Plain!Better(LowErrors(far), HighErrors(far), s, tie)
                 = Better(LowErrors(far), HighErrors(far), s, tie)
  BY DEF Plain!Better, Better
<1>4. Plain!States = States
  BY DEF Plain!States, States, Plain!Highbit, Highbit
<1> QED BY <1>1, <1>2, <1>3, <1>4

\* What Plain's search hands to the ring.
LEMMA PlainSearchIs ==
    ASSUME NEW far, NEW every, NEW tie,
           Plain!Ring!ProcessSkip(SearchBits(far, tie), SearchErrors(far, every, tie), every),
           skip' = every, Errors!Round(distances')
    PROVE  Plain!Search(far, every, tie)
<1> DEFINE b(s) == Better(LowErrors(far), HighErrors(far), s, tie)
           survivor == [s \in States |-> b(s)]
           e == [s \in States |-> IF s % every = 0 THEN survivor[s].error
                                  ELSE errors[write][s]]
           d == [s \in States |-> survivor[s].bit]
<1>1. d = SearchBits(far, tie) /\ e = SearchErrors(far, every, tie)
  <2>1. \A s \in States : survivor[s] = b(s)
    OBVIOUS
  <2>2. /\ SearchBits(far, tie) = [s \in States |-> b(s).bit]
        /\ SearchErrors(far, every, tie)
               = [s \in States |-> IF s % every = 0 THEN b(s).error ELSE errors[write][s]]
    BY DEF SearchBits, SearchErrors
  <2> HIDE DEF b, survivor
  <2> QED BY <2>1, <2>2
<1>2. Plain!Search(far, every, tie)
          = (/\ Plain!Ring!ProcessSkip(d, e, every)
             /\ skip' = every
             /\ Plain!Errors!Round(distances'))
  BY PlainSearch DEF Plain!Search
<1>3. Plain!Errors!Round(distances')
  BY DEF Errors!Round, Plain!Errors!Round, Errors!Swap, Plain!Errors!Swap
<1> HIDE DEF d, e
<1> QED BY <1>1, <1>2, <1>3

\* The parts of the plain decoder that the refinement leaves as they are.
LEMMA PlainElse ==
    /\ Plain!TailSkip = TailSkip
    /\ \A m : Errors!Round(m) => Plain!Errors!Round(m)
    /\ Errors!Reset => Plain!Errors!Reset
    /\ Plain!Pending = Pending
    /\ Plain!errorVars = errorVars /\ Plain!errorVars' = errorVars'
    /\ Plain!scheduleVars = scheduleVars /\ Plain!scheduleVars' = scheduleVars'
<1>1. Plain!TailSkip = TailSkip /\ Plain!Pending = Pending
  BY DEF Plain!TailSkip, TailSkip, Plain!Pending, Pending
<1>2. ASSUME NEW m, Errors!Round(m) PROVE Plain!Errors!Round(m)
  BY <1>2 DEF Errors!Round, Plain!Errors!Round, Errors!Swap, Plain!Errors!Swap
<1>3. ASSUME Errors!Reset PROVE Plain!Errors!Reset
  <2>1. Plain!Zero = Zero
    BY DEF Plain!Zero, Zero, Plain!States, States, Plain!Highbit, Highbit
  <2> QED BY <1>3, <2>1 DEF Errors!Reset, Plain!Errors!Reset, Errors!Cleared,
                            Plain!Errors!Cleared
<1>4. /\ Plain!errorVars = errorVars /\ Plain!errorVars' = errorVars'
      /\ Plain!scheduleVars = scheduleVars /\ Plain!scheduleVars' = scheduleVars'
  BY DEF Plain!errorVars, errorVars, Plain!scheduleVars, scheduleVars
<1> QED BY <1>1, <1>2, <1>3, <1>4

\* A new SSE codec is a new plain codec.
LEMMA PlainInit ==
    ASSUME SseInit
    PROVE  Plain!Init
<1>1. /\ order = Order /\ Schedule!Init /\ Errors!Init /\ Ring!Init
      /\ block = [sent |-> <<>>, symbols |-> <<>>, soft |-> FALSE, flips |-> 0]
      /\ decodes = 0
  BY DEF SseInit, Init
<1>2. Plain!Schedule!Init
  BY <1>1 DEF Schedule!Init, Plain!Schedule!Init
<1>3. Plain!Errors!Init
  <2>1. Plain!Zero = Zero
    BY DEF Plain!Zero, Zero, Plain!States, States, Plain!Highbit, Highbit
  <2> QED BY <1>1, <2>1 DEF Errors!Init, Plain!Errors!Init
<1>4. Plain!Ring!Init
  <2>1. phase # "inner"
    BY <1>1 DEF Schedule!Init
  <2>2. AtOf = 0 /\ LenOf = 0 /\ CounterOf = 0
    BY <1>1, <2>1, FieldsOf DEF Ring!Init
  <2>3. Plain!Ring!Slots = Ring!Slots /\ Plain!Ring!States = Ring!States
    BY DEF Plain!Ring!Slots, Ring!Slots, Plain!Ring!States, Ring!States, Plain!Ring!Cap, Ring!Cap,
           Plain!Ring!Stream!States, Ring!Stream!States, Plain!Highbit, Highbit
  <2> QED BY <1>1, <2>2, <2>3 DEF Ring!Init, Plain!Ring!Init, AtOf, LenOf, CounterOf
<1> QED BY <1>1, <1>2, <1>3, <1>4 DEF Plain!Init

\* The schedule is the same.
LEMMA PlainSchedule ==
    /\ \A n : Schedule!Start(n) => Plain!Schedule!Start(n)
    /\ Schedule!WarmupRound => Plain!Schedule!WarmupRound
    /\ Schedule!WarmupEnd => Plain!Schedule!WarmupEnd
    /\ Schedule!InnerRound => Plain!Schedule!InnerRound
    /\ Schedule!EndInner => Plain!Schedule!EndInner
    /\ Schedule!TailRound => Plain!Schedule!TailRound
    /\ Schedule!Finish => Plain!Schedule!Finish
  BY DEF Schedule!Start, Plain!Schedule!Start, Schedule!WarmupRound, Plain!Schedule!WarmupRound,
         Schedule!WarmupEnd, Plain!Schedule!WarmupEnd, Schedule!InnerRound,
         Plain!Schedule!InnerRound, Schedule!EndInner, Plain!Schedule!EndInner,
         Schedule!TailRound, Plain!Schedule!TailRound, Schedule!Finish, Plain!Schedule!Finish,
         Schedule!Read, Plain!Schedule!Read, Schedule!InnerEnd, Plain!Schedule!InnerEnd,
         Schedule!TailStart, Plain!Schedule!TailStart

\* A step the decoders share.
LEMMA PlainShared ==
    ASSUME Next, ~LoopEnd, ~InnerRound, phase # "inner", phase' # "inner"
    PROVE  Plain!Next
<1>0. UNCHANGED ringVars => UNCHANGED Plain!ringVars
  <2>1. ASSUME UNCHANGED ringVars
        PROVE  /\ AtOf' = AtOf /\ LenOf' = LenOf /\ CounterOf' = CounterOf
               /\ UNCHANGED <<history, out, skip, slices, handed, merged>>
    BY <2>1, FieldsOf DEF ringVars
  <2> QED BY <2>1 DEF Plain!ringVars, AtOf, LenOf, CounterOf
<1>1. ASSUME NEW b \in Pending, Start(b) PROVE Plain!Next
  <2>1. /\ decodes < MaxDecodes /\ Schedule!Start(Len(b.symbols)) /\ Errors!Reset
        /\ Ring!Reset /\ block' = b /\ decodes' = decodes + 1
    BY <1>1 DEF Start
  <2>2. /\ Plain!Schedule!Start(Len(b.symbols)) /\ Plain!Errors!Reset /\ Plain!Ring!Reset
    BY <2>1, PlainSchedule, PlainElse, PlainRingOutside
  <2>3. Plain!Start(b)
    BY <2>1, <2>2 DEF Plain!Start
  <2>4. b \in Plain!Pending
    BY PlainElse
  <2> QED BY <2>3, <2>4 DEF Plain!Next
<1>2. ASSUME WarmupRound PROVE Plain!Next
  <2>1. Schedule!WarmupRound /\ Errors!Round(WarmupMetrics) /\ UNCHANGED ringVars
        /\ UNCHANGED <<block, decodes>>
    BY <1>2 DEF WarmupRound
  <2>2. Plain!Errors!Round(Plain!WarmupMetrics)
    BY <2>1, PlainElse, PlainMetrics
  <2> QED BY <1>0, <2>1, <2>2, PlainSchedule DEF Plain!WarmupRound, Plain!Next, Plain!Step
<1>3. ASSUME TailRound PROVE Plain!Next
  <2>1. Schedule!TailRound /\ Search(DirectDistances, TailSkip, 1) /\ UNCHANGED <<block, decodes>>
    BY <1>3 DEF TailRound
  <2> DEFINE far == DirectDistances
             every == TailSkip
  <2>2. /\ Ring!ProcessSkip(SearchBits(far, 1), SearchErrors(far, every, 1), every)
        /\ skip' = every /\ Errors!Round(distances')
    <3>1. Search(far, every, 1)
      BY <2>1
    <3> HIDE DEF far, every
    <3> QED BY <3>1, SearchHands
  <2>3. Plain!Ring!ProcessSkip(SearchBits(far, 1), SearchErrors(far, every, 1), every)
    <3> HIDE DEF far, every
    <3> QED BY <2>2, PlainRingOutside
  <2>4. Plain!Search(far, every, 1)
    <3> HIDE DEF far, every
    <3> QED BY <2>2, <2>3, PlainSearchIs
  <2>5. Plain!Search(Plain!DirectDistances, Plain!TailSkip, 1)
    BY <2>4, PlainMetrics, PlainElse
  <2> QED BY <2>1, <2>5, PlainSchedule DEF Plain!TailRound, Plain!Next, Plain!Step
<1>4. ASSUME Finish PROVE Plain!Next
  <2>1. Schedule!Finish /\ Ring!Flush /\ UNCHANGED errorVars /\ UNCHANGED <<block, decodes>>
    BY <1>4 DEF Finish
  <2>2. Plain!Ring!Flush /\ UNCHANGED Plain!errorVars
    BY <2>1, PlainRingOutside, PlainElse
  <2> QED BY <2>1, <2>2, PlainSchedule DEF Plain!Finish, Plain!Next, Plain!Step
<1>5. ASSUME Done PROVE Plain!Next
  <2>1. /\ phase = "done" /\ (decodes = MaxDecodes \/ block \notin Repeated)
        /\ UNCHANGED <<scheduleVars, errorVars, ringVars, distances, block, decodes>>
    BY <1>5 DEF Done, vars
  <2>2. UNCHANGED <<Plain!scheduleVars, Plain!errorVars, Plain!ringVars>>
    BY <1>0, <2>1, PlainElse
  <2> QED BY <2>1, <2>2 DEF Plain!Done, Plain!vars, Plain!Next
<1> QED BY <1>1, <1>2, <1>3, <1>4, <1>5 DEF Next, Step

\* Loading and storing the ring's fields moves none of them.
LEMMA PlainHandsOver ==
    ASSUME Load \/ Store
    PROVE  Plain!Next
<1>1. /\ Schedule!WarmupEnd \/ Schedule!EndInner
      /\ UNCHANGED <<errorVars, distances, block, decodes>>
      /\ UNCHANGED <<history, out, skip, slices, handed, merged>>
  BY DEF Load, Store, ringVars
<1>2. AtOf' = AtOf /\ LenOf' = LenOf /\ CounterOf' = CounterOf
  <2>1. CASE Load
    <3>1. /\ phase # "inner" /\ phase' = "inner"
          /\ localIndex' = ringIndex /\ localLen' = len /\ localCounter' = renormalizeCounter
      BY <2>1 DEF Load, Schedule!WarmupEnd
    <3> QED BY <3>1, FieldsOf
  <2>2. CASE Store
    <3>1. /\ phase = "inner" /\ phase' # "inner"
          /\ ringIndex' = localIndex /\ len' = localLen /\ renormalizeCounter' = localCounter
      BY <2>2 DEF Store, Schedule!EndInner
    <3> QED BY <3>1, FieldsOf
  <2> QED BY <2>1, <2>2
<1>3. UNCHANGED Plain!ringVars
  BY <1>1, <1>2 DEF Plain!ringVars, AtOf, LenOf, CounterOf
<1>4. UNCHANGED Plain!errorVars
  BY <1>1, PlainElse
<1>5. Plain!Schedule!WarmupEnd \/ Plain!Schedule!EndInner
  BY <1>1, PlainSchedule
<1> QED BY <1>1, <1>3, <1>4, <1>5 DEF Plain!LoopEnd, Plain!Next, Plain!Step

\* A round of the inner loop is a round of Plain's.
LEMMA PlainRound ==
    ASSUME TapsNewest, SseRangeIsEnough, SseInv, SseInnerRound
    PROVE  Plain!Next
<1> DEFINE far == DirectDistances
<1>1. /\ phase = "inner" /\ phase' = "inner"
      /\ UNCHANGED <<block, decodes>> /\ Schedule!InnerRound
      /\ LocalRing!ProcessSkip(SearchBits(far, 0), SearchErrors(far, 1, 0), 1)
      /\ skip' = 1 /\ Errors!Round(distances')
  BY SseRoundIsSearch
<1>2. far = Plain!PairDistances
  BY PlainMetrics, LookupsAgree
<1> HIDE DEF far
<1>3. Plain!Ring!ProcessSkip(SearchBits(far, 0), SearchErrors(far, 1, 0), 1)
  BY <1>1, PlainRingInside
<1>4. Plain!Search(far, 1, 0)
  BY <1>1, <1>3, PlainSearchIs
<1>5. Plain!Schedule!InnerRound
  BY <1>1, PlainSchedule
<1> QED BY <1>1, <1>2, <1>4, <1>5 DEF Plain!InnerRound, Plain!Next, Plain!Step

\* Where nothing changes, the plain decoder stands still.
LEMMA PlainStutters ==
    ASSUME UNCHANGED sseVars
    PROVE  UNCHANGED Plain!vars
<1>1. /\ UNCHANGED <<scheduleVars, errorVars, distances, block, decodes>>
      /\ UNCHANGED <<phase, history, out, skip, slices, handed, merged, ringIndex, len,
                     renormalizeCounter, localIndex, localLen, localCounter>>
  BY DEF sseVars, vars, localVars, ringVars, scheduleVars
<1>2. AtOf' = AtOf /\ LenOf' = LenOf /\ CounterOf' = CounterOf
  BY <1>1, FieldsOf
<1>3. UNCHANGED Plain!ringVars
  BY <1>1, <1>2 DEF Plain!ringVars, AtOf, LenOf, CounterOf
<1>4. UNCHANGED <<Plain!scheduleVars, Plain!errorVars>>
  BY <1>1, PlainElse
<1> QED BY <1>1, <1>3, <1>4 DEF Plain!vars

\* Every step of the SSE decoder is a step of the plain one, or none.
LEMMA PlainStep ==
    ASSUME TapsNewest, SseRangeIsEnough, SseInv, [SseNext]_sseVars
    PROVE  [Plain!Next]_(Plain!vars)
<1>1. CASE Load \/ Store
  BY <1>1, PlainHandsOver
<1>2. CASE SseInnerRound
  BY <1>2, PlainRound
<1>3. CASE SseNext /\ ~(Load \/ SseInnerRound \/ Store)
  BY <1>3, SharedStep, PlainShared
<1>4. CASE UNCHANGED sseVars
  BY <1>4, PlainStutters
<1> QED BY <1>1, <1>2, <1>3, <1>4

\* sse/cv_decode.c:6-10, 33-34, 97-226: with soft decisions the SSE decoder is the
\* plain one, step by step, if the fields of the ring are taken from the local
\* copies while the inner loop has them: signed comparisons decide as unsigned
\* ones, the lookups by eights give the same distances, and a round past the
\* history buffer leaves what a call of it would have left.
THEOREM SseRefinesPlain ==
    ASSUME TapsNewest, SseRangeIsEnough
    PROVE  SseSpec => ImplementsPlain
<1>1. SseInit => SseInv /\ Plain!Init
  BY SseInvInit, PlainInit
<1>2. SseInv /\ [SseNext]_sseVars => SseInv'
  BY SseInvStep
<1>3. SseInv /\ [SseNext]_sseVars => [Plain!Next]_(Plain!vars)
  BY PlainStep
<1> QED BY <1>1, <1>2, <1>3, PTL DEF SseSpec, ImplementsPlain
=============================================================================

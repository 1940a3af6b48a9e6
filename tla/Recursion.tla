------------------------------ MODULE Recursion ------------------------------
(***************************************************************************)
(* Induction over the naturals, stated with sets instead of operators so   *)
(* that a proof can cite it, and what follows from it for the two kinds of *)
(* recursion the models use: functions on an interval that starts at 0,    *)
(* among them sums, and powers of two, with the binary digits that they    *)
(* give a number and the register that bits are shifted into.              *)
(***************************************************************************)
EXTENDS Integers, Sequences, FiniteSets, FiniteSetTheorems, WellFoundedInduction, TLAPS

\* Every nonempty set of naturals has a least element.
LEMMA LeastNatural ==
    ASSUME NEW T \in SUBSET Nat, T # {}
    PROVE  \E x \in T : \A y \in T : x <= y
<1> DEFINE R == {p \in Nat \X Nat : p[1] < p[2]}
<1>1. IsWellFoundedOn(R, Nat)
  BY NatLessThanWellFounded DEF OpToRel
<1>2. \A x, y \in Nat : y < x => <<y, x>> \in R
  OBVIOUS
<1> HIDE DEF R
<1>3. PICK x \in T : \A y \in T : ~ (<<y, x>> \in R)
  BY <1>1, WFMin
<1>4. \A y \in T : ~ (y < x)
  BY <1>2, <1>3
<1>5. \A y \in T : x <= y
  BY <1>4
<1> QED
  BY <1>5

\* Induction: a set that holds 0 and with n also n + 1 holds every natural.
LEMMA SetInduction ==
    ASSUME NEW S, 0 \in S, \A n \in Nat : n \in S => n + 1 \in S
    PROVE  \A n \in Nat : n \in S
<1> DEFINE T == {n \in Nat : n \notin S}
<1> SUFFICES ASSUME T # {} PROVE FALSE
  OBVIOUS
<1>1. PICK n \in T : \A m \in T : n <= m
  BY LeastNatural
<1>2. n # 0 /\ n - 1 \in Nat /\ n - 1 \notin T
  BY <1>1
<1>3. n - 1 \in S
  BY <1>2
<1> QED
  BY <1>1, <1>2, <1>3

\* g gives, for every place in 1 .. n and every value before it, a value of T.
StepOn(g, n, T) == \A j \in 1 .. n, x \in T : g[<<j, x>>] \in T

\* f starts with c and takes the steps of g.
Follows(f, g, n, T, c) ==
    /\ f \in [0 .. n -> T]
    /\ f[0] = c
    /\ \A j \in 1 .. n : f[j] = g[<<j, f[j - 1]>>]

\* A first value and the steps after it determine a function on 0 .. n.
LEMMA RecursionExists ==
    ASSUME NEW T, NEW c \in T, NEW n \in Nat, NEW g, StepOn(g, n, T)
    PROVE  \E f : Follows(f, g, n, T, c)
<1> DEFINE Steps(f, k) == f[0] = c /\ \A j \in 1 .. k : f[j] = g[<<j, f[j - 1]>>]
           S == {k \in Nat : k <= n => \E f \in [0 .. k -> T] : Steps(f, k)}
<1>1. 0 \in S
  <2>1. [j \in 0 .. 0 |-> c] \in [0 .. 0 -> T] /\ Steps([j \in 0 .. 0 |-> c], 0)
    OBVIOUS
  <2> QED
    BY <2>1
<1>2. ASSUME NEW k \in Nat, k \in S PROVE k + 1 \in S
  <2> SUFFICES ASSUME k + 1 <= n
               PROVE  \E f \in [0 .. k + 1 -> T] : Steps(f, k + 1)
    OBVIOUS
  <2>1. PICK f \in [0 .. k -> T] : Steps(f, k)
    BY <1>2
  <2> DEFINE last == g[<<k + 1, f[k]>>]
             h == [j \in 0 .. k + 1 |-> IF j = k + 1 THEN last ELSE f[j]]
  <2>2. last \in T
    <3>0. \A j \in 1 .. n, x \in T : g[<<j, x>>] \in T
      BY DEF StepOn
    <3>1. k + 1 \in 1 .. n /\ f[k] \in T
      OBVIOUS
    <3> QED
      BY <3>0, <3>1
  <2>3. h \in [0 .. k + 1 -> T]
    BY <2>2
  <2>4. Steps(h, k + 1)
    <3>1. h[0] = c
      BY <2>1
    <3>2. ASSUME NEW j \in 1 .. k + 1 PROVE h[j] = g[<<j, h[j - 1]>>]
      <4>1. CASE j = k + 1
        <5>1. /\ j \in 0 .. k + 1 /\ j - 1 = k
              /\ k \in 0 .. k + 1 /\ k # k + 1
          BY <4>1
        <5>2. h[j] = last /\ h[j - 1] = f[k]
          <6> HIDE DEF last
          <6> QED
            BY <4>1, <5>1
        <5> QED
          BY <4>1, <5>2
      <4>2. CASE j # k + 1
        <5>1. j \in 1 .. k /\ j - 1 \in 0 .. k /\ j \in 0 .. k + 1
          BY <4>2
        <5>2. h[j] = f[j] /\ h[j - 1] = f[j - 1]
          BY <5>1
        <5> QED
          BY <2>1, <5>1, <5>2
      <4> QED
        BY <4>1, <4>2
    <3> QED
      BY <3>1, <3>2
  <2> QED
    BY <2>3, <2>4
<1>3. \A k \in Nat : k \in S
  <2> HIDE DEF S
  <2> QED
    BY <1>1, <1>2, SetInduction
<1> QED
  BY <1>3 DEF Follows

\* 2^0 is one, and each further power is twice the one before: by counting the
\* subsets of 1 .. n + 1 without and with its last element.
LEMMA PowerStep ==
    ASSUME NEW n \in Nat
    PROVE  2^n \in Nat \ {0} /\ 2^(n + 1) = 2 * 2^n
<1> DEFINE A == SUBSET (1 .. n)
           B == SUBSET (1 .. n + 1)
           C == B \ A
           f == [X \in A |-> X \cup {n + 1}]
<1>1. /\ IsFiniteSet(A) /\ Cardinality(A) = 2^n
      /\ IsFiniteSet(B) /\ Cardinality(B) = 2^(n + 1)
  <2>1. \A m \in Nat : IsFiniteSet(1 .. m) /\ Cardinality(1 .. m) = m
    BY FS_Interval
  <2>2. \A m \in Nat : /\ IsFiniteSet(SUBSET (1 .. m))
                      /\ Cardinality(SUBSET (1 .. m)) = 2^m
    <3> SUFFICES ASSUME NEW m \in Nat
                 PROVE  /\ IsFiniteSet(SUBSET (1 .. m))
                        /\ Cardinality(SUBSET (1 .. m)) = 2^m
      OBVIOUS
    <3>1. /\ IsFiniteSet(SUBSET (1 .. m))
          /\ Cardinality(SUBSET (1 .. m)) = 2^Cardinality(1 .. m)
      BY <2>1, FS_SUBSET
    <3> QED
      BY <2>1, <3>1
  <2>3. n \in Nat /\ n + 1 \in Nat
    OBVIOUS
  <2> QED
    BY <2>2, <2>3
<1>2. f \in Bijection(A, C)
  <2>1. f \in [A -> C]
    OBVIOUS
  <2>2. \A X, Y \in A : f[X] = f[Y] => X = Y
    <3> SUFFICES ASSUME NEW X \in A, NEW Y \in A, f[X] = f[Y] PROVE X = Y
      OBVIOUS
    <3>1. n + 1 \notin X /\ n + 1 \notin Y
      OBVIOUS
    <3> QED
      BY <3>1
  <2>3. \A Z \in C : \E X \in A : f[X] = Z
    <3> SUFFICES ASSUME NEW Z \in C PROVE \E X \in A : f[X] = Z
      OBVIOUS
    <3>1. n + 1 \in Z /\ Z \ {n + 1} \in A
      OBVIOUS
    <3> QED
      BY <3>1
  <2> HIDE DEF f, A, C
  <2> QED
    BY <2>1, <2>2, <2>3 DEF Bijection, Injection, Surjection, IsInjective
<1>3. IsFiniteSet(C) /\ Cardinality(C) = 2^n
  <2>1. ExistsBijection(A, C)
    BY <1>2 DEF ExistsBijection
  <2> HIDE DEF A, C
  <2> QED
    BY <1>1, <2>1, FS_Bijection
<1>4. B = A \cup C /\ A \cap C = {}
  OBVIOUS
<1>5. Cardinality(B) = 2^n + 2^n - 0
  <2>1. Cardinality({}) = 0
    BY FS_EmptySet
  <2> HIDE DEF A, B, C
  <2>2. Cardinality(A \cup C) = Cardinality(A) + Cardinality(C) - Cardinality(A \cap C)
    BY <1>1, <1>3, FS_Union
  <2> QED
    BY <1>1, <1>3, <1>4, <2>1, <2>2
<1>6. 2^n \in Nat
  <2> HIDE DEF A
  <2> QED
    BY <1>1, FS_CardinalityType
<1>7. 2^n # 0
  <2>1. {} \in A
    OBVIOUS
  <2> HIDE DEF A
  <2> QED
    BY <1>1, <2>1, FS_EmptySet
<1> QED
  BY <1>1, <1>5, <1>6, <1>7

\* 2^0 is one.
LEMMA PowerZero == 2^0 = 1
  OBVIOUS

\* Powers of two multiply.
LEMMA PowerSplit ==
    ASSUME NEW a \in Nat, NEW m \in 0 .. a
    PROVE  2^m * 2^(a - m) = 2^a
<1> DEFINE S == {k \in Nat : k <= a => 2^k * 2^(a - k) = 2^a}
<1>1. 0 \in S
  <2>1. 2^a \in Nat /\ a - 0 = a
    BY PowerStep
  <2> QED
    BY <2>1, PowerZero
<1>2. ASSUME NEW k \in Nat, k \in S PROVE k + 1 \in S
  <2> SUFFICES ASSUME k + 1 <= a PROVE 2^(k + 1) * 2^(a - (k + 1)) = 2^a
    OBVIOUS
  <2> DEFINE x == 2^k
             y == 2^(a - (k + 1))
  <2>1. 2^(k + 1) = 2 * x /\ x \in Nat
    BY PowerStep
  <2>2. 2^(a - k) = 2 * y /\ y \in Nat
    <3>1. a - (k + 1) \in Nat /\ (a - (k + 1)) + 1 = a - k
      OBVIOUS
    <3> QED
      BY <3>1, PowerStep
  <2>3. x * 2^(a - k) = 2^a
    BY <1>2
  <2> HIDE DEF x, y
  <2>4. (2 * x) * y = x * (2 * y)
    BY <2>1, <2>2
  <2> QED
    BY <2>1, <2>2, <2>3, <2>4 DEF y
<1>3. \A k \in Nat : k \in S
  <2> HIDE DEF S
  <2> QED
    BY <1>1, <1>2, SetInduction
<1> QED
  BY <1>3

\* Powers of two grow: 2^m is at most 2^a, and divides it, just when m <= a.
LEMMA PowerOrder ==
    ASSUME NEW a \in Nat, NEW m \in Nat
    PROVE  /\ m <= a => 2^m <= 2^a /\ 2^a \div 2^m = 2^(a - m)
           /\ m > a => 2^m > 2^a
<1>1. ASSUME m <= a PROVE 2^m <= 2^a /\ 2^a \div 2^m = 2^(a - m)
  <2> DEFINE x == 2^m
             y == 2^(a - m)
             z == 2^a
  <2>1. /\ x \in Nat \ {0} /\ y \in Nat \ {0} /\ z \in Nat /\ x * y = z
    <3>1. a - m \in Nat /\ m \in 0 .. a
      BY <1>1
    <3> QED
      BY <3>1, PowerStep, PowerSplit
  <2> HIDE DEF x, y, z
  <2>2. x <= z /\ z \div x = y
    BY <2>1
  <2> QED
    BY <2>2 DEF x, y, z
<1>2. ASSUME m > a PROVE 2^m > 2^a
  <2> DEFINE x == 2^a
             y == 2^(m - a - 1)
             z == 2^m
  <2>1. x \in Nat \ {0} /\ y \in Nat \ {0} /\ z \in Nat /\ x * (2 * y) = z
    <3>1. m - a - 1 \in Nat /\ (m - a - 1) + 1 = m - a /\ a \in 0 .. m
      BY <1>2
    <3>2. y \in Nat \ {0} /\ 2^(m - a) = 2 * y
      BY <3>1, PowerStep
    <3> QED
      BY <3>1, <3>2, PowerStep, PowerSplit
  <2> HIDE DEF x, y, z
  <2>2. x < z
    <3>1. x * (2 * y) = x * y + x * y /\ x * y >= x
      BY <2>1
    <3> QED
      BY <2>1, <3>1
  <2> QED
    BY <2>2 DEF x, z
<1> QED
  BY <1>1, <1>2

------------------------------------------------------------------------------
(* Binary digits.                                                          *)

\* Bit k of x, counted from the lowest.
Digit(x, k) == (x \div 2^k) % 2

\* Quotient and remainder are determined by their equation.
LEMMA Division ==
    ASSUME NEW x \in Int, NEW m \in Nat \ {0}
    PROVE  /\ x \div m \in Int /\ x % m \in 0 .. m - 1
           /\ x = m * (x \div m) + (x % m)
           /\ x \in Nat => x \div m \in Nat
  OBVIOUS

\* Quotient and remainder are the only ones.
LEMMA DivisionUnique ==
    ASSUME NEW x \in Int, NEW m \in Nat \ {0}, NEW q \in Int, NEW s \in 0 .. m - 1,
           x = m * q + s
    PROVE  x \div m = q /\ x % m = s
<1> DEFINE p == x \div m
           t == x % m
<1>1. p \in Int /\ t \in 0 .. m - 1 /\ x = m * p + t
  BY Division
<1> HIDE DEF p, t
<1>2. m * (p - q) = s - t
  BY <1>1
<1>3. s - t < m /\ s - t > -m
  BY <1>1
<1>4. p - q < 1 
  <2> SUFFICES ASSUME p - q >= 1 PROVE FALSE
    BY <1>1
  <2>1. m * (p - q) >= m
    BY <1>1
  <2> QED BY <2>1, <1>2, <1>3, <1>1
<1>5. p - q > -1
  <2> SUFFICES ASSUME q - p >= 1 PROVE FALSE
    BY <1>1
  <2>1. m * (q - p) >= m
    BY <1>1
  <2>2. m * (q - p) = -(m * (p - q))
    BY <1>1
  <2> QED BY <2>1, <2>2, <1>2, <1>3, <1>1
<1>6. p = q
  BY <1>4, <1>5, <1>1
<1>7. t = s
  BY <1>6, <1>1
<1> QED BY <1>6, <1>7 DEF p, t

\* Dividing by m and then by 2.
LEMMA DivisionTwice ==
    ASSUME NEW x \in Nat, NEW m \in Nat \ {0}
    PROVE  /\ x \div (2 * m) = (x \div m) \div 2
           /\ x % (2 * m) = (x % m) + ((x \div m) % 2) * m
<1> DEFINE q == x \div m
           s == x % m
           p == q \div 2
           d == q % 2
<1>1. q \in Nat /\ s \in 0 .. m - 1 /\ x = m * q + s
  OBVIOUS
<1>2. p \in Nat /\ d \in 0 .. 1 /\ q = 2 * p + d
  <2> HIDE DEF q
  <2> QED BY <1>1
<1> HIDE DEF q, s, p, d
<1>3. x = (2 * m) * p + (s + d * m)
  BY <1>1, <1>2
<1>4. s + d * m \in 0 .. 2 * m - 1
  <2>1. d = 0 \/ d = 1
    BY <1>2
  <2> QED BY <2>1, <1>1
<1>5. x \div (2 * m) = p /\ x % (2 * m) = s + d * m
  <2> DEFINE mm == 2 * m
             ss == s + d * m
  <2>1. mm \in Nat \ {0}
    OBVIOUS
  <2>2. ss \in 0 .. mm - 1 /\ x = mm * p + ss
    BY <1>3, <1>4
  <2> HIDE DEF mm, ss
  <2>3. x \div mm = p /\ x % mm = ss
    BY <2>1, <2>2, <1>2, DivisionUnique
  <2> QED BY <2>3 DEF mm, ss
<1> QED BY <1>5 DEF p, d, q, s

\* A digit is 0 or 1.
LEMMA BitIsBit ==
    ASSUME NEW x \in Nat, NEW k \in Nat
    PROVE  Digit(x, k) \in {0, 1}
<1>1. x \div 2^k \in Nat
  BY PowerStep, Division
<1> QED BY <1>1 DEF Digit

\* The bits below k + 1 are those below k and bit k.
LEMMA NextBit ==
    ASSUME NEW x \in Nat, NEW k \in Nat
    PROVE  x % 2^(k + 1) = (x % 2^k) + Digit(x, k) * 2^k
  BY PowerStep, DivisionTwice DEF Digit

\* A number below 2^n is its n bits.
LEMMA BitsDetermine ==
    ASSUME NEW n \in Nat, NEW x \in 0 .. 2^n - 1, NEW y \in 0 .. 2^n - 1,
           \A k \in 0 .. n - 1 : Digit(x, k) = Digit(y, k)
    PROVE  x = y
<1> DEFINE S == {k \in Nat : k <= n => x % 2^k = y % 2^k}
<1>0. 2^n \in Nat /\ x \in Nat /\ y \in Nat
  BY PowerStep
<1>1. 0 \in S
  <2>1. x % 2^0 = 0 /\ y % 2^0 = 0
    BY <1>0, PowerZero
  <2> QED BY <2>1
<1>2. ASSUME NEW k \in Nat, k \in S PROVE k + 1 \in S
  <2> SUFFICES ASSUME k + 1 <= n PROVE x % 2^(k + 1) = y % 2^(k + 1)
    OBVIOUS
  <2>1. x % 2^k = y % 2^k /\ Digit(x, k) = Digit(y, k)
    BY <1>2
  <2>2. /\ x % 2^(k + 1) = (x % 2^k) + Digit(x, k) * 2^k
        /\ y % 2^(k + 1) = (y % 2^k) + Digit(y, k) * 2^k
    BY <1>0, NextBit
  <2> QED BY <2>1, <2>2
<1>3. n \in S
  <2> HIDE DEF S
  <2> QED BY <1>1, <1>2, SetInduction
<1>4. x % 2^n = x /\ y % 2^n = y
  <2> DEFINE m == 2^n
  <2>1. m \in Nat \ {0} /\ x \in 0 .. m - 1 /\ y \in 0 .. m - 1 /\ x = m * 0 + x /\ y = m * 0 + y
    BY PowerStep, <1>0
  <2> HIDE DEF m
  <2>2. x % m = x /\ y % m = y
    BY <2>1, <1>0, DivisionUnique
  <2> QED BY <2>2 DEF m
<1> QED BY <1>3, <1>4

\* A bit added above: x below 2^k keeps its bits, and bit k is b.
LEMMA BitAdded ==
    ASSUME NEW k \in Nat, NEW x \in 0 .. 2^k - 1, NEW b \in {0, 1}
    PROVE  /\ x + b * 2^k \in 0 .. 2^(k + 1) - 1
           /\ Digit(x + b * 2^k, k) = b
           /\ \A j \in 0 .. k - 1 : Digit(x + b * 2^k, j) = Digit(x, j)
<1> DEFINE m == 2^k
           z == x + b * m
<1>1. m \in Nat \ {0} /\ 2^(k + 1) = 2 * m /\ x \in 0 .. m - 1 /\ x \in Nat
  BY PowerStep
<1>2. z \in Nat /\ z \in 0 .. 2 * m - 1 /\ z = m * b + x
  <2> HIDE DEF m
  <2>1. b = 0 \/ b = 1
    OBVIOUS
  <2> QED BY <2>1, <1>1
<1>3. Digit(z, k) = b
  <2>1. z \div m = b
    <3> HIDE DEF m, z
    <3> QED BY <1>1, <1>2, DivisionUnique
  <2> QED BY <2>1 DEF Digit
<1>4. ASSUME NEW j \in 0 .. k - 1 PROVE Digit(z, j) = Digit(x, j)
  <2> DEFINE c == 2^j
             e == 2^(k - j - 1)
             q == x \div c
             s == x % c
  <2>1. c \in Nat \ {0} /\ e \in Nat /\ m = c * (2 * e)
    <3>1. j \in 0 .. k /\ k - j - 1 \in Nat /\ (k - j - 1) + 1 = k - j /\ j \in Nat
      OBVIOUS
    <3>2. 2^j * 2^(k - j) = 2^k
      BY <3>1, PowerSplit
    <3>3. 2^(k - j) = 2 * 2^(k - j - 1) /\ 2^(k - j - 1) \in Nat
      BY <3>1, PowerStep
    <3> QED BY <3>1, <3>2, <3>3, PowerStep
  <2>2. q \in Nat /\ s \in 0 .. c - 1 /\ x = c * q + s
    <3> HIDE DEF c
    <3>1. x \in Nat /\ c \in Nat \ {0}
      BY <2>1, <1>1
    <3> QED BY <3>1
  <2> HIDE DEF c, e, q, s, m
  <2>3. z = c * (q + b * (2 * e)) + s
    BY <2>1, <2>2, <1>1, <1>2
  <2>4. z \div c = q + 2 * (b * e)
    <3>1. q + b * (2 * e) \in Int /\ q + b * (2 * e) = q + 2 * (b * e)
      BY <2>1, <2>2
    <3> HIDE DEF z
    <3> QED BY <3>1, <2>1, <2>2, <2>3, <1>2, DivisionUnique
  <2>5. (q + 2 * (b * e)) % 2 = q % 2
    <3> DEFINE f == b * e
    <3>1. f \in Nat
      BY <2>1
    <3> HIDE DEF f
    <3>2. (q + 2 * f) % 2 = q % 2
      BY <3>1, <2>2
    <3> QED BY <3>2 DEF f
  <2> QED BY <2>4, <2>5 DEF Digit, c, q
<1> QED BY <1>1, <1>2, <1>3, <1>4

\* Shifting a bit in below: it is bit 0, and each other bit is one place up.
LEMMA BitShiftedIn ==
    ASSUME NEW x \in Nat, NEW b \in {0, 1}
    PROVE  /\ \A n \in Nat : x \in 0 .. 2^n - 1 => 2 * x + b \in 0 .. 2^(n + 1) - 1
           /\ Digit(2 * x + b, 0) = b
           /\ \A k \in Nat : Digit(2 * x + b, k + 1) = Digit(x, k)
<1> DEFINE y == 2 * x + b
<1>0. x \in Nat /\ y \in Nat /\ y = 2 * x + b /\ (b = 0 \/ b = 1)
  OBVIOUS
<1>1. ASSUME NEW n \in Nat, x \in 0 .. 2^n - 1 PROVE y \in 0 .. 2^(n + 1) - 1
  <2> DEFINE p == 2^n
  <2>1. p \in Nat /\ 2^(n + 1) = 2 * p /\ x \in 0 .. p - 1
    BY <1>1, PowerStep
  <2> HIDE DEF p
  <2>2. y \in 0 .. 2 * p - 1
    BY <2>1, <1>0
  <2> QED BY <2>1, <2>2
<1>2. Digit(y, 0) = b
  <2>1. y \div 1 = y /\ y % 2 = b
    <3> HIDE DEF y
    <3>1. y % 2 = b
      BY <1>0
    <3>2. y \div 1 = y
      BY <1>0
    <3> QED BY <3>1, <3>2
  <2> HIDE DEF y
  <2> QED BY <2>1, PowerZero DEF Digit
<1>3. ASSUME NEW k \in Nat PROVE Digit(y, k + 1) = Digit(x, k)
  <2> DEFINE m == 2^k
             q == x \div m
             s == x % m
  <2>1. m \in Nat \ {0} /\ 2^(k + 1) = 2 * m
    BY PowerStep
  <2> HIDE DEF m, y
  <2>2. q \in Nat /\ s \in 0 .. m - 1 /\ x = m * q + s
    <3>1. x \in Nat
      BY <1>0
    <3> QED BY <3>1, <2>1
  <2> HIDE DEF q, s
  <2> DEFINE mm == 2 * m
             ss == 2 * s + b
  <2>3. mm \in Nat \ {0} /\ ss \in 0 .. mm - 1
    BY <1>0, <2>1, <2>2
  <2>4. y = mm * q + ss
    <3>1. (2 * m) * q = 2 * (m * q) /\ m * q \in Nat
      BY <2>1, <2>2
    <3>2. s \in Nat /\ b \in Nat
      BY <2>1, <2>2
    <3> QED BY <1>0, <2>2, <3>1, <3>2
  <2>5. y \div mm = q
    <3>1. y \in Int /\ q \in Int
      BY <1>0, <2>2
    <3> HIDE DEF mm, ss
    <3> QED BY <3>1, <2>3, <2>4, DivisionUnique
  <2>6. y \div (2 * m) = q
    BY <2>5
  <2> HIDE DEF mm, ss
  <2>7. (y \div 2^(k + 1)) % 2 = q % 2
    BY <2>1, <2>6
  <2> QED BY <2>7 DEF Digit, q, m
<1> QED BY <1>1, <1>2, <1>3

\* What is above the bits of a number is 0.
LEMMA BitAbove ==
    ASSUME NEW n \in Nat, NEW x \in 0 .. 2^n - 1, NEW k \in Nat, n <= k
    PROVE  Digit(x, k) = 0
<1> DEFINE m == 2^k
           p == 2^n
<1>1. m \in Nat \ {0} /\ x \in 0 .. m - 1 /\ x \in Nat /\ x = m * 0 + x
  <2>1. p \in Nat /\ m \in Nat \ {0} /\ p <= m /\ x \in 0 .. p - 1
    BY PowerStep, PowerOrder
  <2> HIDE DEF m, p
  <2> QED BY <2>1
<1> HIDE DEF m
<1>2. x \div m = 0
  BY <1>1, DivisionUnique
<1>3. (x \div m) % 2 = 0
  BY <1>2
<1> QED BY <1>3 DEF Digit, m

\* Cutting a number off leaves the bits below.
LEMMA BitBelow ==
    ASSUME NEW x \in Nat, NEW n \in Nat
    PROVE  /\ x % 2^n \in 0 .. 2^n - 1
           /\ \A k \in 0 .. n - 1 : Digit(x % 2^n, k) = Digit(x, k)
<1> DEFINE m == 2^n
           q == x \div m
           s == x % m
<1>0. m \in Nat \ {0}
  BY PowerStep
<1>1. m \in Nat \ {0} /\ q \in Nat /\ s \in 0 .. m - 1 /\ x = m * q + s
  <2> HIDE DEF m
  <2> QED BY <1>0
<1>2. ASSUME NEW k \in 0 .. n - 1 PROVE Digit(s, k) = Digit(x, k)
  <2> DEFINE c == 2^k
             e == 2^(n - k - 1)
             a == s \div c
             t == s % c
  <2>1. c \in Nat \ {0} /\ e \in Nat /\ m = c * (2 * e)
    <3>1. k \in 0 .. n /\ n - k - 1 \in Nat /\ (n - k - 1) + 1 = n - k /\ k \in Nat
      OBVIOUS
    <3>2. 2^k * 2^(n - k) = 2^n
      BY <3>1, PowerSplit
    <3>3. 2^(n - k) = 2 * 2^(n - k - 1) /\ 2^(n - k - 1) \in Nat
      BY <3>1, PowerStep
    <3> QED BY <3>1, <3>2, <3>3, PowerStep
  <2> HIDE DEF c, e, m, q, s
  <2>2. a \in Nat /\ t \in 0 .. c - 1 /\ s = c * a + t
    <3>1. s \in Nat
      BY <1>1
    <3> QED BY <3>1, <2>1
  <2> HIDE DEF a, t
  <2> DEFINE f == e * q
             z == 2 * f + a
  <2>3. f \in Nat
    BY <1>1, <2>1
  <2>4. m * q = c * (2 * f)
    BY <1>1, <2>1
  <2> HIDE DEF f
  <2>5. x = c * z + t /\ z \in Nat
    BY <1>1, <2>1, <2>2, <2>3, <2>4
  <2>6. z % 2 = a % 2
    BY <2>2, <2>3
  <2> HIDE DEF z
  <2>7. x \div c = z
    BY <2>1, <2>2, <2>5, DivisionUnique
  <2>8. (x \div c) % 2 = a % 2
    BY <2>6, <2>7
  <2> QED BY <2>8 DEF Digit, c, a
<1> QED BY <1>1, <1>2

-----------------------------------------------------------------------------
(* Sums, and registers as sums of bits.                                    *)

\* s holds the sums of the first values of f.
Sums(s, f, n) ==
    /\ s \in [0 .. n -> Nat]
    /\ s[0] = 0
    /\ \A j \in 1 .. n : s[j] = s[j - 1] + f[j]

\* The sum of a sequence of numbers.
SumTo(f) ==
    LET sum[n \in 0 .. Len(f)] == IF n = 0 THEN 0 ELSE sum[n - 1] + f[n]
    IN  sum[Len(f)]

\* The recursion of SumTo.
LEMMA SumToDef ==
    ASSUME NEW n \in Nat, NEW f \in [1 .. n -> Nat]
    PROVE  \E s : Sums(s, f, n) /\ SumTo(f) = s[n]
<1> DEFINE g == [p \in (1 .. n) \X Nat |-> p[2] + f[p[1]]]
           Is(s) == s = [j \in 0 .. n |-> IF j = 0 THEN 0 ELSE s[j - 1] + f[j]]
<1>0. Len(f) = n
  OBVIOUS
<1>1. PICK s \in [0 .. n -> Nat] :
          s[0] = 0 /\ \A j \in 1 .. n : s[j] = g[<<j, s[j - 1]>>]
  <2>1. StepOn(g, n, Nat)
    <3>1. \A j \in 1 .. n, x \in Nat : g[<<j, x>>] = x + f[j]
      OBVIOUS
    <3>2. \A j \in 1 .. n : f[j] \in Nat
      OBVIOUS
    <3>3. ASSUME NEW j \in 1 .. n, NEW x \in Nat PROVE g[<<j, x>>] \in Nat
      <4>1. f[j] \in Nat /\ x + f[j] \in Nat
        BY <3>2
      <4>2. g[<<j, x>>] = x + f[j]
        BY <3>1
      <4> HIDE DEF g
      <4> QED BY <4>1, <4>2
    <3> HIDE DEF g
    <3> QED BY <3>3 DEF StepOn
  <2> HIDE DEF g
  <2>2. \E s : Follows(s, g, n, Nat, 0)
    BY <2>1, RecursionExists
  <2> QED BY <2>2 DEF Follows
<1>2. \A j \in 1 .. n : s[j] = s[j - 1] + f[j]
  <2> SUFFICES ASSUME NEW j \in 1 .. n PROVE s[j] = s[j - 1] + f[j]
    OBVIOUS
  <2>1. s[j - 1] \in Nat
    OBVIOUS
  <2>2. g[<<j, s[j - 1]>>] = s[j - 1] + f[j]
    BY <2>1
  <2> QED BY <1>1, <2>2
<1>3. Is(s)
  BY <1>1, <1>2
<1> DEFINE W == CHOOSE h : Is(h)
<1>4. SumTo(f) = W[n]
  BY <1>0 DEF SumTo
<1>5. Is(W)
  <2> HIDE DEF Is
  <2> QED BY <1>3
<1> HIDE DEF W
<1>6. W = [j \in 0 .. n |-> IF j = 0 THEN 0 ELSE W[j - 1] + f[j]]
  BY <1>5
<1>7. W[0] = 0 /\ \A j \in 1 .. n : W[j] = W[j - 1] + f[j]
  BY <1>6
<1>8. W \in [0 .. n -> Nat]
  <2> DEFINE A == {j \in Nat : j <= n => W[j] \in Nat}
  <2>1. 0 \in A
    BY <1>7
  <2>2. ASSUME NEW j \in Nat, j \in A PROVE j + 1 \in A
    <3> SUFFICES ASSUME j + 1 <= n PROVE W[j + 1] \in Nat
      OBVIOUS
    <3>1. W[j] \in Nat /\ j + 1 \in 1 .. n /\ (j + 1) - 1 = j /\ f[j + 1] \in Nat
      BY <2>2
    <3>2. W[j + 1] = W[j] + f[j + 1]
      BY <1>7, <3>1
    <3> QED BY <3>1, <3>2
  <2>3. \A j \in Nat : j \in A
    <3> HIDE DEF A
    <3> QED BY <2>1, <2>2, SetInduction
  <2>4. \A j \in 0 .. n : W[j] \in Nat
    BY <2>3
  <2>5. DOMAIN W = 0 .. n /\ W = [j \in 0 .. n |-> W[j]]
    BY <1>6
  <2> QED BY <2>4, <2>5
<1> QED BY <1>4, <1>7, <1>8 DEF Sums

\* The first n values of d are bits.
AreBits(d, n) == \A j \in 1 .. n : d[j] \in {0, 1}

\* f gives each bit of d the weight of its place, the first the lowest.
Weighs(f, d, n) == \A j \in 1 .. n : f[j] = d[j] * 2^(j - 1)

\* The bits of x, lowest first, are those of d.
HasBits(x, d, n) == /\ x \in 0 .. 2^n - 1
                    /\ \A k \in 0 .. n - 1 : Digit(x, k) = d[k + 1]

\* Added up with their weights, bits are the digits of the sum.
LEMMA SumOfBits ==
    ASSUME NEW n \in Nat, NEW d, AreBits(d, n), NEW f \in [1 .. n -> Nat],
           Weighs(f, d, n)
    PROVE  HasBits(SumTo(f), d, n)
<1>1. PICK s : Sums(s, f, n) /\ SumTo(f) = s[n]
  BY SumToDef
<1> DEFINE A == {j \in Nat : j <= n => HasBits(s[j], d, j)}
<1>2. 0 \in A
  <2>1. s[0] = 0 /\ 2^0 = 1
    BY <1>1, PowerZero DEF Sums
  <2> QED BY <2>1 DEF HasBits
<1>3. ASSUME NEW j \in Nat, j \in A PROVE j + 1 \in A
  <2> SUFFICES ASSUME j + 1 <= n PROVE HasBits(s[j + 1], d, j + 1)
    OBVIOUS
  <2> DEFINE x == s[j]
             b == d[j + 1]
  <2>1. j + 1 \in 1 .. n /\ (j + 1) - 1 = j
    OBVIOUS
  <2>2. s[j + 1] = x + b * 2^j
    BY <1>1, <2>1 DEF Sums, Weighs
  <2>3. b \in {0, 1}
    BY <2>1 DEF AreBits
  <2>4. x \in 0 .. 2^j - 1 /\ \A k \in 0 .. j - 1 : Digit(x, k) = d[k + 1]
    BY <1>3 DEF HasBits
  <2> HIDE DEF x, b
  <2>5. /\ x + b * 2^j \in 0 .. 2^(j + 1) - 1
        /\ Digit(x + b * 2^j, j) = b
        /\ \A k \in 0 .. j - 1 : Digit(x + b * 2^j, k) = Digit(x, k)
    BY <2>3, <2>4, BitAdded
  <2>6. ASSUME NEW k \in 0 .. (j + 1) - 1 PROVE Digit(s[j + 1], k) = d[k + 1]
    <3>1. CASE k = j
      BY <3>1, <2>2, <2>5 DEF b
    <3>2. CASE k # j
      <4>1. k \in 0 .. j - 1
        BY <3>2
      <4> QED BY <4>1, <2>2, <2>4, <2>5
    <3> QED BY <3>1, <3>2
  <2> QED BY <2>2, <2>5, <2>6 DEF HasBits
<1>4. n \in A
  <2> HIDE DEF A
  <2> QED BY <1>2, <1>3, SetInduction
<1> QED BY <1>1, <1>4

\* A bit with its weight is a number.
LEMMA WeightIsNat ==
    ASSUME NEW b \in {0, 1}, NEW k \in Nat
    PROVE  b * 2^k \in Nat
<1>1. 2^k \in Nat
  BY PowerStep
<1>2. b = 0 \/ b = 1
  OBVIOUS
<1> QED BY <1>1, <1>2

\* Bit j of the register after k bits is the bit j before the last of them.
RecentBit(bits, k, j) == IF j + 1 <= k THEN bits[k - j] ELSE 0

\* A register of n bits into which k bits were shifted, from 0, newest lowest.
ShiftRegister(bits, k, n) ==
    SumTo([b \in 1 .. n |-> IF b <= k THEN bits[k + 1 - b] * 2^(b - 1) ELSE 0])

\* Its bits are the last ones shifted in.
LEMMA ShiftRegisterBits ==
    ASSUME NEW n \in Nat, NEW k \in Nat, NEW bits, AreBits(bits, k)
    PROVE  /\ ShiftRegister(bits, k, n) \in 0 .. 2^n - 1
           /\ \A j \in 0 .. n - 1 :
                  /\ Digit(ShiftRegister(bits, k, n), j) = RecentBit(bits, k, j)
                  /\ RecentBit(bits, k, j) \in {0, 1}
<1> DEFINE f == [b \in 1 .. n |-> IF b <= k THEN bits[k + 1 - b] * 2^(b - 1) ELSE 0]
           d == [b \in 1 .. n |-> RecentBit(bits, k, b - 1)]
<1>0. n \in Nat
  OBVIOUS
<1>1. ASSUME NEW b \in 1 .. n
      PROVE  /\ d[b] = IF b <= k THEN bits[k + 1 - b] ELSE 0
             /\ d[b] \in {0, 1}
             /\ f[b] = d[b] * 2^(b - 1)
             /\ d[b] * 2^(b - 1) \in Nat
  <2>1. (b - 1) + 1 = b /\ k - (b - 1) = k + 1 - b /\ b - 1 \in Nat
    BY <1>0
  <2>2. d[b] = IF b <= k THEN bits[k + 1 - b] ELSE 0
    BY <2>1 DEF RecentBit
  <2>3. d[b] \in {0, 1}
    <3>1. b <= k => k + 1 - b \in 1 .. k
      BY <1>0
    <3> QED BY <2>2, <3>1 DEF AreBits
  <2>4. 0 * 2^(b - 1) = 0
    <3>1. 2^(b - 1) \in Nat
      BY <2>1, PowerStep
    <3> QED BY <3>1
  <2>5. f[b] = d[b] * 2^(b - 1)
    <3>1. f[b] = IF b <= k THEN bits[k + 1 - b] * 2^(b - 1) ELSE 0
      OBVIOUS
    <3> HIDE DEF d, f
    <3> QED BY <3>1, <2>2, <2>4
  <2> HIDE DEF d, f
  <2>6. d[b] * 2^(b - 1) \in Nat
    BY <2>1, <2>3, WeightIsNat
  <2> QED BY <2>2, <2>3, <2>5, <2>6
<1>2. ShiftRegister(bits, k, n) = SumTo(f)
  BY DEF ShiftRegister
<1>3. \A j \in 0 .. n - 1 : d[j + 1] = RecentBit(bits, k, j) /\ j + 1 \in 1 .. n
  <2> SUFFICES ASSUME NEW j \in 0 .. n - 1
               PROVE  d[j + 1] = RecentBit(bits, k, j) /\ j + 1 \in 1 .. n
    OBVIOUS
  <2>1. j + 1 \in 1 .. n /\ (j + 1) - 1 = j
    BY <1>0
  <2> QED BY <2>1
<1>4. DOMAIN f = 1 .. n /\ f = [b \in 1 .. n |-> f[b]]
  OBVIOUS
<1> HIDE DEF f, d
<1>5. AreBits(d, n) /\ Weighs(f, d, n)
  BY <1>1 DEF AreBits, Weighs
<1>6. f \in [1 .. n -> Nat]
  BY <1>1, <1>4
<1>7. HasBits(SumTo(f), d, n)
  BY <1>0, <1>5, <1>6, SumOfBits
<1> QED BY <1>1, <1>2, <1>3, <1>7 DEF HasBits

\* Shifting a bit in gives the register after one more.
LEMMA ShiftRegisterNext ==
    ASSUME NEW n \in Nat, n >= 1, NEW k \in Nat, NEW bits, AreBits(bits, k + 1)
    PROVE  (2 * ShiftRegister(bits, k, n) + bits[k + 1]) % 2^n = ShiftRegister(bits, k + 1, n)
<1> DEFINE x == ShiftRegister(bits, k, n)
           b == bits[k + 1]
           y == 2 * x + b
           z == ShiftRegister(bits, k + 1, n)
<1>0. n \in Nat /\ n >= 1
  OBVIOUS
<1>1. AreBits(bits, k) /\ b \in {0, 1} /\ k + 1 \in Nat
  BY DEF AreBits
<1>2. /\ x \in 0 .. 2^n - 1
      /\ \A j \in 0 .. n - 1 : Digit(x, j) = RecentBit(bits, k, j)
  BY <1>1, ShiftRegisterBits
<1>3. /\ z \in 0 .. 2^n - 1
      /\ \A j \in 0 .. n - 1 : Digit(z, j) = RecentBit(bits, k + 1, j)
  BY <1>1, ShiftRegisterBits
<1> HIDE DEF x, z
<1>4. x \in Nat /\ y \in Nat
  <2>1. x \in Nat
    BY <1>0, <1>2, PowerStep
  <2> QED BY <2>1, <1>1
<1> HIDE DEF b
<1>5. /\ Digit(y, 0) = b
      /\ \A j \in Nat : Digit(y, j + 1) = Digit(x, j)
  BY <1>1, <1>4, BitShiftedIn
<1> HIDE DEF y
<1>6. /\ y % 2^n \in 0 .. 2^n - 1
      /\ \A j \in 0 .. n - 1 : Digit(y % 2^n, j) = Digit(y, j)
  BY <1>0, <1>4, BitBelow
<1>7. ASSUME NEW j \in 0 .. n - 1 PROVE Digit(y % 2^n, j) = Digit(z, j)
  <2>1. CASE j = 0
    <3>1. RecentBit(bits, k + 1, 0) = b
      BY DEF RecentBit, b
    <3> QED BY <2>1, <3>1, <1>3, <1>5, <1>6
  <2>2. CASE j # 0
    <3>1. j - 1 \in Nat /\ j - 1 \in 0 .. n - 1 /\ (j - 1) + 1 = j
      BY <2>2, <1>0
    <3>2. RecentBit(bits, k + 1, j) = RecentBit(bits, k, j - 1)
      <4>1. (k + 1) - j = k - (j - 1) /\ (j + 1 <= k + 1 <=> (j - 1) + 1 <= k)
        OBVIOUS
      <4> QED BY <4>1 DEF RecentBit
    <3>3. Digit(y, j) = Digit(x, j - 1)
      BY <3>1, <1>5
    <3> QED BY <3>1, <3>2, <3>3, <1>2, <1>3, <1>6
  <2> QED BY <2>1, <2>2
<1>8. y % 2^n = z
  <2> QED BY <1>3, <1>0, <1>6, <1>7, BitsDetermine
<1> QED BY <1>8 DEF x, y, z, b
==============================================================================

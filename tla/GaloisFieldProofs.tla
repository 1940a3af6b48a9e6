------------------------- MODULE GaloisFieldProofs -------------------------
(***************************************************************************)
(* field.h makes a field, for every width and every polynomial that        *)
(* trypoly of find_rs_primitive_poly.c accepts: BitXor is the sum of rows  *)
(* of bits, doubling is linear in it, a polynomial whose powers do not     *)
(* repeat runs through all elements but zero, and so products and          *)
(* quotients taken from the table of powers and the table of logarithms    *)
(* obey the laws that the decoder relies on.                               *)
(*                                                                         *)
(* They are the products and quotients of polynomials over GF(2) modulo    *)
(* the primitive one, which know nothing of either table (ProductIsMul,    *)
(* TablesMakeAField), as long as the field has more than one bit: for one  *)
(* trypoly accepts x itself, whose doubling is zero.                       *)
(*                                                                         *)
(* The sums and recursions of polynomial.c are brought down to first-order *)
(* facts: what FieldTotal, a table of powers, a product of factors and a   *)
(* long division compute, step by step, and that none of them leaves the   *)
(* field.                                                                  *)
(*                                                                         *)
(* A polynomial's value at a point is linear in it, so that a product with *)
(* x + z has the value 0 at z (FromRootsVanishes), and a division by a     *)
(* polynomial that leads with 1 keeps the value wherever the divisor has   *)
(* the value 0 (ModKeeps).                                                 *)
(*                                                                         *)
(* A polynomial has no more roots than its degree (TooManyRoots). So the   *)
(* sums of powers of the roots' inverses with Forney's values, the product *)
(* with the locator divided by its derivative, are the syndromes, when the *)
(* locator is a register for them (ForneyIsRight).                         *)
(*                                                                         *)
(* The other way around, a sequence of sums of powers is a register's, and *)
(* no register of fewer taps than there are points gives twice as many     *)
(* sums; one of as many taps is zero at the inverses of the points and     *)
(* nowhere else (RegisterFindsErrors).                                     *)
(***************************************************************************)
EXTENDS FieldPairs, Recursion, FunctionTheorems

------------------------------------------------------------------------------
(* Numbers as rows of bits.                                                *)

\* An element and the bit that doubling pushes out of it.
W2 == 0 .. 2^(Width + 1) - 1

\* The sizes of the field and of its polynomial.
LEMMA Sizes ==
    /\ Width \in Nat \ {0} /\ N \in Nat \ {0} /\ N + 1 = 2^Width
    /\ 2^(Width + 1) = 2 * N + 2
    /\ Elements \subseteq Nat /\ Elements \subseteq W2
    /\ PrimitivePoly \in N + 1 .. 2 * N + 1
<1>1. 2^Width \in Nat \ {0} /\ 2^(Width + 1) = 2 * 2^Width /\ Width \in Nat \ {0}
  BY GaloisFieldAssumption, PowerStep
<1>2. 2^Width > 1
  <2>1. Width - 1 \in Nat /\ (Width - 1) + 1 = Width
    BY <1>1
  <2>2. 2^Width = 2 * 2^(Width - 1) /\ 2^(Width - 1) \in Nat \ {0}
    BY <2>1, PowerStep
  <2> QED BY <2>2
<1>3. N + 1 = 2^Width /\ N \in Nat \ {0}
  BY <1>1, <1>2 DEF N
<1> QED BY <1>1, <1>3, GaloisFieldAssumption DEF Elements, W2

\* What BitXor computes: the sum of each pair of bits without a carry.
LEMMA XorBits ==
    ASSUME NEW l \in W2, NEW r \in W2
    PROVE  /\ BitXor(l, r) \in W2
           /\ \A k \in 0 .. Width :
                  Digit(BitXor(l, r), k) = (Digit(l, k) + Digit(r, k)) % 2
<1> DEFINE n == Width + 1
           b(k) == (l \div 2^(k - 1) + r \div 2^(k - 1)) % 2
           g == [p \in (1 .. n) \X Nat |-> p[2] + b(p[1]) * 2^(p[1] - 1)]
           Is(f) == f = [k \in 0 .. n |->
                            IF k = 0 THEN 0 ELSE f[k - 1] + b(k) * 2^(k - 1)]
<1>0. n \in Nat /\ l \in Nat /\ r \in Nat /\ 2^n \in Nat
  BY Sizes, PowerStep DEF W2
<1>1. \A k \in 1 .. n : /\ b(k) \in {0, 1} /\ 2^(k - 1) \in Nat \ {0}
                        /\ b(k) = (Digit(l, k - 1) + Digit(r, k - 1)) % 2
  <2> SUFFICES ASSUME NEW k \in 1 .. n
               PROVE  /\ b(k) \in {0, 1} /\ 2^(k - 1) \in Nat \ {0}
                      /\ b(k) = (Digit(l, k - 1) + Digit(r, k - 1)) % 2
    OBVIOUS
  <2> DEFINE m == 2^(k - 1)
  <2>1. m \in Nat \ {0}
    BY PowerStep
  <2>2. l \div m \in Nat /\ r \div m \in Nat
    <3> HIDE DEF m
    <3> QED BY <2>1, <1>0
  <2>3. \A x, y \in Nat : (x + y) % 2 = ((x % 2) + (y % 2)) % 2 /\ (x + y) % 2 \in {0, 1}
    OBVIOUS
  <2> QED BY <2>1, <2>2, <2>3 DEF Digit
<1> HIDE DEF b
<1>2. \E f \in [0 .. n -> Nat] : Is(f)
  <2>1. \A k \in 1 .. n, x \in Nat : g[<<k, x>>] = x + b(k) * 2^(k - 1)
    OBVIOUS
  <2>2. StepOn(g, n, Nat)
    <3> SUFFICES ASSUME NEW k \in 1 .. n, NEW x \in Nat PROVE g[<<k, x>>] \in Nat
      BY DEF StepOn
    <3>1. b(k) * 2^(k - 1) \in Nat
      BY <1>1
    <3> QED BY <2>1, <3>1
  <2> HIDE DEF g, n
  <2>3. PICK f : Follows(f, g, n, Nat, 0)
    BY <1>0, <2>2, RecursionExists
  <2>4. f \in [0 .. n -> Nat] /\ f[0] = 0
    BY <2>3 DEF Follows
  <2>5. \A k \in 1 .. n : f[k] = f[k - 1] + b(k) * 2^(k - 1)
    <3> SUFFICES ASSUME NEW k \in 1 .. n PROVE f[k] = f[k - 1] + b(k) * 2^(k - 1)
      OBVIOUS
    <3>1. k - 1 \in 0 .. n
      BY <1>0
    <3>2. f[k - 1] \in Nat
      BY <3>1, <2>4
    <3>3. f[k] = g[<<k, f[k - 1]>>]
      BY <2>3 DEF Follows
    <3> QED BY <3>2, <3>3, <2>1
  <2>6. \A k \in 0 .. n : f[k] = IF k = 0 THEN 0 ELSE f[k - 1] + b(k) * 2^(k - 1)
    <3> SUFFICES ASSUME NEW k \in 0 .. n
                 PROVE  f[k] = IF k = 0 THEN 0 ELSE f[k - 1] + b(k) * 2^(k - 1)
      OBVIOUS
    <3>1. k = 0 \/ k \in 1 .. n
      BY <1>0
    <3> QED BY <3>1, <2>4, <2>5
  <2> QED BY <2>4, <2>6
<1> DEFINE F == CHOOSE f : Is(f)
<1>3. Is(F)
  <2> HIDE DEF Is
  <2> QED BY <1>2
<1>4. BitXor(l, r) = F[n]
  BY DEF BitXor, b
<1>5. F[0] = 0 /\ \A k \in 1 .. n : F[k] = F[k - 1] + b(k) * 2^(k - 1)
  <2> HIDE DEF F, n
  <2> QED BY <1>3, <1>0
<1> HIDE DEF F, n
<1> DEFINE Ok(k) == /\ F[k] \in 0 .. 2^k - 1
                    /\ \A j \in 0 .. k - 1 : Digit(F[k], j) = b(j + 1)
           S == {k \in Nat : k <= n => Ok(k)}
<1>6. 0 \in S
  BY <1>5, PowerZero
<1>7. ASSUME NEW k \in Nat, k \in S PROVE k + 1 \in S
  <2> SUFFICES ASSUME k + 1 <= n PROVE Ok(k + 1)
    OBVIOUS
  <2>1. F[k] \in 0 .. 2^k - 1 /\ \A j \in 0 .. k - 1 : Digit(F[k], j) = b(j + 1)
    BY <1>7, <1>0
  <2>2. F[k + 1] = F[k] + b(k + 1) * 2^k /\ b(k + 1) \in {0, 1}
    <3>1. k + 1 \in 1 .. n /\ (k + 1) - 1 = k
      BY <1>0
    <3> QED BY <3>1, <1>1, <1>5
  <2>3. /\ F[k + 1] \in 0 .. 2^(k + 1) - 1
        /\ Digit(F[k + 1], k) = b(k + 1)
        /\ \A j \in 0 .. k - 1 : Digit(F[k + 1], j) = Digit(F[k], j)
    <3> DEFINE x == F[k]
               d == b(k + 1)
    <3>1. x \in 0 .. 2^k - 1 /\ d \in {0, 1} /\ F[k + 1] = x + d * 2^k
      BY <2>1, <2>2
    <3> HIDE DEF x, d
    <3>2. /\ x + d * 2^k \in 0 .. 2^(k + 1) - 1
          /\ Digit(x + d * 2^k, k) = d
          /\ \A j \in 0 .. k - 1 : Digit(x + d * 2^k, j) = Digit(x, j)
      BY <3>1, BitAdded
    <3> QED BY <3>1, <3>2 DEF x, d
  <2>4. \A j \in 0 .. (k + 1) - 1 : Digit(F[k + 1], j) = b(j + 1)
    <3> SUFFICES ASSUME NEW j \in 0 .. (k + 1) - 1 PROVE Digit(F[k + 1], j) = b(j + 1)
      OBVIOUS
    <3>1. CASE j = k
      BY <3>1, <2>3
    <3>2. CASE j \in 0 .. k - 1
      BY <3>2, <2>1, <2>3
    <3> QED BY <3>1, <3>2
  <2> QED BY <2>3, <2>4
<1>8. Ok(n)
  <2> HIDE DEF Ok
  <2>1. \A k \in Nat : k \in S
    <3> HIDE DEF S
    <3> QED BY <1>6, <1>7, SetInduction
  <2> QED BY <2>1, <1>0
<1>9. BitXor(l, r) \in W2
  BY <1>8, <1>4 DEF W2, n
<1>10. ASSUME NEW k \in 0 .. Width
       PROVE  Digit(BitXor(l, r), k) = (Digit(l, k) + Digit(r, k)) % 2
  <2>1. k + 1 \in 1 .. n /\ (k + 1) - 1 = k /\ k \in 0 .. n - 1
    BY Sizes DEF n
  <2>2. Digit(F[n], k) = b(k + 1)
    BY <2>1, <1>8
  <2> QED BY <2>1, <2>2, <1>1, <1>4
<1> QED BY <1>9, <1>10

\* Two numbers of W2 with the same bits.
LEMMA SameBits ==
    ASSUME NEW x \in W2, NEW y \in W2, \A k \in 0 .. Width : Digit(x, k) = Digit(y, k)
    PROVE  x = y
<1>1. Width + 1 \in Nat /\ (Width + 1) - 1 = Width
  BY Sizes
<1> QED BY <1>1, BitsDetermine DEF W2

\* The digits of a wide number.
LEMMA WideBit == \A x \in W2, k \in 0 .. Width : Digit(x, k) \in {0, 1}
  BY Sizes, BitIsBit DEF W2

\* BitXor is a sum without carries: it commutes,
LEMMA XorCommutes ==
    ASSUME NEW x \in W2, NEW y \in W2
    PROVE  BitXor(x, y) = BitXor(y, x)
<1>1. \A k \in 0 .. Width : Digit(BitXor(x, y), k) = Digit(BitXor(y, x), k)
  BY XorBits, WideBit
<1> QED BY <1>1, XorBits, SameBits

\* associates,
LEMMA XorAssociates ==
    ASSUME NEW x \in W2, NEW y \in W2, NEW z \in W2
    PROVE  BitXor(BitXor(x, y), z) = BitXor(x, BitXor(y, z))
<1>0. BitXor(x, y) \in W2 /\ BitXor(y, z) \in W2
  BY XorBits
<1>1. ASSUME NEW k \in 0 .. Width
      PROVE  Digit(BitXor(BitXor(x, y), z), k) = Digit(BitXor(x, BitXor(y, z)), k)
  <2>1. /\ Digit(BitXor(BitXor(x, y), z), k) = (Digit(BitXor(x, y), k) + Digit(z, k)) % 2
        /\ Digit(BitXor(x, BitXor(y, z)), k) = (Digit(x, k) + Digit(BitXor(y, z), k)) % 2
        /\ Digit(BitXor(x, y), k) = (Digit(x, k) + Digit(y, k)) % 2
        /\ Digit(BitXor(y, z), k) = (Digit(y, k) + Digit(z, k)) % 2
    BY <1>0, XorBits
  <2>2. \A a, b, c \in {0, 1} : (((a + b) % 2) + c) % 2 = (a + ((b + c) % 2)) % 2
    OBVIOUS
  <2> QED BY <2>1, <2>2, WideBit
<1>2. BitXor(BitXor(x, y), z) \in W2 /\ BitXor(x, BitXor(y, z)) \in W2
  BY <1>0, XorBits
<1> QED BY <1>1, <1>2, SameBits

\* The digits of 0.
LEMMA ZeroBit == \A k \in 0 .. Width : Digit(0, k) = 0
<1> SUFFICES ASSUME NEW k \in 0 .. Width PROVE (0 \div 2^k) % 2 = 0
  BY DEF Digit
<1> DEFINE m == 2^k
<1>1. m \in Nat \ {0}
  BY PowerStep
<1> HIDE DEF m
<1>2. 0 \div m = 0
  <2>1. 0 = m * 0 + 0 /\ 0 \in 0 .. m - 1
    BY <1>1
  <2> QED BY <1>1, <2>1, DivisionUnique
<1>3. (0 \div m) % 2 = 0
  BY <1>2
<1> QED BY <1>3 DEF m

\* and has 0 as its neutral element and every number as its own inverse.
LEMMA XorZero ==
    ASSUME NEW x \in W2
    PROVE  BitXor(x, 0) = x /\ BitXor(0, x) = x /\ BitXor(x, x) = 0
<1>0. 0 \in W2
  BY Sizes DEF W2
<1>1. \A k \in 0 .. Width : Digit(BitXor(x, 0), k) = Digit(x, k)
  BY <1>0, XorBits, ZeroBit, WideBit
<1>2. \A k \in 0 .. Width : Digit(BitXor(x, x), k) = Digit(0, k)
  BY <1>0, XorBits, ZeroBit, WideBit
<1>3. BitXor(x, 0) = x /\ BitXor(x, x) = 0
  BY <1>0, <1>1, <1>2, XorBits, SameBits
<1> QED BY <1>0, <1>3, XorCommutes

\* The highest bit of the wide numbers tells the elements.
LEMMA HighBit ==
    ASSUME NEW x \in W2
    PROVE  Digit(x, Width) = IF x > N THEN 1 ELSE 0
<1> DEFINE m == 2^Width
<1>1. m \in Nat \ {0} /\ N + 1 = m /\ x \in Nat /\ x <= 2 * m - 1
  BY Sizes DEF W2
<1> HIDE DEF m
<1>2. x > N => x \div m = 1
  <2> SUFFICES ASSUME x > N PROVE x \div m = 1
    OBVIOUS
  <2>1. x = m * 1 + (x - m) /\ x - m \in 0 .. m - 1
    BY <1>1, Sizes
  <2> HIDE DEF m
  <2> QED BY <1>1, <2>1, DivisionUnique
<1>3. ~ (x > N) => x \div m = 0
  <2> SUFFICES ASSUME ~ (x > N) PROVE x \div m = 0
    OBVIOUS
  <2>1. x = m * 0 + x /\ x \in 0 .. m - 1
    BY <1>1, Sizes
  <2> QED BY <1>1, <2>1, DivisionUnique
<1>4. (x \div m) % 2 = IF x > N THEN 1 ELSE 0
  BY <1>2, <1>3
<1> QED BY <1>4 DEF Digit, m

\* The sum of the field.
LEMMA AddIsXor ==
    ASSUME NEW x \in Elements, NEW y \in Elements
    PROVE  field_add(x, y) = BitXor(x, y) /\ field_add(x, y) \in Elements
<1>1. field_add(x, y) = BitXor(x, y)
  BY DEF field_add, XorTable
<1>2. x \in W2 /\ y \in W2 /\ ~ (x > N) /\ ~ (y > N) /\ Width \in 0 .. Width
  BY Sizes DEF Elements
<1>3. Digit(x, Width) = 0 /\ Digit(y, Width) = 0
  BY <1>2, HighBit
<1>4. BitXor(x, y) \in W2 /\ Digit(BitXor(x, y), Width) = 0
  <2>1. (0 + 0) % 2 = 0
    OBVIOUS
  <2> QED BY <1>2, <1>3, <2>1, XorBits
<1>5. ~ (BitXor(x, y) > N)
  BY <1>4, HighBit
<1>6. BitXor(x, y) \in Elements
  BY <1>4, <1>5, Sizes DEF W2, Elements
<1> QED BY <1>1, <1>6

\* The two constants that the code writes out.
LEMMA ZeroInElements == 0 \in Elements /\ 1 \in Elements
  BY Sizes DEF Elements

\* Addition makes the elements a group in which each is its own inverse.
LEMMA AddGroup ==
    /\ \A x, y \in Elements : field_add(x, y) \in Elements
    /\ \A x, y \in Elements : field_add(x, y) = field_add(y, x)
    /\ \A x, y, z \in Elements :
           field_add(field_add(x, y), z) = field_add(x, field_add(y, z))
    /\ \A x \in Elements : field_add(x, 0) = x /\ field_add(0, x) = x /\ field_add(x, x) = 0
<1>0. Elements \subseteq W2
  BY Sizes
<1>1. \A x, y \in Elements : field_add(x, y) \in Elements
  BY AddIsXor
<1>2. \A x, y \in Elements : field_add(x, y) = field_add(y, x)
  BY <1>0, AddIsXor, XorCommutes
<1>3. \A x, y, z \in Elements :
           field_add(field_add(x, y), z) = field_add(x, field_add(y, z))
  <2> SUFFICES ASSUME NEW x \in Elements, NEW y \in Elements, NEW z \in Elements
               PROVE  field_add(field_add(x, y), z) = field_add(x, field_add(y, z))
    OBVIOUS
  <2>1. /\ field_add(field_add(x, y), z) = BitXor(BitXor(x, y), z)
        /\ field_add(x, field_add(y, z)) = BitXor(x, BitXor(y, z))
    <3>1. /\ field_add(x, y) = BitXor(x, y) /\ field_add(x, y) \in Elements
          /\ field_add(y, z) = BitXor(y, z) /\ field_add(y, z) \in Elements
      BY AddIsXor
    <3>2. /\ field_add(field_add(x, y), z) = BitXor(field_add(x, y), z)
          /\ field_add(x, field_add(y, z)) = BitXor(x, field_add(y, z))
      BY <3>1, AddIsXor
    <3> QED BY <3>1, <3>2
  <2> QED BY <2>1, <1>0, XorAssociates
<1>4. \A x \in Elements : field_add(x, 0) = x /\ field_add(0, x) = x /\ field_add(x, x) = 0
  BY <1>0, AddIsXor, XorZero, ZeroInElements
<1> QED BY <1>1, <1>2, <1>3, <1>4

\* Doubling moves every bit one place up.
LEMMA DoubleBits ==
    ASSUME NEW x \in Elements
    PROVE  /\ 2 * x \in W2
           /\ Digit(2 * x, 0) = 0
           /\ \A k \in 0 .. Width - 1 : Digit(2 * x, k + 1) = Digit(x, k)
<1>0. x \in Nat /\ x <= N /\ 2 * x \in W2 /\ 2 * x \in Nat
  BY Sizes DEF W2, Elements
<1>1. Digit(2 * x, 0) = 0
  <2>1. (2 * x) \div 1 = 2 * x
    BY <1>0
  <2>2. (2 * x) % 2 = 0
    BY <1>0
  <2> QED BY <2>1, <2>2, PowerZero DEF Digit
<1>2. ASSUME NEW k \in 0 .. Width - 1 PROVE Digit(2 * x, k + 1) = Digit(x, k)
  <2> DEFINE m == 2^k
             q == x \div m
             s == x % m
  <2>1. m \in Nat \ {0} /\ 2^(k + 1) = 2 * m
    BY PowerStep, Sizes
  <2>2. q \in Nat /\ s \in 0 .. m - 1 /\ x = m * q + s
    <3> HIDE DEF m
    <3> QED BY <2>1, <1>0
  <2> HIDE DEF m, q, s
  <2>3. 2 * x = (2 * m) * q + 2 * s /\ 2 * s \in 0 .. 2 * m - 1
    BY <2>1, <2>2
  <2>4. (2 * x) \div (2 * m) = q
    <3> DEFINE a == 2 * x
               b == 2 * m
               c == 2 * s
    <3>1. a \in Int /\ b \in Nat \ {0} /\ c \in 0 .. b - 1 /\ a = b * q + c
      BY <2>1, <2>2, <2>3, <1>0
    <3> HIDE DEF a, b, c
    <3>2. a \div b = q
      BY <3>1, <2>2, DivisionUnique
    <3> QED BY <3>2 DEF a, b
  <2> QED BY <2>1, <2>4 DEF Digit, q, m
<1> QED BY <1>0, <1>1, <1>2

\* Doubling of numbers goes through the sum without carries.
LEMMA DoubleXor ==
    ASSUME NEW x \in Elements, NEW y \in Elements
    PROVE  2 * BitXor(x, y) = BitXor(2 * x, 2 * y)
<1> DEFINE z == BitXor(x, y)
<1>0. z \in Elements /\ x \in W2 /\ y \in W2
  BY AddIsXor, Sizes
<1>1. 2 * z \in W2 /\ 2 * x \in W2 /\ 2 * y \in W2
  <2> HIDE DEF z
  <2> QED BY <1>0, DoubleBits
<1>2. ASSUME NEW k \in 0 .. Width
      PROVE  Digit(2 * z, k) = Digit(BitXor(2 * x, 2 * y), k)
  <2>1. Digit(BitXor(2 * x, 2 * y), k) = (Digit(2 * x, k) + Digit(2 * y, k)) % 2
    BY <1>1, XorBits
  <2>2. CASE k = 0
    <3>1. Digit(2 * z, 0) = 0 /\ Digit(2 * x, 0) = 0 /\ Digit(2 * y, 0) = 0
      <4> HIDE DEF z
      <4> QED BY <1>0, DoubleBits
    <3> QED BY <2>1, <2>2, <3>1
  <2>3. CASE k # 0
    <3>1. k - 1 \in 0 .. Width - 1 /\ (k - 1) + 1 = k /\ k - 1 \in 0 .. Width
      BY <2>3, Sizes
    <3>2. /\ Digit(2 * z, k) = Digit(z, k - 1) /\ Digit(2 * x, k) = Digit(x, k - 1)
          /\ Digit(2 * y, k) = Digit(y, k - 1)
      <4> HIDE DEF z
      <4>1. \A v \in Elements, j \in 0 .. Width - 1 : Digit(2 * v, j + 1) = Digit(v, j)
        BY DoubleBits
      <4>2. \A v \in Elements : Digit(2 * v, (k - 1) + 1) = Digit(v, k - 1)
        BY <4>1, <3>1
      <4>3. \A v \in Elements : Digit(2 * v, k) = Digit(v, k - 1)
        BY <4>2, <3>1
      <4> QED BY <1>0, <4>3
    <3>3. Digit(z, k - 1) = (Digit(x, k - 1) + Digit(y, k - 1)) % 2
      BY <1>0, <3>1, XorBits
    <3> QED BY <2>1, <3>2, <3>3
  <2> QED BY <2>2, <2>3
<1>3. BitXor(2 * x, 2 * y) \in W2
  BY <1>1, XorBits
<1> HIDE DEF z
<1>4. 2 * z = BitXor(2 * x, 2 * y)
  BY <1>1, <1>2, <1>3, SameBits
<1> QED BY <1>4 DEF z

------------------------------------------------------------------------------
(* Doubling, and what trypoly says of its powers.                          *)

\* The sum of two wide numbers is an element just when both or neither is one.
LEMMA HighXor ==
    ASSUME NEW x \in W2, NEW y \in W2
    PROVE  BitXor(x, y) > N <=> ((x > N /\ ~ (y > N)) \/ (~ (x > N) /\ y > N))
<1>1. Width \in 0 .. Width
  BY Sizes
<1>2. BitXor(x, y) \in W2 /\ Digit(BitXor(x, y), Width) = (Digit(x, Width) + Digit(y, Width)) % 2
  BY <1>1, XorBits
<1>3. /\ Digit(BitXor(x, y), Width) = IF BitXor(x, y) > N THEN 1 ELSE 0
      /\ Digit(x, Width) = IF x > N THEN 1 ELSE 0
      /\ Digit(y, Width) = IF y > N THEN 1 ELSE 0
  BY <1>2, HighBit
<1>4. (0 + 0) % 2 = 0 /\ (1 + 0) % 2 = 1 /\ (0 + 1) % 2 = 1 /\ (1 + 1) % 2 = 0
  OBVIOUS
<1> QED BY <1>2, <1>3, <1>4

\* A wide number without its highest bit is an element.
LEMMA WideIsElement == \A x \in W2 : ~ (x > N) => x \in Elements
  BY Sizes DEF W2, Elements

\* One step of field_init stays among the elements and is linear.
LEMMA DoubledLinear ==
    /\ \A x \in Elements : Doubled[x] \in Elements
    /\ Doubled[0] = 0
    /\ \A x, y \in Elements : Doubled[field_add(x, y)] = field_add(Doubled[x], Doubled[y])
<1> DEFINE p == PrimitivePoly
<1>0. p \in W2 /\ p > N
  BY Sizes DEF W2
<1>1. \A x \in Elements : Doubled[x] = IF 2 * x > N THEN BitXor(2 * x, p) ELSE 2 * x
  BY DEF Doubled, DoubledBy
<1> HIDE DEF p
<1>2. ASSUME NEW x \in Elements PROVE Doubled[x] \in Elements
  <2>1. 2 * x \in W2
    BY DoubleBits
  <2>2. 2 * x > N => BitXor(2 * x, p) \in W2 /\ ~ (BitXor(2 * x, p) > N)
    BY <2>1, <1>0, XorBits, HighXor
  <2>3. Doubled[x] \in W2 /\ ~ (Doubled[x] > N)
    BY <2>1, <2>2, <1>1
  <2> QED BY <2>3, WideIsElement
<1>3. Doubled[0] = 0
  <2>1. 0 \in Elements /\ ~ (2 * 0 > N) /\ 2 * 0 = 0
    BY Sizes DEF Elements
  <2> QED BY <2>1, <1>1
<1>4. ASSUME NEW x \in Elements, NEW y \in Elements
      PROVE  Doubled[field_add(x, y)] = field_add(Doubled[x], Doubled[y])
  <2> DEFINE X == 2 * x
             Y == 2 * y
             Z == 2 * BitXor(x, y)
             dx == Doubled[x]
             dy == Doubled[y]
             dz == Doubled[BitXor(x, y)]
  <2>1. field_add(x, y) = BitXor(x, y) /\ BitXor(x, y) \in Elements
    BY AddIsXor
  <2>2. X \in W2 /\ Y \in W2 /\ Z = BitXor(X, Y)
    BY DoubleBits, DoubleXor
  <2>3. /\ dx = IF X > N THEN BitXor(X, p) ELSE X
        /\ dy = IF Y > N THEN BitXor(Y, p) ELSE Y
        /\ dz = IF Z > N THEN BitXor(Z, p) ELSE Z
    BY <1>1, <2>1
  <2>4. dx \in Elements /\ dy \in Elements
    BY <1>2
  <2>5. field_add(dx, dy) = BitXor(dx, dy)
    <3> HIDE DEF dx, dy
    <3> QED BY <2>4, AddIsXor
  <2> HIDE DEF X, Y, Z, dx, dy, dz
  <2>6. BitXor(X, p) \in W2 /\ BitXor(Y, p) \in W2 /\ BitXor(p, Y) = BitXor(Y, p)
    BY <2>2, <1>0, XorBits, XorCommutes
  <2>7. CASE X > N /\ Y > N
    <3>1. ~ (Z > N)
      BY <2>2, <2>7, HighXor
    <3>2. BitXor(BitXor(X, p), BitXor(Y, p)) = BitXor(X, Y)
      <4>1. BitXor(BitXor(X, p), BitXor(Y, p)) = BitXor(X, BitXor(p, BitXor(Y, p)))
        BY <2>2, <2>6, <1>0, XorAssociates
      <4>2. BitXor(p, BitXor(Y, p)) = BitXor(BitXor(p, p), Y)
        BY <2>2, <2>6, <1>0, XorAssociates
      <4>3. BitXor(BitXor(p, p), Y) = Y
        BY <1>0, <2>2, XorZero
      <4> QED BY <4>1, <4>2, <4>3
    <3> QED BY <2>2, <2>3, <2>7, <3>1, <3>2, <2>5, <2>1 DEF dz, dx, dy
  <2>8. CASE X > N /\ ~ (Y > N)
    <3>1. Z > N
      BY <2>2, <2>8, HighXor
    <3>2. BitXor(BitXor(X, p), Y) = BitXor(BitXor(X, Y), p)
      <4>1. BitXor(BitXor(X, p), Y) = BitXor(X, BitXor(p, Y))
        BY <2>2, <1>0, XorAssociates
      <4>2. BitXor(BitXor(X, Y), p) = BitXor(X, BitXor(Y, p))
        BY <2>2, <1>0, XorAssociates
      <4> QED BY <4>1, <4>2, <2>6
    <3> QED BY <2>2, <2>3, <2>8, <3>1, <3>2, <2>5, <2>1 DEF dz, dx, dy
  <2>9. CASE ~ (X > N) /\ Y > N
    <3>1. Z > N
      BY <2>2, <2>9, HighXor
    <3>2. BitXor(X, BitXor(Y, p)) = BitXor(BitXor(X, Y), p)
      BY <2>2, <1>0, XorAssociates
    <3> QED BY <2>2, <2>3, <2>9, <3>1, <3>2, <2>5, <2>1 DEF dz, dx, dy
  <2>10. CASE ~ (X > N) /\ ~ (Y > N)
    <3>1. ~ (Z > N)
      BY <2>2, <2>10, HighXor
    <3> QED BY <2>2, <2>3, <2>10, <3>1, <2>5, <2>1 DEF dz, dx, dy
  <2> QED BY <2>7, <2>8, <2>9, <2>10
<1> QED BY <1>2, <1>3, <1>4

\* The table of powers.
LEMMA PowerTable ==
    /\ Exp \in [0 .. 2 * N + 1 -> Elements]
    /\ Exp[0] = 1
    /\ \A i \in 0 .. 2 * N : Exp[i + 1] = Doubled[Exp[i]]
<1> DEFINE n == 2 * N + 1
           g == [p \in (1 .. n) \X Elements |-> Doubled[p[2]]]
           Is(f) == f = [i \in 0 .. n |-> IF i = 0 THEN 1 ELSE Doubled[f[i - 1]]]
<1>0. n \in Nat
  BY Sizes
<1>1. StepOn(g, n, Elements)
  BY DoubledLinear DEF StepOn
<1>2. \A i \in 1 .. n, x \in Elements : g[<<i, x>>] = Doubled[x]
  OBVIOUS
<1> HIDE DEF g
<1>3. PICK f : Follows(f, g, n, Elements, 1)
  <2> HIDE DEF n
  <2> QED BY <1>0, <1>1, ZeroInElements, RecursionExists
<1>4. f \in [0 .. n -> Elements] /\ f[0] = 1 /\ \A i \in 1 .. n : f[i] = g[<<i, f[i - 1]>>]
  BY <1>3 DEF Follows
<1> HIDE DEF n
<1>5. \A i \in 1 .. n : f[i] = Doubled[f[i - 1]]
  <2> SUFFICES ASSUME NEW i \in 1 .. n PROVE f[i] = Doubled[f[i - 1]]
    OBVIOUS
  <2>1. i - 1 \in 0 .. n
    BY <1>0
  <2> QED BY <2>1, <1>2, <1>4
<1>6. Is(f)
  <2>1. \A i \in 0 .. n : f[i] = IF i = 0 THEN 1 ELSE Doubled[f[i - 1]]
    <3> SUFFICES ASSUME NEW i \in 0 .. n PROVE f[i] = IF i = 0 THEN 1 ELSE Doubled[f[i - 1]]
      OBVIOUS
    <3>1. i = 0 \/ i \in 1 .. n
      BY <1>0
    <3> QED BY <3>1, <1>4, <1>5
  <2> QED BY <2>1, <1>4
<1>7. Power = CHOOSE h : Is(h)
  BY DEF Power, n
<1>8. Is(Power)
  <2> HIDE DEF Is
  <2> QED BY <1>6, <1>7
<1>9. Power[0] = 1 /\ \A i \in 1 .. n : Power[i] = Doubled[Power[i - 1]]
  BY <1>8, <1>0
<1>10. \A i \in Nat : i \in {k \in Nat : k <= n => Power[k] \in Elements}
  <2> DEFINE S == {k \in Nat : k <= n => Power[k] \in Elements}
  <2>1. 0 \in S
    BY <1>9, ZeroInElements
  <2>2. ASSUME NEW k \in Nat, k \in S PROVE k + 1 \in S
    <3> SUFFICES ASSUME k + 1 <= n PROVE Power[k + 1] \in Elements
      OBVIOUS
    <3>1. k + 1 \in 1 .. n /\ (k + 1) - 1 = k /\ Power[k] \in Elements
      BY <2>2, <1>0
    <3>2. Power[k + 1] = Doubled[Power[k]]
      BY <3>1, <1>9
    <3> QED BY <3>1, <3>2, DoubledLinear
  <2> HIDE DEF S
  <2>3. \A k \in Nat : k \in S
    BY <2>1, <2>2, SetInduction
  <2> QED BY <2>3 DEF S
<1>11. \A i \in 0 .. n : Power[i] \in Elements /\ Exp[i] = Power[i]
  BY <1>10, <1>0 DEF Exp, n
<1>12. \A i \in 0 .. 2 * N : i \in 0 .. n /\ i + 1 \in 1 .. n /\ (i + 1) - 1 = i /\ i + 1 \in 0 .. n
  BY Sizes DEF n
<1>13. Exp \in [0 .. n -> Elements]
  BY <1>11 DEF Exp, n
<1> QED BY <1>9, <1>11, <1>12, <1>13, <1>0 DEF n

\* A sum without carries is zero only of equals.
LEMMA XorCancels ==
    ASSUME NEW x \in W2, NEW y \in W2, BitXor(x, y) = 0
    PROVE  x = y
<1>1. BitXor(x, BitXor(x, y)) = BitXor(BitXor(x, x), y)
  BY XorAssociates
<1>2. BitXor(x, 0) = x /\ BitXor(x, x) = 0 /\ BitXor(0, y) = y
  BY XorZero
<1> QED BY <1>1, <1>2

\* trypoly tests the powers that the table holds (find_rs_primitive_poly.c).
LEMMA PrimitiveMeans == Cardinality({Exp[i] : i \in 1 .. N}) = N
<1> DEFINE double == DoubledBy(PrimitivePoly)
           Is(f) == f = [i \in 0 .. N |-> IF i = 0 THEN 1 ELSE double[f[i - 1]]]
           F == CHOOSE f : Is(f)
           f0 == [i \in 0 .. N |-> Exp[i]]
<1>0. N \in Nat \ {0}
  BY Sizes
<1>1. Is(f0)
  <2>1. \A i \in 0 .. N : f0[i] = IF i = 0 THEN 1 ELSE double[f0[i - 1]]
    <3> SUFFICES ASSUME NEW i \in 0 .. N, i # 0 PROVE Exp[i] = Doubled[Exp[i - 1]]
      BY PowerTable, <1>0 DEF Doubled
    <3>1. i - 1 \in 0 .. 2 * N /\ (i - 1) + 1 = i
      BY <1>0
    <3>2. Exp[(i - 1) + 1] = Doubled[Exp[i - 1]]
      BY <3>1, PowerTable
    <3> QED BY <3>1, <3>2
  <2> QED BY <2>1
<1>2. Is(F)
  <2> HIDE DEF Is
  <2> QED BY <1>1
<1>3. F[0] = 1 /\ \A i \in 1 .. N : F[i] = Doubled[F[i - 1]]
  <2> HIDE DEF F
  <2> QED BY <1>2, <1>0 DEF Doubled
<1>4. trypoly(PrimitivePoly) = (Cardinality({F[i] : i \in 1 .. N}) = N)
  BY DEF trypoly
<1> HIDE DEF F, f0, Is
<1>5. \A i \in 0 .. N : F[i] = Exp[i]
  <2> DEFINE S == {k \in Nat : k <= N => F[k] = Exp[k]}
  <2>1. 0 \in S
    BY <1>3, PowerTable
  <2>2. ASSUME NEW k \in Nat, k \in S PROVE k + 1 \in S
    <3> SUFFICES ASSUME k + 1 <= N PROVE F[k + 1] = Exp[k + 1]
      OBVIOUS
    <3>1. k + 1 \in 1 .. N /\ (k + 1) - 1 = k /\ k \in 0 .. 2 * N /\ F[k] = Exp[k]
      BY <2>2, <1>0
    <3>2. F[k + 1] = Doubled[F[k]] /\ Exp[k + 1] = Doubled[Exp[k]]
      BY <3>1, <1>3, PowerTable
    <3> QED BY <3>1, <3>2
  <2> HIDE DEF S
  <2>3. \A k \in Nat : k \in S
    BY <2>1, <2>2, SetInduction
  <2> QED BY <2>3, <1>0 DEF S
<1>6. {F[i] : i \in 1 .. N} = {Exp[i] : i \in 1 .. N}
  <2>1. \A i \in 1 .. N : F[i] = Exp[i]
    BY <1>5, <1>0
  <2> QED BY <2>1
<1> QED BY <1>4, <1>6, GaloisFieldAssumption

\* No two of the powers are the same.
LEMMA PowersDiffer ==
    ASSUME NEW i \in 1 .. N, NEW j \in 1 .. N, Exp[i] = Exp[j]
    PROVE  i = j
<1> DEFINE A == 1 .. N
           B == {Exp[k] : k \in A}
           f == [k \in A |-> Exp[k]]
<1>1. f \in Surjection(A, B)
  <2>1. f \in [A -> B] /\ \A y \in B : \E k \in A : f[k] = y
    OBVIOUS
  <2> HIDE DEF f, A, B
  <2> QED BY <2>1 DEF Surjection
<1>2. IsFiniteSet(A) /\ Cardinality(A) = N
  BY Sizes, FS_Interval
<1>3. Cardinality(B) = Cardinality(A)
  BY <1>2, PrimitiveMeans
<1>4. f \in Injection(A, B)
  <2> HIDE DEF f, A, B
  <2> QED BY <1>1, <1>2, <1>3, FS_SurjSameCardinalityImpliesInj
<1>5. \A a, b \in A : f[a] = f[b] => a = b
  <2> HIDE DEF f, A, B
  <2> QED BY <1>4 DEF Injection, IsInjective
<1> QED BY <1>5

\* And none is zero: a polynomial that doubles an element to zero is even, and
\* so would be all the powers.
LEMMA PowersNotZero ==
    ASSUME N >= 2
    PROVE  \A k \in 1 .. N : Exp[k] \in 1 .. N
<1>0. N \in Nat /\ N \in 1 .. N
  BY Sizes
<1>1. \A k \in 1 .. N : Exp[k] \in 0 .. N
  <2> SUFFICES ASSUME NEW k \in 1 .. N PROVE Exp[k] \in 0 .. N
    OBVIOUS
  <2>1. k \in 0 .. 2 * N + 1
    BY <1>0
  <2>2. Exp[k] \in Elements
    BY <2>1, PowerTable
  <2> QED BY <2>2 DEF Elements
<1>2. ASSUME NEW k \in 1 .. N - 1 PROVE Exp[k] # 0
  <2> SUFFICES ASSUME Exp[k] = 0 PROVE FALSE
    OBVIOUS
  <2>1. Exp[k + 1] = 0 /\ k \in 1 .. N /\ k + 1 \in 1 .. N
    BY PowerTable, DoubledLinear, <1>0
  <2> QED BY <2>1, PowersDiffer
<1>3. ASSUME Exp[N] = 0 PROVE FALSE
  <2> DEFINE x == Exp[N - 1]
             p == PrimitivePoly
  <2>1. N - 1 \in 1 .. N - 1 /\ N - 1 \in 0 .. 2 * N /\ (N - 1) + 1 = N
    BY <1>0
  <2>2. x \in Elements /\ x # 0 /\ Doubled[x] = 0
    <3>1. Exp[(N - 1) + 1] = Doubled[Exp[N - 1]]
      BY <2>1, PowerTable
    <3> QED BY <2>1, <3>1, <1>2, <1>3, PowerTable
  <2> HIDE DEF x
  <2>3. p \in W2 /\ p > N
    BY Sizes DEF W2
  <2>4. \A y \in Elements : Doubled[y] = IF 2 * y > N THEN BitXor(2 * y, p) ELSE 2 * y
    BY DEF Doubled, DoubledBy
  <2> HIDE DEF p
  <2>5. p = 2 * x
    <3>1. x \in Nat /\ 2 * x \in W2
      BY <2>2, DoubleBits DEF Elements
    <3>2. BitXor(2 * x, p) = 0
      BY <2>2, <2>4, <3>1
    <3>3. 2 * x = p
      BY <3>1, <3>2, <2>3, XorCancels
    <3> QED BY <3>3
  <2>6. 0 \in 0 .. Width /\ Digit(p, 0) = 0
    BY <2>2, <2>5, DoubleBits, Sizes
  <2>7. ASSUME NEW y \in Elements PROVE Digit(Doubled[y], 0) = 0
    <3>1. 2 * y \in W2 /\ Digit(2 * y, 0) = 0
      BY DoubleBits
    <3>2. Digit(BitXor(2 * y, p), 0) = (0 + 0) % 2
      BY <3>1, <2>3, <2>6, XorBits
    <3>3. (0 + 0) % 2 = 0
      OBVIOUS
    <3> QED BY <3>1, <3>2, <3>3, <2>4
  <2>8. ASSUME NEW k \in 1 .. N PROVE Digit(Exp[k], 0) = 0
    <3>1. k - 1 \in 0 .. 2 * N /\ k - 1 \in 0 .. 2 * N + 1 /\ (k - 1) + 1 = k
      BY <1>0
    <3>2. Exp[(k - 1) + 1] = Doubled[Exp[k - 1]] /\ Exp[k - 1] \in Elements
      BY <3>1, PowerTable
    <3> QED BY <3>1, <3>2, <2>7
  <2>9. Digit(1, 0) = 1 /\ Digit(N, 0) = 1
    <3>1. Digit(1, 0) = (1 \div 1) % 2 /\ Digit(N, 0) = (N \div 1) % 2
      BY PowerZero DEF Digit
    <3>2. N % 2 = 1
      <4>1. Width - 1 \in Nat /\ (Width - 1) + 1 = Width
        BY Sizes
      <4>2. 2^Width = 2 * 2^(Width - 1) /\ 2^(Width - 1) \in Nat
        BY <4>1, PowerStep
      <4>3. \A a, b \in Nat : a + 1 = 2 * b => a % 2 = 1
        OBVIOUS
      <4>4. N + 1 = 2 * 2^(Width - 1)
        BY <4>2, Sizes
      <4> QED BY <4>2, <4>3, <4>4, <1>0
    <3> QED BY <3>1, <3>2, <1>0
  <2> DEFINE B == {Exp[k] : k \in 1 .. N}
             E1 == Elements \ {1}
             E2 == E1 \ {N}
  <2>10. B \subseteq E2
    <3> SUFFICES ASSUME NEW k \in 1 .. N PROVE Exp[k] \in E2
      OBVIOUS
    <3>1. Exp[k] \in Elements
      BY <1>1 DEF Elements
    <3> QED BY <3>1, <2>8, <2>9
  <2>11. IsFiniteSet(Elements) /\ Cardinality(Elements) = N + 1
    BY <1>0, FS_Interval DEF Elements
  <2>12. IsFiniteSet(E1) /\ Cardinality(E1) = N
    BY <2>11, <1>0, ZeroInElements, FS_RemoveElement
  <2>13. IsFiniteSet(E2) /\ Cardinality(E2) = N - 1
    <3>1. N \in E1
      BY <1>0 DEF Elements
    <3> HIDE DEF E1
    <3> QED BY <2>12, <3>1, FS_RemoveElement
  <2>14. Cardinality(B) <= N - 1
    <3> HIDE DEF E1, E2, B
    <3> QED BY <2>10, <2>13, FS_Subset
  <2> QED BY <2>14, PrimitiveMeans, <1>0
<1>4. ASSUME NEW k \in 1 .. N PROVE Exp[k] # 0
  <2>1. k = N \/ k \in 1 .. N - 1
    BY <1>0
  <2> QED BY <2>1, <1>2, <1>3
<1> QED BY <1>1, <1>4, <1>0

\* The powers come round after N steps.
LEMMA PowersCycle ==
    ASSUME N >= 2
    PROVE  /\ \A x \in 1 .. N : \E i \in 1 .. N : Exp[i] = x
           /\ Exp[N] = 1
           /\ \A i \in 0 .. N + 1 : Exp[i + N] = Exp[i]
<1>0. N \in Nat
  BY Sizes
<1>1. \A x \in 1 .. N : \E i \in 1 .. N : Exp[i] = x
  <2> DEFINE A == 1 .. N
             B == {Exp[k] : k \in A}
  <2>1. B \subseteq A
    BY PowersNotZero
  <2>2. IsFiniteSet(A) /\ Cardinality(A) = N
    BY <1>0, FS_Interval
  <2>3. Cardinality(B) = Cardinality(A)
    BY <2>2, PrimitiveMeans
  <2>4. A = B
    <3> HIDE DEF A, B
    <3> QED BY <2>1, <2>2, <2>3, FS_Subset
  <2> QED BY <2>4
<1>2. Exp[N] = 1
  <2>1. 1 \in 1 .. N
    BY <1>0
  <2>2. PICK j \in 1 .. N : Exp[j] = 1
    BY <1>1, <2>1
  <2>3. CASE j = N
    BY <2>2, <2>3
  <2>4. CASE j # N
    <3>1. j + 1 \in 1 .. N /\ j \in 0 .. 2 * N /\ j + 1 # 1
      BY <2>4, <1>0
    <3>2. Exp[j + 1] = Doubled[Exp[j]] /\ Exp[0 + 1] = Doubled[Exp[0]] /\ Exp[0] = 1
      BY <3>1, PowerTable, <1>0
    <3>3. Exp[j + 1] = Exp[1]
      BY <3>2, <2>2
    <3>4. j + 1 = 1
      BY <3>1, <3>3, <2>1, PowersDiffer
    <3> QED BY <3>1, <3>4
  <2> QED BY <2>3, <2>4
<1>3. \A i \in 0 .. N + 1 : Exp[i + N] = Exp[i]
  <2> DEFINE S == {k \in Nat : k <= N + 1 => Exp[k + N] = Exp[k]}
  <2>1. 0 \in S
    BY <1>2, <1>0, PowerTable
  <2>2. ASSUME NEW k \in Nat, k \in S PROVE k + 1 \in S
    <3> SUFFICES ASSUME k + 1 <= N + 1 PROVE Exp[(k + 1) + N] = Exp[k + 1]
      OBVIOUS
    <3>1. Exp[k + N] = Exp[k] /\ k \in 0 .. 2 * N /\ k + N \in 0 .. 2 * N
          /\ (k + N) + 1 = (k + 1) + N
      BY <2>2, <1>0
    <3>2. Exp[k + 1] = Doubled[Exp[k]] /\ Exp[(k + N) + 1] = Doubled[Exp[k + N]]
      BY <3>1, PowerTable
    <3> QED BY <3>1, <3>2
  <2> HIDE DEF S
  <2>3. \A k \in Nat : k \in S
    BY <2>1, <2>2, SetInduction
  <2> QED BY <2>3, <1>0 DEF S
<1> QED BY <1>1, <1>2, <1>3

------------------------------------------------------------------------------
(* The field: products and quotients.                                      *)

\* Logarithms undo powers.
LEMMA LogTable ==
    ASSUME N >= 2
    PROVE  /\ Log[0] = 0
           /\ \A x \in 1 .. N : Log[x] \in 1 .. N /\ Exp[Log[x]] = x
           /\ \A i \in 1 .. N : Exp[i] \in 1 .. N /\ Log[Exp[i]] = i
           /\ \A i \in N + 1 .. 2 * N :
                  Exp[i] = Exp[i - N] /\ Exp[i] \in 1 .. N /\ Log[Exp[i]] = i - N
<1>0. N \in Nat
  BY Sizes
<1>1. Log[0] = 0
  BY ZeroInElements DEF Log
<1>2. ASSUME NEW x \in 1 .. N PROVE Log[x] \in 1 .. N /\ Exp[Log[x]] = x
  <2>1. \E i \in 1 .. N : Exp[i] = x
    BY PowersCycle
  <2>2. Log[x] = CHOOSE i \in 1 .. N : Exp[i] = x
    BY <1>0 DEF Log, Elements
  <2> QED BY <2>1, <2>2
<1>3. ASSUME NEW i \in 1 .. N PROVE Exp[i] \in 1 .. N /\ Log[Exp[i]] = i
  <2>1. Exp[i] \in 1 .. N
    BY PowersNotZero
  <2>2. Log[Exp[i]] \in 1 .. N /\ Exp[Log[Exp[i]]] = Exp[i]
    BY <1>2, <2>1
  <2> QED BY <2>1, <2>2, PowersDiffer
<1>4. ASSUME NEW i \in N + 1 .. 2 * N
      PROVE  Exp[i] = Exp[i - N] /\ Exp[i] \in 1 .. N /\ Log[Exp[i]] = i - N
  <2>1. i - N \in 1 .. N /\ i - N \in 0 .. N + 1 /\ (i - N) + N = i
    BY <1>0
  <2>2. Exp[(i - N) + N] = Exp[i - N]
    BY <2>1, PowersCycle
  <2> QED BY <1>3, <2>1, <2>2
<1> QED BY <1>1, <1>2, <1>3, <1>4

\* The product by a power, as the loop of field_init makes it.
LEMMA MulDistributes ==
    ASSUME N >= 2, NEW x \in Elements, NEW y \in Elements, NEW z \in Elements
    PROVE  field_mul(x, field_add(y, z)) = field_add(field_mul(x, y), field_mul(x, z))
<1> DEFINE E(i, v) == IF v = 0 THEN 0 ELSE Exp[i + Log[v]]
           w == field_add(y, z)
           S == {i \in Nat : i <= N => /\ \A v \in Elements : E(i, v) \in Elements
                                       /\ E(i, w) = field_add(E(i, y), E(i, z))}
<1>0. /\ N \in Nat /\ w \in Elements
      /\ \A v \in Elements : v = 0 \/ v \in 1 .. N
      /\ 0 \in Elements
  BY Sizes, AddGroup DEF Elements
<1>1. \A v \in Elements : E(0, v) = v
  <2> SUFFICES ASSUME NEW v \in 1 .. N PROVE Exp[0 + Log[v]] = v
    BY <1>0
  <2>1. Log[v] \in 1 .. N /\ Exp[Log[v]] = v
    BY LogTable
  <2>2. 0 + Log[v] = Log[v]
    BY <2>1
  <2> QED BY <2>1, <2>2
<1>2. \A i \in 0 .. N, v \in Elements : E(i + 1, v) = Doubled[E(i, v)]
  <2> SUFFICES ASSUME NEW i \in 0 .. N, NEW v \in Elements PROVE E(i + 1, v) = Doubled[E(i, v)]
    OBVIOUS
  <2>1. CASE v = 0
    BY <2>1, DoubledLinear
  <2>2. CASE v \in 1 .. N
    <3>1. Log[v] \in 1 .. N
      BY <2>2, LogTable
    <3>2. i + Log[v] \in 0 .. 2 * N /\ (i + Log[v]) + 1 = (i + 1) + Log[v]
      BY <3>1, <1>0
    <3>3. Exp[(i + Log[v]) + 1] = Doubled[Exp[i + Log[v]]]
      BY <3>2, PowerTable
    <3> QED BY <2>2, <3>2, <3>3
  <2> QED BY <2>1, <2>2, <1>0
<1>3. 0 \in S
  BY <1>1, <1>0
<1>4. ASSUME NEW k \in Nat, k \in S PROVE k + 1 \in S
  <2> HIDE DEF E, w
  <2> SUFFICES ASSUME k + 1 <= N
               PROVE  /\ \A v \in Elements : E(k + 1, v) \in Elements
                      /\ E(k + 1, w) = field_add(E(k + 1, y), E(k + 1, z))
    OBVIOUS
  <2>1. k \in 0 .. N /\ (\A v \in Elements : E(k, v) \in Elements)
        /\ E(k, w) = field_add(E(k, y), E(k, z))
    BY <1>4, <1>0
  <2>2. \A v \in Elements : E(k + 1, v) = Doubled[E(k, v)]
    BY <2>1, <1>2
  <2>3. Doubled[field_add(E(k, y), E(k, z))] = field_add(Doubled[E(k, y)], Doubled[E(k, z)])
    BY <2>1, DoubledLinear
  <2> QED BY <2>1, <2>2, <2>3, <1>0, DoubledLinear
<1>5. \A k \in Nat : k \in S
  <2> HIDE DEF S
  <2> QED BY <1>3, <1>4, SetInduction
<1>6. CASE x = 0
  BY <1>6, <1>0, AddGroup DEF field_mul
<1>7. CASE x \in 1 .. N
  <2>1. Log[x] \in 1 .. N
    BY <1>7, LogTable
  <2>2. Log[x] \in S
    BY <2>1, <1>5
  <2>3. E(Log[x], w) = field_add(E(Log[x], y), E(Log[x], z))
    <3> HIDE DEF E, w
    <3> QED BY <2>1, <2>2, <1>0
  <2>4. \A v \in Elements : field_mul(x, v) = E(Log[x], v)
    BY <1>7 DEF field_mul
  <2> HIDE DEF E
  <2> QED BY <2>3, <2>4, <1>0
<1> QED BY <1>6, <1>7, <1>0

\* The logarithm of a product of two powers.
LEMMA MulOfNonzero ==
    ASSUME N >= 2, NEW x \in 1 .. N, NEW y \in 1 .. N
    PROVE  /\ field_mul(x, y) = Exp[Log[x] + Log[y]]
           /\ field_mul(x, y) \in 1 .. N
           /\ Log[field_mul(x, y)] = Wrapped(Log[x] + Log[y])
<1>1. N \in Nat /\ Log[x] \in 1 .. N /\ Log[y] \in 1 .. N
  BY Sizes, LogTable
<1>2. field_mul(x, y) = Exp[Log[x] + Log[y]]
  BY DEF field_mul
<1>3. Log[x] + Log[y] \in 1 .. N \/ Log[x] + Log[y] \in N + 1 .. 2 * N
  BY <1>1
<1> QED BY <1>1, <1>2, <1>3, LogTable DEF Wrapped

\* The same for the quotient of two elements that are not zero.
LEMMA DivOfNonzero ==
    ASSUME N >= 2, NEW x \in 1 .. N, NEW y \in 1 .. N
    PROVE  /\ field_div(x, y) = Exp[N + Log[x] - Log[y]]
           /\ field_div(x, y) \in 1 .. N
           /\ Log[field_div(x, y)] = Wrapped(N + Log[x] - Log[y])
<1>1. N \in Nat /\ Log[x] \in 1 .. N /\ Log[y] \in 1 .. N
  BY Sizes, LogTable
<1>2. field_div(x, y) = Exp[N + Log[x] - Log[y]]
  BY DEF field_div
<1>3. N + Log[x] - Log[y] \in 1 .. N \/ N + Log[x] - Log[y] \in N + 1 .. 2 * N
  BY <1>1
<1> QED BY <1>1, <1>2, <1>3, LogTable DEF Wrapped

\* Products: commutative, associative, with 0 and 1 in their roles.
LEMMA MulMonoid ==
    ASSUME N >= 2
    PROVE  /\ \A x, y \in Elements : field_mul(x, y) \in Elements
           /\ \A x, y \in Elements : field_mul(x, y) = field_mul(y, x)
           /\ \A x, y, z \in Elements :
                  field_mul(field_mul(x, y), z) = field_mul(x, field_mul(y, z))
           /\ \A x \in Elements : field_mul(1, x) = x
           /\ \A x : field_mul(0, x) = 0 /\ field_mul(x, 0) = 0
<1>0. N \in Nat /\ (\A v \in Elements : v = 0 \/ v \in 1 .. N) /\ 1 .. N \subseteq Elements
      /\ 0 \in Elements /\ 0 \notin 1 .. N
  BY Sizes DEF Elements
<1>1. \A x : field_mul(0, x) = 0 /\ field_mul(x, 0) = 0
  BY DEF field_mul
<1>2. \A x, y \in Elements : field_mul(x, y) \in Elements
  <2> SUFFICES ASSUME NEW x \in Elements, NEW y \in Elements PROVE field_mul(x, y) \in Elements
    OBVIOUS
  <2>1. CASE x = 0 \/ y = 0
    BY <2>1, <1>0, <1>1
  <2>2. CASE x \in 1 .. N /\ y \in 1 .. N
    BY <2>2, <1>0, MulOfNonzero
  <2> QED BY <2>1, <2>2, <1>0
<1>3. \A x, y \in Elements : field_mul(x, y) = field_mul(y, x)
  <2> SUFFICES ASSUME NEW x \in Elements, NEW y \in Elements
               PROVE  field_mul(x, y) = field_mul(y, x)
    OBVIOUS
  <2>1. CASE x = 0 \/ y = 0
    BY <2>1, <1>1
  <2>2. CASE x \in 1 .. N /\ y \in 1 .. N
    <3>1. Log[x] \in 1 .. N /\ Log[y] \in 1 .. N
      BY <2>2, LogTable
    <3>2. Log[x] + Log[y] = Log[y] + Log[x]
      BY <3>1
    <3>3. /\ field_mul(x, y) = Exp[Log[x] + Log[y]]
          /\ field_mul(y, x) = Exp[Log[y] + Log[x]]
      BY <2>2, MulOfNonzero
    <3> QED BY <3>2, <3>3
  <2> QED BY <2>1, <2>2, <1>0
<1>4. \A x, y, z \in Elements :
                  field_mul(field_mul(x, y), z) = field_mul(x, field_mul(y, z))
  <2> SUFFICES ASSUME NEW x \in Elements, NEW y \in Elements, NEW z \in Elements
               PROVE  field_mul(field_mul(x, y), z) = field_mul(x, field_mul(y, z))
    OBVIOUS
  <2>1. CASE x = 0 \/ y = 0 \/ z = 0
    BY <2>1, <1>1
  <2>2. CASE x \in 1 .. N /\ y \in 1 .. N /\ z \in 1 .. N
    <3> DEFINE a == Log[x]
               b == Log[y]
               c == Log[z]
    <3>1. a \in 1 .. N /\ b \in 1 .. N /\ c \in 1 .. N
      BY <2>2, LogTable
    <3>2. /\ field_mul(x, y) \in 1 .. N /\ Log[field_mul(x, y)] = Wrapped(a + b)
          /\ field_mul(y, z) \in 1 .. N /\ Log[field_mul(y, z)] = Wrapped(b + c)
      BY <2>2, MulOfNonzero
    <3>3. /\ field_mul(field_mul(x, y), z) = Exp[Wrapped(a + b) + c]
          /\ field_mul(x, field_mul(y, z)) = Exp[a + Wrapped(b + c)]
      <4> HIDE DEF a, b, c
      <4>1. field_mul(field_mul(x, y), z) = Exp[Wrapped(a + b) + Log[z]]
          <5>1. field_mul(field_mul(x, y), z) = Exp[Log[field_mul(x, y)] + Log[z]]
            BY <2>2, <3>2, MulOfNonzero
          <5> QED BY <5>1, <3>2
      <4>2. field_mul(x, field_mul(y, z)) = Exp[Log[x] + Wrapped(b + c)]
          <5>1. field_mul(x, field_mul(y, z)) = Exp[Log[x] + Log[field_mul(y, z)]]
            BY <2>2, <3>2, MulOfNonzero
          <5> QED BY <5>1, <3>2
      <4> QED BY <4>1, <4>2 DEF a, c
    <3> HIDE DEF a, b, c
    <3> DEFINE u == Wrapped(a + b) + c
               v == a + Wrapped(b + c)
    <3>4. u \in 1 .. 2 * N /\ v \in 1 .. 2 * N /\ (u = v \/ u = v + N \/ v = u + N)
      BY <3>1, <1>0 DEF Wrapped
    <3>5. Exp[u] = Exp[v]
      <4> HIDE DEF u, v
      <4>1. CASE u = v
        BY <4>1
      <4>2. CASE u = v + N
        <5>1. v \in 0 .. N + 1
          BY <3>4, <4>2, <1>0
        <5> QED BY <4>2, <5>1, PowersCycle
      <4>3. CASE v = u + N
        <5>1. u \in 0 .. N + 1
          BY <3>4, <4>3, <1>0
        <5> QED BY <4>3, <5>1, PowersCycle
      <4> QED BY <3>4, <4>1, <4>2, <4>3
    <3> QED BY <3>3, <3>5
  <2> QED BY <2>1, <2>2, <1>0
<1>5. \A x \in Elements : field_mul(1, x) = x
  <2> SUFFICES ASSUME NEW x \in 1 .. N PROVE field_mul(1, x) = x
    BY <1>0, <1>1
  <2>1. 1 \in 1 .. N /\ N \in 1 .. N
    BY <1>0
  <2>2. Log[1] = N
    BY <2>1, LogTable, PowersCycle
  <2>3. Log[x] \in 1 .. N /\ Exp[Log[x]] = x
    BY LogTable
  <2>4. field_mul(1, x) = Exp[N + Log[x]]
    BY <2>1, <2>2, MulOfNonzero
  <2>5. Exp[Log[x] + N] = Exp[Log[x]] /\ N + Log[x] = Log[x] + N
    <3>1. Log[x] \in 0 .. N + 1
      BY <2>3, <1>0
    <3> QED BY <3>1, <2>3, <1>0, PowersCycle
  <2> QED BY <2>3, <2>4, <2>5
<1> QED BY <1>1, <1>2, <1>3, <1>4, <1>5

\* Quotients: the divisor times the quotient is the dividend, and products can
\* be divided factor by factor.
LEMMA DivLaws ==
    ASSUME N >= 2
    PROVE  /\ \A x, y \in Elements : field_div(x, y) \in Elements
           /\ \A x \in Elements, y \in 1 .. N : field_mul(field_div(x, y), y) = x
           /\ \A x, y \in Elements, z \in 1 .. N :
                  field_div(field_mul(x, y), z) = field_mul(x, field_div(y, z))
<1>0. N \in Nat /\ (\A v \in Elements : v = 0 \/ v \in 1 .. N) /\ 1 .. N \subseteq Elements
      /\ 0 \in Elements /\ 0 \notin 1 .. N
  BY Sizes DEF Elements
<1>1. /\ \A x : field_mul(0, x) = 0 /\ field_mul(x, 0) = 0
      /\ \A x : field_div(0, x) = 0 /\ field_div(x, 0) = 0
  BY DEF field_mul, field_div
<1>2. \A x, y \in Elements : field_div(x, y) \in Elements
  <2> SUFFICES ASSUME NEW x \in Elements, NEW y \in Elements PROVE field_div(x, y) \in Elements
    OBVIOUS
  <2>1. CASE x = 0 \/ y = 0
    BY <2>1, <1>0, <1>1
  <2>2. CASE x \in 1 .. N /\ y \in 1 .. N
    BY <2>2, <1>0, DivOfNonzero
  <2> QED BY <2>1, <2>2, <1>0
<1>3. \A x \in Elements, y \in 1 .. N : field_mul(field_div(x, y), y) = x
  <2> SUFFICES ASSUME NEW x \in 1 .. N, NEW y \in 1 .. N
               PROVE  field_mul(field_div(x, y), y) = x
    BY <1>0, <1>1
  <2> DEFINE a == Log[x]
             b == Log[y]
  <2>1. a \in 1 .. N /\ b \in 1 .. N /\ Exp[a] = x
    BY LogTable
  <2>2. field_div(x, y) \in 1 .. N /\ Log[field_div(x, y)] = Wrapped(N + a - b)
    BY DivOfNonzero
  <2>3. field_mul(field_div(x, y), y) = Exp[Wrapped(N + a - b) + b]
    <3> HIDE DEF a
    <3>1. field_mul(field_div(x, y), y) = Exp[Log[field_div(x, y)] + Log[y]]
      BY <2>2, MulOfNonzero
    <3> QED BY <3>1, <2>2
  <2> HIDE DEF a, b
  <2>4. Wrapped(N + a - b) + b = a \/ Wrapped(N + a - b) + b = a + N
    BY <2>1, <1>0 DEF Wrapped
  <2>5. Exp[a + N] = Exp[a]
    <3>1. a \in 0 .. N + 1
      BY <2>1, <1>0
    <3> QED BY <3>1, PowersCycle
  <2> QED BY <2>1, <2>3, <2>4, <2>5
<1>4. \A x, y \in Elements, z \in 1 .. N :
                  field_div(field_mul(x, y), z) = field_mul(x, field_div(y, z))
  <2> SUFFICES ASSUME NEW x \in Elements, NEW y \in Elements, NEW z \in 1 .. N
               PROVE  field_div(field_mul(x, y), z) = field_mul(x, field_div(y, z))
    OBVIOUS
  <2>1. CASE x = 0 \/ y = 0
    BY <2>1, <1>1
  <2>2. CASE x \in 1 .. N /\ y \in 1 .. N
    <3> DEFINE a == Log[x]
               b == Log[y]
               c == Log[z]
    <3>1. a \in 1 .. N /\ b \in 1 .. N /\ c \in 1 .. N
      BY <2>2, LogTable
    <3>2. /\ field_mul(x, y) \in 1 .. N /\ Log[field_mul(x, y)] = Wrapped(a + b)
          /\ field_div(y, z) \in 1 .. N /\ Log[field_div(y, z)] = Wrapped(N + b - c)
      BY <2>2, MulOfNonzero, DivOfNonzero
    <3>3. /\ field_div(field_mul(x, y), z) = Exp[N + Wrapped(a + b) - c]
          /\ field_mul(x, field_div(y, z)) = Exp[a + Wrapped(N + b - c)]
      <4> HIDE DEF a, b, c
      <4>1. field_div(field_mul(x, y), z) = Exp[N + Wrapped(a + b) - Log[z]]
          <5>1. field_div(field_mul(x, y), z) = Exp[N + Log[field_mul(x, y)] - Log[z]]
            BY <2>2, <3>2, DivOfNonzero
          <5> QED BY <5>1, <3>2
      <4>2. field_mul(x, field_div(y, z)) = Exp[Log[x] + Wrapped(N + b - c)]
          <5>1. field_mul(x, field_div(y, z)) = Exp[Log[x] + Log[field_div(y, z)]]
            BY <2>2, <3>2, MulOfNonzero
          <5> QED BY <5>1, <3>2
      <4> QED BY <4>1, <4>2 DEF a, c
    <3> HIDE DEF a, b, c
    <3> DEFINE u == N + Wrapped(a + b) - c
               v == a + Wrapped(N + b - c)
    <3>4. u \in 1 .. 2 * N /\ v \in 1 .. 2 * N /\ (u = v \/ u = v + N \/ v = u + N)
      BY <3>1, <1>0 DEF Wrapped
    <3>5. Exp[u] = Exp[v]
      <4> HIDE DEF u, v
      <4>1. CASE u = v
        BY <4>1
      <4>2. CASE u = v + N
        <5>1. v \in 0 .. N + 1
          BY <3>4, <4>2, <1>0
        <5> QED BY <4>2, <5>1, PowersCycle
      <4>3. CASE v = u + N
        <5>1. u \in 0 .. N + 1
          BY <3>4, <4>3, <1>0
        <5> QED BY <4>3, <5>1, PowersCycle
      <4> QED BY <3>4, <4>1, <4>2, <4>3
    <3> QED BY <3>3, <3>5
  <2> QED BY <2>1, <2>2, <1>0
<1> QED BY <1>2, <1>3, <1>4

------------------------------------------------------------------------------
(* Totals.                                                                 *)

\* f has elements at 0 .. n.
Terms(f, n) == \A k \in 0 .. n : f[k] \in Elements

\* The sums of f[0] .. f[k], for k up to n.
PartialSums(f, n, s) ==
    /\ s \in [-1 .. n -> Elements]
    /\ s[-1] = 0
    /\ \A k \in 0 .. n : s[k] = field_add(s[k - 1], f[k])

\* FieldTotal adds its terms up one by one.
LEMMA TotalIsSum ==
    ASSUME NEW n \in Nat, NEW f, Terms(f, n)
    PROVE  \E s : PartialSums(f, n, s) /\ FieldTotal(f, 0, n) = s[n]
<1> DEFINE g == [p \in (1 .. n + 1) \X Elements |-> field_add(p[2], f[p[1] - 1])]
           Is(h) == h = [k \in 0 - 1 .. n |->
                            IF k = 0 - 1 THEN 0 ELSE field_add(h[k - 1], f[k])]
           F == CHOOSE h : Is(h)
<1>0. \A k \in 0 .. n : f[k] \in Elements
  BY DEF Terms
<1>1. \A j \in 1 .. n + 1, x \in Elements : g[<<j, x>>] = field_add(x, f[j - 1])
  OBVIOUS
<1> HIDE DEF g
<1>2. PICK t : Follows(t, g, n + 1, Elements, 0)
  <2>1. StepOn(g, n + 1, Elements)
    <3> SUFFICES ASSUME NEW j \in 1 .. n + 1, NEW x \in Elements PROVE g[<<j, x>>] \in Elements
      BY DEF StepOn
    <3>1. j - 1 \in 0 .. n
      OBVIOUS
    <3>2. f[j - 1] \in Elements
      BY <3>1, <1>0
    <3> QED BY <3>2, <1>1, AddGroup
  <2>2. n + 1 \in Nat
    OBVIOUS
  <2> QED BY <2>1, <2>2, ZeroInElements, RecursionExists
<1>3. /\ t \in [0 .. n + 1 -> Elements] /\ t[0] = 0
      /\ \A j \in 1 .. n + 1 : t[j] = g[<<j, t[j - 1]>>]
  BY <1>2 DEF Follows
<1> DEFINE s == [k \in 0 - 1 .. n |-> t[k + 1]]
<1>4. \A k \in 0 .. n : s[k] = field_add(s[k - 1], f[k])
  <2> SUFFICES ASSUME NEW k \in 0 .. n PROVE t[k + 1] = field_add(t[(k - 1) + 1], f[k])
    OBVIOUS
  <2>1. k + 1 \in 1 .. n + 1 /\ (k + 1) - 1 = k /\ (k - 1) + 1 = k /\ k \in 0 .. n + 1
    OBVIOUS
  <2>2. t[k] \in Elements
    BY <2>1, <1>3
  <2>3. t[k + 1] = g[<<k + 1, t[(k + 1) - 1]>>]
    BY <2>1, <1>3
  <2>4. g[<<k + 1, t[k]>>] = field_add(t[k], f[(k + 1) - 1])
    BY <2>1, <2>2, <1>1
  <2> QED BY <2>1, <2>3, <2>4
<1>5. s \in [-1 .. n -> Elements] /\ s[-1] = 0
  BY <1>3
<1>6. Is(s)
  <2>1. \A k \in 0 - 1 .. n : s[k] = IF k = 0 - 1 THEN 0 ELSE field_add(s[k - 1], f[k])
    <3> SUFFICES ASSUME NEW k \in 0 - 1 .. n
                 PROVE  s[k] = IF k = 0 - 1 THEN 0 ELSE field_add(s[k - 1], f[k])
      OBVIOUS
    <3>1. k = 0 - 1 \/ k \in 0 .. n
      OBVIOUS
    <3> HIDE DEF s
    <3> QED BY <3>1, <1>4, <1>5
  <2> QED BY <2>1
<1>7. Is(F)
  <2> HIDE DEF Is, s
  <2> QED BY <1>6
<1>8. FieldTotal(f, 0, n) = F[n]
  <2>1. ~ (n < 0)
    OBVIOUS
  <2> QED BY <2>1 DEF FieldTotal
<1> HIDE DEF F
<1>9. F = [k \in 0 - 1 .. n |-> IF k = 0 - 1 THEN 0 ELSE field_add(F[k - 1], f[k])]
  BY <1>7
<1>10. F[-1] = 0 /\ \A k \in 0 .. n : F[k] = field_add(F[k - 1], f[k])
  <2>1. F[-1] = 0
    BY <1>9
  <2>2. ASSUME NEW k \in 0 .. n PROVE F[k] = field_add(F[k - 1], f[k])
    <3>1. k \in 0 - 1 .. n /\ ~ (k = 0 - 1)
      OBVIOUS
    <3> QED BY <1>9, <3>1
  <2> QED BY <2>1, <2>2
<1> HIDE DEF s
<1> DEFINE S == {k \in Nat : k <= n + 1 => F[k - 1] = s[k - 1]}
<1>11. 0 \in S
  BY <1>5, <1>10
<1>12. ASSUME NEW k \in Nat, k \in S PROVE k + 1 \in S
  <2> SUFFICES ASSUME k + 1 <= n + 1 PROVE F[(k + 1) - 1] = s[(k + 1) - 1]
    OBVIOUS
  <2>1. k \in 0 .. n /\ (k + 1) - 1 = k /\ F[k - 1] = s[k - 1]
    BY <1>12
  <2> QED BY <2>1, <1>4, <1>10
<1>13. F[n] = s[n]
  <2> HIDE DEF S
  <2>1. n + 1 \in S
    BY <1>11, <1>12, SetInduction
  <2>2. (n + 1) - 1 = n
    OBVIOUS
  <2> QED BY <2>1, <2>2 DEF S
<1> QED BY <1>4, <1>5, <1>8, <1>13 DEF PartialSums

\* A total is an element, and depends on the terms alone.
LEMMA TotalType ==
    ASSUME NEW n \in Nat, NEW f, Terms(f, n)
    PROVE  FieldTotal(f, 0, n) \in Elements
<1>1. PICK s : PartialSums(f, n, s) /\ FieldTotal(f, 0, n) = s[n]
  BY TotalIsSum
<1>2. s \in [-1 .. n -> Elements] /\ n \in -1 .. n
  BY <1>1 DEF PartialSums
<1> QED BY <1>1, <1>2

\* Partial sums are related as their terms are, added and multiplied.
LEMMA TotalAdds ==
    ASSUME N >= 2, NEW n \in Nat, NEW f, NEW g, NEW h, NEW c \in Elements,
           Terms(f, n), Terms(g, n),
           \A k \in 0 .. n : h[k] = field_add(f[k], field_mul(c, g[k]))
    PROVE  /\ Terms(h, n)
           /\ FieldTotal(h, 0, n)
                = field_add(FieldTotal(f, 0, n), field_mul(c, FieldTotal(g, 0, n)))
<1>0. \A k \in 0 .. n : f[k] \in Elements /\ g[k] \in Elements
  BY DEF Terms
<1>1. Terms(h, n)
  <2> SUFFICES ASSUME NEW k \in 0 .. n PROVE h[k] \in Elements
    BY DEF Terms
  <2>1. f[k] \in Elements /\ g[k] \in Elements
    BY <1>0
  <2>2. field_mul(c, g[k]) \in Elements
    BY <2>1, MulMonoid
  <2>3. field_add(f[k], field_mul(c, g[k])) \in Elements
    BY <2>1, <2>2, AddGroup
  <2> QED BY <2>3
<1>2. PICK sf : PartialSums(f, n, sf) /\ FieldTotal(f, 0, n) = sf[n]
  BY TotalIsSum
<1>3. PICK sg : PartialSums(g, n, sg) /\ FieldTotal(g, 0, n) = sg[n]
  BY TotalIsSum
<1>4. PICK sh : PartialSums(h, n, sh) /\ FieldTotal(h, 0, n) = sh[n]
  BY <1>1, TotalIsSum
<1> DEFINE S == {k \in Nat : k <= n + 1 =>
                    sh[k - 1] = field_add(sf[k - 1], field_mul(c, sg[k - 1]))}
<1>5. 0 \in S
  <2>1. sf[-1] = 0 /\ sg[-1] = 0 /\ sh[-1] = 0 /\ 0 - 1 = -1
    BY <1>2, <1>3, <1>4 DEF PartialSums
  <2>2. field_mul(c, 0) = 0 /\ field_add(0, 0) = 0
    BY MulMonoid, AddGroup, ZeroInElements
  <2> QED BY <2>1, <2>2
<1>6. ASSUME NEW k \in Nat, k \in S PROVE k + 1 \in S
  <2> SUFFICES ASSUME k + 1 <= n + 1
               PROVE  sh[(k + 1) - 1]
                        = field_add(sf[(k + 1) - 1], field_mul(c, sg[(k + 1) - 1]))
    OBVIOUS
  <2> DEFINE a == sf[k - 1]
             b == sg[k - 1]
             u == f[k]
             v == g[k]
  <2>1. k \in 0 .. n /\ (k + 1) - 1 = k /\ k - 1 \in -1 .. n
        /\ sh[k - 1] = field_add(a, field_mul(c, b))
    BY <1>6
  <2>2. a \in Elements /\ b \in Elements /\ u \in Elements /\ v \in Elements
    BY <2>1, <1>0, <1>2, <1>3 DEF PartialSums
  <2>3. /\ sf[k] = field_add(a, u) /\ sg[k] = field_add(b, v)
        /\ sh[k] = field_add(sh[k - 1], h[k])
        /\ h[k] = field_add(u, field_mul(c, v))
    BY <2>1, <1>2, <1>3, <1>4 DEF PartialSums
  <2> HIDE DEF a, b, u, v
  <2> DEFINE cb == field_mul(c, b)
             cv == field_mul(c, v)
  <2>4. cb \in Elements /\ cv \in Elements
        /\ field_mul(c, field_add(b, v)) = field_add(cb, cv)
    BY <2>2, MulMonoid, MulDistributes
  <2> HIDE DEF cb, cv
  <2>5. field_add(field_add(a, cb), field_add(u, cv)) = field_add(field_add(a, u), field_add(cb, cv))
    <3>1. field_add(field_add(a, cb), field_add(u, cv)) = field_add(a, field_add(cb, field_add(u, cv)))
      BY <2>2, <2>4, AddGroup
    <3>2. field_add(cb, field_add(u, cv)) = field_add(field_add(cb, u), cv)
      BY <2>2, <2>4, AddGroup
    <3>3. field_add(cb, u) = field_add(u, cb)
      BY <2>2, <2>4, AddGroup
    <3>4. field_add(field_add(u, cb), cv) = field_add(u, field_add(cb, cv))
      BY <2>2, <2>4, AddGroup
    <3>5. field_add(field_add(a, u), field_add(cb, cv)) = field_add(a, field_add(u, field_add(cb, cv)))
      BY <2>2, <2>4, AddGroup
    <3> QED BY <3>1, <3>2, <3>3, <3>4, <3>5
  <2> QED BY <2>1, <2>3, <2>4, <2>5 DEF cb, cv
<1>7. n + 1 \in S
  <2> HIDE DEF S
  <2> QED BY <1>5, <1>6, SetInduction
<1>8. (n + 1) - 1 = n
  OBVIOUS
<1> QED BY <1>1, <1>2, <1>3, <1>4, <1>7, <1>8

\* Terms that stand m places further on, zeros before and behind them.
MovedBy(h, n, m, g, l) ==
    /\ m + l <= n
    /\ \A k \in 0 .. n : h[k] = IF k \in m .. m + l THEN g[k - m] ELSE 0

\* The total of terms moved among zeros is their total.
LEMMA TotalMoves ==
    ASSUME NEW n \in Nat, NEW m \in Nat, NEW l \in Nat, NEW g, NEW h,
           Terms(g, l), MovedBy(h, n, m, g, l)
    PROVE  /\ Terms(h, n)
           /\ FieldTotal(h, 0, n) = FieldTotal(g, 0, l)
<1>0. /\ m + l <= n
      /\ \A k \in 0 .. n : h[k] = IF k \in m .. m + l THEN g[k - m] ELSE 0
      /\ \A k \in 0 .. l : g[k] \in Elements
  BY DEF Terms, MovedBy
<1>1. Terms(h, n)
  <2> SUFFICES ASSUME NEW k \in 0 .. n PROVE h[k] \in Elements
    BY DEF Terms
  <2>1. k \in m .. m + l => k - m \in 0 .. l
    OBVIOUS
  <2> QED BY <2>1, <1>0, ZeroInElements
<1>2. PICK sg : PartialSums(g, l, sg) /\ FieldTotal(g, 0, l) = sg[l]
  BY TotalIsSum
<1>3. PICK sh : PartialSums(h, n, sh) /\ FieldTotal(h, 0, n) = sh[n]
  BY <1>1, TotalIsSum
<1> DEFINE at(k) == IF k < m THEN -1 ELSE IF k > m + l THEN l ELSE k - m
           S == {k \in Nat : k <= n + 1 => sh[k - 1] = sg[at(k - 1)]}
<1>4. 0 \in S
  <2>1. at(0 - 1) = -1 /\ 0 - 1 = -1
    OBVIOUS
  <2>2. sg[-1] = 0 /\ sh[-1] = 0
    BY <1>2, <1>3 DEF PartialSums
  <2> HIDE DEF at
  <2> QED BY <2>1, <2>2
<1>5. ASSUME NEW k \in Nat, k \in S PROVE k + 1 \in S
  <2> SUFFICES ASSUME k + 1 <= n + 1 PROVE sh[(k + 1) - 1] = sg[at((k + 1) - 1)]
    OBVIOUS
  <2>0. (k + 1) - 1 = k
    OBVIOUS
  <2>1. k \in 0 .. n /\ sh[k - 1] = sg[at(k - 1)]
    BY <1>5
  <2>2. sh[k] = field_add(sh[k - 1], h[k])
    BY <2>1, <1>3 DEF PartialSums
  <2>3. sh[k - 1] \in Elements
    <3>1. k - 1 \in -1 .. n
      BY <2>1
    <3> QED BY <3>1, <1>3 DEF PartialSums
  <2>4. sh[k] = sg[at(k)]
    <3>1. CASE k \in m .. m + l
      <4>1. at(k) = k - m /\ at(k - 1) = (k - m) - 1 /\ k - m \in 0 .. l
        BY <3>1
      <4>2. sg[k - m] = field_add(sg[(k - m) - 1], g[k - m])
        BY <4>1, <1>2 DEF PartialSums
      <4> HIDE DEF at
      <4> QED BY <4>1, <4>2, <2>1, <2>2, <1>0, <3>1
    <3>2. CASE k \notin m .. m + l
      <4>1. at(k) = at(k - 1)
        BY <3>2
      <4>2. h[k] = 0
        BY <2>1, <3>2, <1>0
      <4> HIDE DEF at
      <4> QED BY <4>1, <4>2, <2>1, <2>2, <2>3, AddGroup
    <3> QED BY <3>1, <3>2
  <2> HIDE DEF at
  <2> QED BY <2>0, <2>4
<1>6. n + 1 \in S
  <2> HIDE DEF S
  <2> QED BY <1>4, <1>5, SetInduction
<1>7. (n + 1) - 1 = n /\ at(n) = l
  BY <1>0
<1> HIDE DEF at
<1> QED BY <1>1, <1>2, <1>3, <1>6, <1>7

\* A total without its first term, as FieldTotal adds it up.
LEMMA TotalFromOne ==
    ASSUME NEW n \in Nat, NEW f, NEW g, Terms(g, n), \A k \in 1 .. n : f[k] = g[k]
    PROVE  FieldTotal(g, 0, n) = field_add(g[0], FieldTotal(f, 1, n))
<1>1. PICK s : PartialSums(g, n, s) /\ FieldTotal(g, 0, n) = s[n]
  BY TotalIsSum
<1>2. /\ s \in [-1 .. n -> Elements] /\ s[-1] = 0
      /\ \A k \in 0 .. n : s[k] = field_add(s[k - 1], g[k])
      /\ \A k \in 0 .. n : g[k] \in Elements
  BY <1>1 DEF PartialSums, Terms
<1> DEFINE c == g[0]
<1>3. c \in Elements /\ s[0] = c
  <2>1. 0 \in 0 .. n /\ 0 - 1 = -1
    OBVIOUS
  <2>2. c \in Elements /\ s[0] = field_add(0, c)
    BY <2>1, <1>2
  <2> QED BY <2>2, AddGroup
<1> HIDE DEF c
<1>4. CASE n = 0
  <2>1. FieldTotal(f, 1, n) = 0
    BY <1>4 DEF FieldTotal
  <2> QED BY <2>1, <1>1, <1>3, <1>4, AddGroup DEF c
<1>5. CASE n # 0
  <2> DEFINE Is(h) == h = [k \in 1 - 1 .. n |-> IF k = 1 - 1 THEN 0 ELSE field_add(h[k - 1], f[k])]
             F == CHOOSE h : Is(h)
             t == [k \in 0 .. n |-> field_add(c, s[k])]
  <2>1. \A k \in 0 .. n : s[k] \in Elements
    BY <1>2
  <2>2. t[0] = 0
    BY <1>3, AddGroup
  <2>3. ASSUME NEW k \in 1 .. n PROVE t[k] = field_add(t[k - 1], f[k])
    <3>1. k \in 0 .. n /\ k - 1 \in 0 .. n
      OBVIOUS
    <3>2. s[k - 1] \in Elements /\ g[k] \in Elements /\ f[k] = g[k]
          /\ s[k] = field_add(s[k - 1], g[k])
      BY <3>1, <2>1, <1>2
    <3>3. t[k] = field_add(c, s[k]) /\ t[k - 1] = field_add(c, s[k - 1])
      BY <3>1
    <3>4. field_add(c, field_add(s[k - 1], g[k])) = field_add(field_add(c, s[k - 1]), g[k])
      BY <3>2, <1>3, AddGroup
    <3> QED BY <3>2, <3>3, <3>4
  <2> HIDE DEF t
  <2>4. Is([k \in 0 .. n |-> t[k]])
    <3>1. \A k \in 0 .. n : t[k] = IF k = 0 THEN 0 ELSE field_add(t[k - 1], f[k])
      <4> SUFFICES ASSUME NEW k \in 0 .. n
                   PROVE  t[k] = IF k = 0 THEN 0 ELSE field_add(t[k - 1], f[k])
        OBVIOUS
      <4>1. k = 0 \/ k \in 1 .. n
        OBVIOUS
      <4> QED BY <4>1, <2>2, <2>3
    <3>2. \A k \in 0 .. n : k # 0 => k - 1 \in 0 .. n
      OBVIOUS
    <3>3. 1 - 1 = 0
      OBVIOUS
    <3> QED BY <3>1, <3>2, <3>3
  <2>5. Is(F)
    <3> HIDE DEF Is
    <3> QED BY <2>4
  <2>6. FieldTotal(f, 1, n) = F[n]
    <3>1. ~ (n < 1)
      BY <1>5
    <3> QED BY <3>1 DEF FieldTotal
  <2> HIDE DEF F
  <2>7. F[0] = 0 /\ \A k \in 1 .. n : F[k] = field_add(F[k - 1], f[k])
    BY <2>5
  <2> DEFINE S == {k \in Nat : k <= n => F[k] = t[k]}
  <2>8. 0 \in S
    BY <2>2, <2>7
  <2>9. ASSUME NEW k \in Nat, k \in S PROVE k + 1 \in S
    <3> SUFFICES ASSUME k + 1 <= n PROVE F[k + 1] = t[k + 1]
      OBVIOUS
    <3>1. k + 1 \in 1 .. n /\ (k + 1) - 1 = k /\ F[k] = t[k]
      BY <2>9
    <3> QED BY <3>1, <2>3, <2>7
  <2>10. F[n] = t[n]
    <3> HIDE DEF S
    <3>1. n \in S
      BY <2>8, <2>9, SetInduction
    <3> QED BY <3>1 DEF S
  <2>11. t[n] = field_add(c, s[n]) /\ s[n] \in Elements
    BY <2>1 DEF t
  <2>12. field_add(c, field_add(c, s[n])) = s[n]
    <3>1. /\ field_add(c, field_add(c, s[n])) = field_add(field_add(c, c), s[n])
          /\ field_add(c, c) = 0 /\ field_add(0, s[n]) = s[n]
      BY <2>11, <1>3, AddGroup
    <3> QED BY <3>1
  <2> QED BY <1>1, <2>6, <2>10, <2>11, <2>12 DEF c
<1> QED BY <1>4, <1>5

\* A total depends on its terms alone.
LEMMA TotalSame ==
    ASSUME NEW n \in Nat, NEW f, NEW g, Terms(g, n), \A k \in 0 .. n : f[k] = g[k]
    PROVE  Terms(f, n) /\ FieldTotal(f, 0, n) = FieldTotal(g, 0, n)
<1>1. MovedBy(f, n, 0, g, n)
  <2> SUFFICES ASSUME NEW k \in 0 .. n PROVE f[k] = IF k \in 0 .. 0 + n THEN g[k - 0] ELSE 0
    BY DEF MovedBy
  <2>1. k \in 0 .. 0 + n /\ k - 0 = k
    OBVIOUS
  <2> QED BY <2>1
<1> QED BY <1>1, TotalMoves

\* One more term.
LEMMA TotalStep ==
    ASSUME NEW n \in Nat, NEW f, Terms(f, n + 1)
    PROVE  FieldTotal(f, 0, n + 1) = field_add(FieldTotal(f, 0, n), f[n + 1])
<1>1. Terms(f, n) /\ n + 1 \in Nat
  BY DEF Terms
<1>2. PICK s : PartialSums(f, n + 1, s) /\ FieldTotal(f, 0, n + 1) = s[n + 1]
  BY <1>1, TotalIsSum
<1>3. PICK t : PartialSums(f, n, t) /\ FieldTotal(f, 0, n) = t[n]
  BY <1>1, TotalIsSum
<1>4. /\ s[-1] = 0 /\ \A k \in 0 .. n + 1 : s[k] = field_add(s[k - 1], f[k])
      /\ t[-1] = 0 /\ \A k \in 0 .. n : t[k] = field_add(t[k - 1], f[k])
  BY <1>2, <1>3 DEF PartialSums
<1> DEFINE S == {k \in Nat : k <= n => s[k] = t[k]}
<1>5. 0 \in S
  <2>1. 0 \in 0 .. n /\ 0 \in 0 .. n + 1 /\ 0 - 1 = -1
    OBVIOUS
  <2>2. s[0] = field_add(s[0 - 1], f[0]) /\ t[0] = field_add(t[0 - 1], f[0])
    BY <2>1, <1>4
  <2> QED BY <2>1, <2>2, <1>4
<1>6. ASSUME NEW k \in Nat, k \in S PROVE k + 1 \in S
  <2> SUFFICES ASSUME k + 1 <= n PROVE s[k + 1] = t[k + 1]
    OBVIOUS
  <2>1. k + 1 \in 0 .. n /\ k + 1 \in 0 .. n + 1 /\ (k + 1) - 1 = k /\ s[k] = t[k]
    BY <1>6
  <2> QED BY <2>1, <1>4
<1>7. s[n] = t[n]
  <2> HIDE DEF S
  <2>1. n \in S
    BY <1>5, <1>6, SetInduction
  <2> QED BY <2>1 DEF S
<1>8. s[n + 1] = field_add(s[n], f[n + 1])
  <2>1. n + 1 \in 0 .. n + 1 /\ (n + 1) - 1 = n
    OBVIOUS
  <2> QED BY <2>1, <1>4
<1> QED BY <1>2, <1>3, <1>7, <1>8

\* One term.
LEMMA TotalOfOne ==
    ASSUME NEW f, Terms(f, 0)
    PROVE  FieldTotal(f, 0, 0) = f[0]
<1>1. 0 \in Nat /\ f[0] \in Elements /\ FieldTotal(f, 1, 0) = 0
  BY DEF Terms, FieldTotal
<1>2. FieldTotal(f, 0, 0) = field_add(f[0], FieldTotal(f, 1, 0))
  <2>1. \A k \in 1 .. 0 : f[k] = f[k]
    OBVIOUS
  <2> QED BY <1>1, <2>1, TotalFromOne
<1> QED BY <1>1, <1>2, AddGroup

\* Nothing adds up to nothing.
LEMMA TotalOfZeros ==
    ASSUME NEW n \in Nat, NEW f, \A k \in 0 .. n : f[k] = 0
    PROVE  FieldTotal(f, 0, n) = 0
<1> DEFINE g == [k \in 0 .. 0 |-> 0]
<1>1. Terms(g, 0) /\ g[0] = 0 /\ 0 \in Nat
  BY ZeroInElements DEF Terms
<1>2. MovedBy(f, n, 0, g, 0)
  BY DEF MovedBy
<1> HIDE DEF g
<1>3. FieldTotal(f, 0, n) = FieldTotal(g, 0, 0)
  BY <1>1, <1>2, TotalMoves
<1> QED BY <1>1, <1>3, TotalOfOne

\* Row[i] is the total of row i of the table F, Column[j] that of column j.
Rows(F, Row, n, m) ==
    \A i \in 0 .. n : Row[i] = FieldTotal([j \in 0 .. m |-> F[<<i, j>>]], 0, m)
\* Column[j] is the total of column j.
Columns(F, Column, n, m) ==
    \A j \in 0 .. m : Column[j] = FieldTotal([i \in 0 .. n |-> F[<<i, j>>]], 0, n)
\* F is a table of elements.
Table(F, n, m) == \A i \in 0 .. n, j \in 0 .. m : F[<<i, j>>] \in Elements

\* A table has one total, by rows and by columns.
LEMMA TotalExchange ==
    ASSUME N >= 2, NEW n \in Nat, NEW m \in Nat, NEW F, Table(F, n, m),
           NEW Row, Rows(F, Row, n, m), NEW Column, Columns(F, Column, n, m)
    PROVE  /\ Terms(Row, n) /\ Terms(Column, m)
           /\ FieldTotal(Row, 0, n) = FieldTotal(Column, 0, m)
<1> DEFINE Line(i) == [j \in 0 .. m |-> F[<<i, j>>]]
           Height(j, k) == [i \in 0 .. k |-> F[<<i, j>>]]
           Part(k) == [j \in 0 .. m |-> FieldTotal(Height(j, k), 0, k)]
           S == {k \in Nat : k <= n => FieldTotal(Row, 0, k) = FieldTotal(Part(k), 0, m)}
<1>1. ASSUME NEW i \in 0 .. n
      PROVE  Terms(Line(i), m) /\ Row[i] = FieldTotal(Line(i), 0, m) /\ Row[i] \in Elements
  <2>1. Terms(Line(i), m)
    BY DEF Terms, Table
  <2>2. Row[i] = FieldTotal(Line(i), 0, m)
    BY DEF Rows
  <2> HIDE DEF Line
  <2> QED BY <2>1, <2>2, TotalType
<1>2. ASSUME NEW k \in 0 .. n, NEW j \in 0 .. m
      PROVE  /\ Terms(Height(j, k), k) /\ Part(k)[j] = FieldTotal(Height(j, k), 0, k)
             /\ Part(k)[j] \in Elements
  <2>1. Terms(Height(j, k), k) /\ k \in Nat
    BY DEF Terms, Table
  <2>2. Part(k)[j] = FieldTotal(Height(j, k), 0, k)
    OBVIOUS
  <2> HIDE DEF Height, Part
  <2> QED BY <2>1, <2>2, TotalType
<1>3. Terms(Row, n) /\ \A k \in 0 .. n : Terms(Part(k), m)
  <2> HIDE DEF Part, Line, Height
  <2> QED BY <1>1, <1>2 DEF Terms
<1>4. 0 \in S
  <2>1. 0 \in 0 .. n /\ 0 \in Nat
    OBVIOUS
  <2>2. \A j \in 0 .. m : Part(0)[j] = Line(0)[j]
    <3> SUFFICES ASSUME NEW j \in 0 .. m PROVE Part(0)[j] = F[<<0, j>>]
      OBVIOUS
    <3>1. Height(j, 0)[0] = F[<<0, j>>]
      OBVIOUS
    <3>2. Terms(Height(j, 0), 0) /\ Part(0)[j] = FieldTotal(Height(j, 0), 0, 0)
      <4> HIDE DEF Height, Part
      <4> QED BY <2>1, <1>2
    <3> HIDE DEF Height, Part
    <3> QED BY <3>1, <3>2, TotalOfOne
  <2>3. Row[0] = FieldTotal(Line(0), 0, m) /\ Terms(Line(0), m) /\ Row[0] \in Elements
    BY <2>1, <1>1
  <2> HIDE DEF Line, Part, Height
  <2>4. FieldTotal(Part(0), 0, m) = FieldTotal(Line(0), 0, m)
    BY <2>2, <2>3, TotalSame
  <2>5. FieldTotal(Row, 0, 0) = Row[0]
    <3>1. Terms(Row, 0)
      BY <2>3 DEF Terms
    <3> QED BY <3>1, TotalOfOne
  <2> QED BY <2>1, <2>3, <2>4, <2>5
<1>5. ASSUME NEW k \in Nat, k \in S PROVE k + 1 \in S
  <2> SUFFICES ASSUME k + 1 <= n PROVE FieldTotal(Row, 0, k + 1) = FieldTotal(Part(k + 1), 0, m)
    OBVIOUS
  <2>1. k \in 0 .. n /\ k + 1 \in 0 .. n /\ FieldTotal(Row, 0, k) = FieldTotal(Part(k), 0, m)
    BY <1>5
  <2>2. /\ Terms(Line(k + 1), m) /\ Row[k + 1] = FieldTotal(Line(k + 1), 0, m)
        /\ Terms(Part(k), m)
    BY <2>1, <1>1, <1>3
  <2>3. \A j \in 0 .. m : Part(k + 1)[j] = field_add(Part(k)[j], field_mul(1, Line(k + 1)[j]))
    <3> SUFFICES ASSUME NEW j \in 0 .. m
                 PROVE  Part(k + 1)[j] = field_add(Part(k)[j], field_mul(1, Line(k + 1)[j]))
      OBVIOUS
    <3>1. /\ Terms(Height(j, k + 1), k + 1)
          /\ Part(k + 1)[j] = FieldTotal(Height(j, k + 1), 0, k + 1)
      BY <2>1, <1>2
    <3>2. Terms(Height(j, k), k) /\ Part(k)[j] = FieldTotal(Height(j, k), 0, k)
      BY <2>1, <1>2
    <3>3. /\ Height(j, k + 1)[k + 1] = F[<<k + 1, j>>]
          /\ \A i \in 0 .. k : Height(j, k + 1)[i] = Height(j, k)[i]
      OBVIOUS
    <3>4. Line(k + 1)[j] = F[<<k + 1, j>>] /\ F[<<k + 1, j>>] \in Elements
      BY <2>1 DEF Table
    <3> HIDE DEF Height, Part, Line
    <3>5. FieldTotal(Height(j, k + 1), 0, k + 1)
            = field_add(FieldTotal(Height(j, k + 1), 0, k), F[<<k + 1, j>>])
      BY <3>1, <3>3, TotalStep
    <3>6. FieldTotal(Height(j, k + 1), 0, k) = FieldTotal(Height(j, k), 0, k)
      BY <3>2, <3>3, TotalSame
    <3>7. field_mul(1, F[<<k + 1, j>>]) = F[<<k + 1, j>>]
      BY <3>4, MulMonoid
    <3> QED BY <3>1, <3>2, <3>4, <3>5, <3>6, <3>7
  <2> HIDE DEF Part, Line, Height
  <2>4. FieldTotal(Part(k + 1), 0, m)
          = field_add(FieldTotal(Part(k), 0, m), field_mul(1, FieldTotal(Line(k + 1), 0, m)))
    BY <2>2, <2>3, ZeroInElements, TotalAdds
  <2>5. field_mul(1, FieldTotal(Line(k + 1), 0, m)) = Row[k + 1]
    BY <2>1, <2>2, <1>1, MulMonoid
  <2>6. FieldTotal(Row, 0, k + 1) = field_add(FieldTotal(Row, 0, k), Row[k + 1])
    <3>1. Terms(Row, k + 1)
      BY <2>1, <1>3 DEF Terms
    <3> QED BY <3>1, TotalStep
  <2> QED BY <2>1, <2>4, <2>5, <2>6
<1>6. FieldTotal(Row, 0, n) = FieldTotal(Part(n), 0, m)
  <2> HIDE DEF S
  <2>1. n \in S
    BY <1>4, <1>5, SetInduction
  <2> QED BY <2>1 DEF S
<1>7. \A j \in 0 .. m : Column[j] = Part(n)[j]
  BY DEF Columns
<1>8. Terms(Part(n), m)
  BY <1>3
<1> HIDE DEF Part
<1> QED BY <1>3, <1>6, <1>7, <1>8, TotalSame

\* A constant factor.
LEMMA TotalScales ==
    ASSUME N >= 2, NEW n \in Nat, NEW c \in Elements, NEW g, NEW h, Terms(g, n),
           \A k \in 0 .. n : h[k] = field_mul(c, g[k])
    PROVE  Terms(h, n) /\ FieldTotal(h, 0, n) = field_mul(c, FieldTotal(g, 0, n))
<1> DEFINE z == [k \in 0 .. n |-> 0]
<1>1. Terms(z, n) /\ \A k \in 0 .. n : z[k] = 0
  BY ZeroInElements DEF Terms
<1> HIDE DEF z
<1>2. \A k \in 0 .. n : h[k] = field_add(z[k], field_mul(c, g[k]))
  <2> SUFFICES ASSUME NEW k \in 0 .. n PROVE h[k] = field_add(z[k], field_mul(c, g[k]))
    OBVIOUS
  <2>1. field_mul(c, g[k]) \in Elements
    BY MulMonoid DEF Terms
  <2> QED BY <2>1, <1>1, AddGroup
<1>3. /\ Terms(h, n)
      /\ FieldTotal(h, 0, n) = field_add(FieldTotal(z, 0, n), field_mul(c, FieldTotal(g, 0, n)))
  BY <1>1, <1>2, TotalAdds
<1>4. FieldTotal(z, 0, n) = 0
  BY <1>1, TotalOfZeros
<1>5. field_mul(c, FieldTotal(g, 0, n)) \in Elements
  BY TotalType, MulMonoid
<1> QED BY <1>3, <1>4, <1>5, AddGroup

------------------------------------------------------------------------------
(* Polynomials of elements.                                                *)

\* Every sum of two logarithms, and of a logarithm and 0, is in the table.
LEMMA PowersAreElements ==
    /\ \A i \in 0 .. 2 * N + 1 : Exp[i] \in Elements
    /\ \A x, y \in Elements : N >= 2 => field_mul_log_element(Log[x], Log[y]) \in Elements
<1>1. \A i \in 0 .. 2 * N + 1 : Exp[i] \in Elements
  BY PowerTable
<1>2. ASSUME N >= 2, NEW x \in Elements PROVE Log[x] \in 0 .. N
  <2>1. x = 0 \/ x \in 1 .. N
    BY Sizes DEF Elements
  <2> QED BY <2>1, <1>2, LogTable, Sizes
<1>3. ASSUME N >= 2, NEW x \in Elements, NEW y \in Elements
      PROVE  Exp[Log[x] + Log[y]] \in Elements
  <2>1. Log[x] \in 0 .. N /\ Log[y] \in 0 .. N
    BY <1>2, <1>3
  <2>2. Log[x] + Log[y] \in 0 .. 2 * N + 1
    BY <2>1, Sizes
  <2> QED BY <2>2, <1>1
<1> QED BY <1>1, <1>3 DEF field_mul_log_element

\* Powers of an element, whatever the exponent.
LEMMA PowType ==
    ASSUME NEW x \in Elements, NEW e \in Int, N >= 2
    PROVE  field_pow(x, e) \in Elements
<1>1. CASE x = 0
  BY <1>1, ZeroInElements DEF field_pow
<1>2. CASE x \in 1 .. N
  <2> DEFINE p == Log[x] * e
  <2>1. Log[x] \in Int
    BY <1>2, LogTable
  <2>2. p \in Int
    BY <2>1
  <2> HIDE DEF p
  <2>3. p % N \in 0 .. 2 * N + 1
    BY <2>2, Sizes
  <2>4. field_pow(x, e) = Exp[p % N]
    BY <1>2 DEF field_pow, p
  <2> QED BY <2>3, <2>4, PowersAreElements
<1> QED BY <1>1, <1>2, Sizes DEF Elements

\* The logarithms of the powers of val, one product after the other; when val
\* is zero they are all 0, which is no logarithm.
LEMMA ExpLut ==
    ASSUME N >= 2, NEW val \in Elements, NEW n \in Nat
    PROVE  LET lut == polynomial_build_exp_lut(val, n)
           IN  /\ lut \in [0 .. n -> Elements]
               /\ val = 0 => \A i \in 0 .. n : lut[i] = 0
               /\ val # 0 => /\ lut[0] = N
                             /\ \A i \in 0 .. n : lut[i] \in 1 .. N
                             /\ \A i \in 1 .. n : lut[i] = field_mul_log(lut[i - 1], Log[val])
<1> DEFINE lut == polynomial_build_exp_lut(val, n)
           step(i, p) == IF val = 0 THEN 0
                         ELSE IF i = 0 THEN Log[1] ELSE field_mul_log(p, Log[val])
           T == IF val = 0 THEN {0} ELSE 1 .. N
           c == IF val = 0 THEN 0 ELSE Log[1]
           g == [p \in (1 .. n) \X T |-> step(p[1], p[2])]
           Is(h) == h = [i \in 0 .. n |-> IF val = 0 THEN 0
                            ELSE IF i = 0 THEN Log[1] ELSE field_mul_log(h[i - 1], Log[val])]
           F == CHOOSE h : Is(h)
<1>0. N \in Nat /\ Log[1] = N /\ (val = 0 \/ val \in 1 .. N) /\ T \subseteq Elements
  <2>1. 1 \in 1 .. N /\ N \in 1 .. N /\ N \in Nat
    BY Sizes
  <2>2. Log[1] = N
    BY <2>1, LogTable, PowersCycle
  <2> QED BY <2>1, <2>2, Sizes DEF Elements
<1>1. c \in T
  BY <1>0
<1>2. \A i \in 1 .. n, p \in T : step(i, p) \in T
  <2> SUFFICES ASSUME NEW i \in 1 .. n, NEW p \in T PROVE step(i, p) \in T
    OBVIOUS
  <2>1. CASE val = 0
    BY <2>1
  <2>2. CASE val # 0
    <3>1. p \in 1 .. N /\ Log[val] \in 1 .. N
      BY <2>2, <1>0, LogTable
    <3>2. field_mul_log(p, Log[val]) \in 1 .. N
      BY <3>1, <1>0 DEF field_mul_log, Wrapped
    <3> QED BY <2>2, <3>2
  <2> QED BY <2>1, <2>2
<1>3. \A i \in 1 .. n, p \in T : g[<<i, p>>] = step(i, p)
  OBVIOUS
<1> HIDE DEF g, c, T
<1>4. PICK f : Follows(f, g, n, T, c)
  <2>1. StepOn(g, n, T)
    <3> HIDE DEF step
    <3> QED BY <1>2, <1>3 DEF StepOn
  <2> QED BY <1>1, <2>1, RecursionExists
<1>5. f \in [0 .. n -> T] /\ f[0] = c /\ \A i \in 1 .. n : f[i] = g[<<i, f[i - 1]>>]
  BY <1>4 DEF Follows
<1>6. \A i \in 1 .. n : f[i] = step(i, f[i - 1])
  <2> SUFFICES ASSUME NEW i \in 1 .. n PROVE f[i] = step(i, f[i - 1])
    OBVIOUS
  <2>1. i - 1 \in 0 .. n
    OBVIOUS
  <2>2. f[i - 1] \in T
    BY <2>1, <1>5
  <2> HIDE DEF step
  <2> QED BY <2>2, <1>3, <1>5
<1>7. Is(f)
  <2>1. \A i \in 0 .. n : f[i] = IF val = 0 THEN 0
                            ELSE IF i = 0 THEN Log[1] ELSE field_mul_log(f[i - 1], Log[val])
    <3> SUFFICES ASSUME NEW i \in 0 .. n
                 PROVE  f[i] = IF val = 0 THEN 0
                            ELSE IF i = 0 THEN Log[1] ELSE field_mul_log(f[i - 1], Log[val])
      OBVIOUS
    <3>1. CASE i = 0
      BY <3>1, <1>5 DEF c
    <3>2. CASE i \in 1 .. n
      BY <3>2, <1>6
    <3> QED BY <3>1, <3>2
  <2> QED BY <2>1, <1>5
<1>8. Is(F)
  <2> HIDE DEF Is
  <2> QED BY <1>7
<1>9. lut = [i \in 0 .. n |-> F[i]]
  BY DEF polynomial_build_exp_lut
<1> HIDE DEF F
<1>10. \A i \in 0 .. n : F[i] = step(i, F[i - 1])
  BY <1>8
<1> HIDE DEF lut
<1>11. \A i \in 0 .. n : lut[i] = F[i]
  BY <1>9
<1> DEFINE S == {i \in Nat : i <= n => F[i] = f[i]}
<1>12. 0 \in S
  BY <1>10, <1>5 DEF c
<1>13. ASSUME NEW k \in Nat, k \in S PROVE k + 1 \in S
  <2> SUFFICES ASSUME k + 1 <= n PROVE F[k + 1] = f[k + 1]
    OBVIOUS
  <2>1. k + 1 \in 1 .. n /\ k + 1 \in 0 .. n /\ (k + 1) - 1 = k /\ F[k] = f[k]
    BY <1>13
  <2>2. F[k + 1] = step(k + 1, F[(k + 1) - 1]) /\ f[k + 1] = step(k + 1, f[(k + 1) - 1])
    BY <2>1, <1>6, <1>10
  <2> HIDE DEF step
  <2> QED BY <2>1, <2>2
<1>14. \A i \in 0 .. n : F[i] = f[i]
  <2> HIDE DEF S
  <2>1. \A k \in Nat : k \in S
    BY <1>12, <1>13, SetInduction
  <2> QED BY <2>1 DEF S
<1>15. \A i \in 0 .. n : lut[i] \in T
  BY <1>5, <1>11, <1>14
<1>16. lut \in [0 .. n -> Elements]
  BY <1>15, <1>9, <1>11, <1>0
<1>17. val = 0 => \A i \in 0 .. n : lut[i] = 0
  BY <1>15 DEF T
<1>18. val # 0 => /\ lut[0] = N
                  /\ \A i \in 0 .. n : lut[i] \in 1 .. N
                  /\ \A i \in 1 .. n : lut[i] = field_mul_log(lut[i - 1], Log[val])
  <2> SUFFICES ASSUME val # 0
               PROVE  /\ lut[0] = N
                      /\ \A i \in 0 .. n : lut[i] \in 1 .. N
                      /\ \A i \in 1 .. n : lut[i] = field_mul_log(lut[i - 1], Log[val])
    OBVIOUS
  <2>1. lut[0] = N
    BY <1>10, <1>11, <1>0
  <2>2. \A i \in 0 .. n : lut[i] \in 1 .. N
    BY <1>15 DEF T
  <2>3. ASSUME NEW i \in 1 .. n PROVE lut[i] = field_mul_log(lut[i - 1], Log[val])
    <3>1. i \in 0 .. n /\ i - 1 \in 0 .. n /\ i # 0
      OBVIOUS
    <3> QED BY <3>1, <1>10, <1>11
  <2> QED BY <2>1, <2>2, <2>3
<1> QED BY <1>16, <1>17, <1>18 DEF lut

\* The value of a polynomial of elements is an element.
LEMMA EvalType ==
    ASSUME N >= 2, NEW n \in Nat, NEW poly, Terms(poly, n), NEW lut, Terms(lut, n)
    PROVE  polynomial_eval_lut(poly, n, lut) \in Elements
<1> DEFINE f == [i \in 0 .. n |-> IF poly[i] = 0 THEN 0
                                  ELSE field_mul_log_element(Log[poly[i]], lut[i])]
<1>1. Terms(f, n)
  <2> SUFFICES ASSUME NEW i \in 0 .. n, poly[i] # 0
               PROVE  field_mul_log_element(Log[poly[i]], lut[i]) \in Elements
    BY ZeroInElements DEF Terms
  <2>1. poly[i] \in 1 .. N /\ lut[i] \in 0 .. N
    BY Sizes DEF Terms, Elements
  <2>2. Log[poly[i]] \in 1 .. N
    BY <2>1, LogTable
  <2>3. Log[poly[i]] + lut[i] \in 0 .. 2 * N + 1
    BY <2>1, <2>2, Sizes
  <2> QED BY <2>3, PowersAreElements DEF field_mul_log_element
<1>2. FieldTotal(f, 0, n) \in Elements
  <2> HIDE DEF f
  <2> QED BY <1>1, TotalType
<1>3. poly[0] \in Elements
  BY DEF Terms
<1> QED BY <1>2, <1>3 DEF polynomial_eval_lut

\* A product of polynomials of elements is one.
LEMMA MulType ==
    ASSUME N >= 2, NEW lo \in Nat, NEW ro \in Nat, NEW n \in Nat, NEW l, NEW r,
           Terms(l, lo), Terms(r, ro)
    PROVE  polynomial_mul(l, lo, r, ro, n) \in [0 .. n -> Elements]
<1> SUFFICES ASSUME NEW k \in 0 .. n
             PROVE  FieldTotal([i \in 0 .. k |-> IF i <= lo /\ k - i <= ro
                                     THEN field_mul(l[i], r[k - i]) ELSE 0], 0, k) \in Elements
  BY DEF polynomial_mul
<1> DEFINE f == [i \in 0 .. k |-> IF i <= lo /\ k - i <= ro
                                  THEN field_mul(l[i], r[k - i]) ELSE 0]
<1>1. Terms(f, k)
  <2> SUFFICES ASSUME NEW i \in 0 .. k, i <= lo, k - i <= ro
               PROVE  field_mul(l[i], r[k - i]) \in Elements
    BY ZeroInElements DEF Terms
  <2>1. i \in 0 .. lo /\ k - i \in 0 .. ro
    OBVIOUS
  <2>2. l[i] \in Elements /\ r[k - i] \in Elements
    BY <2>1 DEF Terms
  <2> QED BY <2>2, MulMonoid
<1> HIDE DEF f
<1>2. FieldTotal(f, 0, k) \in Elements
  BY <1>1, TotalType
<1> QED BY <1>2 DEF f

\* x + z
Factor(z) == [k \in 0 .. 1 |-> IF k = 0 THEN z ELSE 1]

\* P[n] is the product of the first n factors.
Products(P, n, zeros) ==
    /\ P[1] = Factor(zeros[0])
    /\ \A m \in 1 .. n : P[m] \in [0 .. m -> Elements]
    /\ \A m \in 2 .. n : P[m] = polynomial_mul(Factor(zeros[m - 1]), 1, P[m - 1], m - 1, m)

\* polynomial_from_roots multiplies its factors one after the other.
LEMMA FromRoots ==
    ASSUME N >= 2, NEW n \in Nat, n >= 1, NEW zeros, Terms(zeros, n - 1)
    PROVE  /\ \E P : Products(P, n, zeros) /\ polynomial_from_roots(n, zeros) = P[n]
           /\ polynomial_from_roots(n, zeros) \in [0 .. n -> Elements]
<1> DEFINE Typed(m) == [0 .. m -> Elements]
           T == UNION {Typed(m) : m \in 1 .. n}
           times(m, p) == polynomial_mul(Factor(zeros[m - 1]), 1, p, m - 1, m)
           g == [p \in (1 .. n - 1) \X T |->
                    IF p[2] \in Typed(p[1]) THEN times(p[1] + 1, p[2]) ELSE p[2]]
           Is(h) == h = [m \in 1 .. n |-> IF m = 1 THEN Factor(zeros[m - 1])
                                          ELSE times(m, h[m - 1])]
           F == CHOOSE h : Is(h)
<1>0. \A m \in 1 .. n : Factor(zeros[m - 1]) \in Typed(1)
  <2> SUFFICES ASSUME NEW m \in 1 .. n PROVE Factor(zeros[m - 1]) \in [0 .. 1 -> Elements]
    OBVIOUS
  <2>1. m - 1 \in 0 .. n - 1
    OBVIOUS
  <2>2. zeros[m - 1] \in Elements
    BY <2>1 DEF Terms
  <2> QED BY <2>2, ZeroInElements DEF Factor
<1>1. \A m \in 2 .. n : \A p \in Typed(m - 1) : times(m, p) \in Typed(m)
  <2> SUFFICES ASSUME NEW m \in 2 .. n, NEW p \in Typed(m - 1) PROVE times(m, p) \in Typed(m)
    OBVIOUS
  <2> DEFINE q == Factor(zeros[m - 1])
             m1 == m - 1
  <2>1. m \in 1 .. n /\ m \in Nat /\ m1 \in Nat /\ 1 \in Nat
    OBVIOUS
  <2>2. q \in Typed(1)
    BY <2>1, <1>0
  <2>3. Terms(q, 1) /\ Terms(p, m1)
    <3> HIDE DEF q, m1
    <3>1. p \in [0 .. m1 -> Elements]
      BY DEF m1
    <3> QED BY <2>2, <3>1 DEF Terms
  <2> HIDE DEF q, m1
  <2>4. polynomial_mul(q, 1, p, m1, m) \in [0 .. m -> Elements]
    BY <2>1, <2>3, MulType
  <2> QED BY <2>4 DEF q, m1
<1>2. PICK f : Follows(f, g, n - 1, T, Factor(zeros[0]))
  <2>1. n - 1 \in Nat /\ 1 \in 1 .. n /\ 1 - 1 = 0
    OBVIOUS
  <2>2. Factor(zeros[0]) \in T
    <3>1. Factor(zeros[0]) \in Typed(1)
      BY <2>1, <1>0
    <3> HIDE DEF Typed
    <3> QED BY <2>1, <3>1
  <2>3. StepOn(g, n - 1, T)
    <3> SUFFICES ASSUME NEW j \in 1 .. n - 1, NEW p \in T PROVE g[<<j, p>>] \in T
      BY DEF StepOn
    <3>1. g[<<j, p>>] = IF p \in Typed(j) THEN times(j + 1, p) ELSE p
      OBVIOUS
    <3>2. CASE p \in Typed(j)
      <4>1. j + 1 \in 2 .. n /\ j + 1 \in 1 .. n /\ (j + 1) - 1 = j
        OBVIOUS
      <4>2. times(j + 1, p) \in Typed(j + 1)
        <5> HIDE DEF Typed, times
        <5>1. p \in Typed((j + 1) - 1)
          BY <3>2, <4>1
        <5> QED BY <5>1, <4>1, <1>1
      <4> HIDE DEF Typed, times, g
      <4> QED BY <3>1, <3>2, <4>1, <4>2
    <3>3. CASE p \notin Typed(j)
      <4> HIDE DEF Typed, times, g
      <4> QED BY <3>1, <3>3
    <3> QED BY <3>2, <3>3
  <2> HIDE DEF g, T
  <2> QED BY <2>1, <2>2, <2>3, RecursionExists
<1>3. /\ f \in [0 .. n - 1 -> T] /\ f[0] = Factor(zeros[0])
      /\ \A j \in 1 .. n - 1 : f[j] = g[<<j, f[j - 1]>>]
  BY <1>2 DEF Follows
<1>4. \A j \in 1 .. n - 1 :
          f[j] = IF f[j - 1] \in Typed(j) THEN times(j + 1, f[j - 1]) ELSE f[j - 1]
  <2> SUFFICES ASSUME NEW j \in 1 .. n - 1
               PROVE  g[<<j, f[j - 1]>>] = IF f[j - 1] \in Typed(j) THEN times(j + 1, f[j - 1]) ELSE f[j - 1]
    BY <1>3
  <2>1. j - 1 \in 0 .. n - 1
    OBVIOUS
  <2>2. f[j - 1] \in T
    BY <2>1, <1>3
  <2> HIDE DEF Typed, times, T
  <2> QED BY <2>2
<1> HIDE DEF g, times, T
<1> DEFINE S == {j \in Nat : j <= n - 1 => f[j] \in Typed(j + 1)}
<1>5. 0 \in S
  <2>1. 1 \in 1 .. n /\ 1 - 1 = 0 /\ 0 + 1 = 1
    OBVIOUS
  <2> HIDE DEF Typed
  <2>2. f[0] \in Typed(1)
    BY <2>1, <1>0, <1>3
  <2> QED BY <2>1, <2>2
<1>6. ASSUME NEW j \in Nat, j \in S PROVE j + 1 \in S
  <2> HIDE DEF Typed
  <2> SUFFICES ASSUME j + 1 <= n - 1 PROVE f[j + 1] \in Typed((j + 1) + 1)
    OBVIOUS
  <2>1. j + 1 \in 1 .. n - 1 /\ (j + 1) - 1 = j /\ (j + 1) + 1 \in 2 .. n
        /\ ((j + 1) + 1) - 1 = j + 1 /\ f[j] \in Typed(j + 1)
    BY <1>6
  <2>2. f[j + 1] = times((j + 1) + 1, f[j])
    BY <2>1, <1>4
  <2>3. f[j] \in Typed(((j + 1) + 1) - 1)
    BY <2>1
  <2>4. times((j + 1) + 1, f[j]) \in Typed((j + 1) + 1)
    BY <2>1, <2>3, <1>1
  <2> QED BY <2>2, <2>4
<1>7. \A j \in Nat : j \in S
  <2> HIDE DEF S
  <2> QED BY <1>5, <1>6, SetInduction
<1> DEFINE P == [m \in 1 .. n |-> f[m - 1]]
<1>8. \A m \in 1 .. n : P[m] \in Typed(m)
  <2> SUFFICES ASSUME NEW m \in 1 .. n PROVE f[m - 1] \in Typed(m)
    OBVIOUS
  <2>1. m - 1 \in Nat /\ m - 1 <= n - 1 /\ (m - 1) + 1 = m
    OBVIOUS
  <2> HIDE DEF Typed
  <2>2. f[m - 1] \in Typed((m - 1) + 1)
    BY <2>1, <1>7
  <2> QED BY <2>1, <2>2
<1>9. P[1] = Factor(zeros[0])
  <2>1. 1 \in 1 .. n /\ 1 - 1 = 0
    OBVIOUS
  <2> QED BY <2>1, <1>3
<1>10. \A m \in 2 .. n : P[m] = times(m, P[m - 1])
  <2> SUFFICES ASSUME NEW m \in 2 .. n PROVE P[m] = times(m, P[m - 1])
    OBVIOUS
  <2> DEFINE j == m - 1
  <2>1. j \in 1 .. n - 1 /\ j \in 1 .. n /\ m \in 1 .. n /\ j + 1 = m /\ j - 1 = (m - 1) - 1
    OBVIOUS
  <2>2. P[m] = f[j] /\ P[m - 1] = f[j - 1]
    BY <2>1
  <2>3. f[j - 1] \in Typed(j)
    BY <2>1, <2>2, <1>8
  <2> HIDE DEF j, P, Typed
  <2>4. f[j] = times(j + 1, f[j - 1])
    BY <2>1, <2>3, <1>4
  <2> QED BY <2>1, <2>2, <2>4
<1> HIDE DEF P
<1>11. Products(P, n, zeros)
  BY <1>8, <1>9, <1>10 DEF Products, times
<1>12. Is(F)
  <2>1. Is([m \in 1 .. n |-> P[m]])
    <3>1. \A m \in 1 .. n : P[m] = IF m = 1 THEN Factor(zeros[m - 1]) ELSE times(m, P[m - 1])
      <4> SUFFICES ASSUME NEW m \in 1 .. n
                   PROVE  P[m] = IF m = 1 THEN Factor(zeros[m - 1]) ELSE times(m, P[m - 1])
        OBVIOUS
      <4>1. m = 1 \/ m \in 2 .. n
        OBVIOUS
      <4>2. 1 - 1 = 0
        OBVIOUS
      <4> QED BY <4>1, <4>2, <1>9, <1>10
    <3>2. \A m \in 1 .. n : m # 1 => m - 1 \in 1 .. n
      OBVIOUS
    <3> QED BY <3>1, <3>2
  <2> HIDE DEF Is
  <2> QED BY <2>1
<1>13. polynomial_from_roots(n, zeros) = F[n]
  BY DEF polynomial_from_roots, times, Factor
<1> HIDE DEF F
<1>14. \A m \in 1 .. n : F[m] = IF m = 1 THEN Factor(zeros[m - 1]) ELSE times(m, F[m - 1])
  BY <1>12
<1> DEFINE R == {j \in Nat : j <= n - 1 => F[j + 1] = P[j + 1]}
<1>15. 0 \in R
  <2>1. 1 \in 1 .. n /\ 1 - 1 = 0 /\ 0 + 1 = 1
    OBVIOUS
  <2> QED BY <2>1, <1>9, <1>14
<1>16. ASSUME NEW j \in Nat, j \in R PROVE j + 1 \in R
  <2> SUFFICES ASSUME j + 1 <= n - 1 PROVE F[(j + 1) + 1] = P[(j + 1) + 1]
    OBVIOUS
  <2> DEFINE m == (j + 1) + 1
  <2>1. m \in 2 .. n /\ m \in 1 .. n /\ m # 1 /\ m - 1 = j + 1 /\ F[j + 1] = P[j + 1]
    BY <1>16
  <2> HIDE DEF m
  <2>2. F[m] = times(m, F[m - 1]) /\ P[m] = times(m, P[m - 1])
    BY <2>1, <1>10, <1>14
  <2>3. F[m] = P[m]
    BY <2>1, <2>2
  <2> QED BY <2>3 DEF m
<1>17. F[n] = P[n]
  <2> HIDE DEF R
  <2>1. n - 1 \in Nat
    OBVIOUS
  <2>2. n - 1 \in R
    BY <1>15, <1>16, <2>1, SetInduction
  <2>3. (n - 1) + 1 = n
    OBVIOUS
  <2> QED BY <2>2, <2>3 DEF R
<1>18. P[n] \in [0 .. n -> Elements]
  <2>1. n \in 1 .. n
    OBVIOUS
  <2> QED BY <2>1, <1>8
<1> QED BY <1>11, <1>13, <1>17, <1>18

\* One power of the long division.
Reduced(mod, i, order, divisor, degree) ==
    IF mod[i] = 0 THEN mod ELSE Subtracted(mod, i, order, divisor, degree)

\* M[j] is the dividend after j powers of the long division.
Remainders(M, dividend, order, divisor, degree) ==
    /\ M[0] = dividend
    /\ \A j \in 0 .. (order + 1) - degree : M[j] \in [0 .. order -> Elements]
    /\ \A j \in 1 .. (order + 1) - degree :
           M[j] = Reduced(M[j - 1], (order + 1) - j, order, divisor, degree)

\* A power of the division leaves elements.
LEMMA ReducedType ==
    ASSUME N >= 2, NEW order \in Nat, NEW degree \in Nat, NEW i \in degree .. order,
           NEW divisor, Terms(divisor, degree), NEW mod \in [0 .. order -> Elements]
    PROVE  Reduced(mod, i, order, divisor, degree) \in [0 .. order -> Elements]
<1> SUFFICES ASSUME mod[i] # 0
             PROVE  Subtracted(mod, i, order, divisor, degree) \in [0 .. order -> Elements]
  BY DEF Reduced
<1> DEFINE q == field_div_log(Log[mod[i]], Log[divisor[degree]])
<1>1. q \in 1 .. N
  <2>1. mod[i] \in 1 .. N /\ divisor[degree] \in Elements /\ N \in Nat
    BY Sizes DEF Terms, Elements
  <2>2. Log[mod[i]] \in 1 .. N
    BY <2>1, LogTable
  <2>3. Log[divisor[degree]] \in 0 .. N
    BY <2>1, LogTable DEF Elements
  <2> QED BY <2>1, <2>2, <2>3 DEF field_div_log, Wrapped
<1> HIDE DEF q
<1>2. ASSUME NEW k \in 0 .. order, k \in i - degree .. i, divisor[k - i + degree] # 0
      PROVE  field_add(mod[k], field_mul_log_element(Log[divisor[k - i + degree]], q)) \in Elements
  <2> DEFINE d == divisor[k - i + degree]
  <2>1. k - i + degree \in 0 .. degree
    BY <1>2
  <2>2. d \in 1 .. N
    BY <1>2, <2>1, Sizes DEF Terms, Elements
  <2> HIDE DEF d
  <2>3. Log[d] \in 1 .. N
    BY <2>2, LogTable
  <2>4. Log[d] + q \in 0 .. 2 * N + 1
    BY <2>3, <1>1, Sizes
  <2>5. field_mul_log_element(Log[d], q) \in Elements
    BY <2>4, PowersAreElements DEF field_mul_log_element
  <2>6. field_add(mod[k], field_mul_log_element(Log[d], q)) \in Elements
    BY <2>5, AddGroup
  <2> QED BY <2>6 DEF d
<1>3. Subtracted(mod, i, order, divisor, degree)
        = [k \in 0 .. order |->
            IF k \in i - degree .. i /\ divisor[k - i + degree] # 0
            THEN field_add(mod[k], field_mul_log_element(Log[divisor[k - i + degree]], q))
            ELSE mod[k]]
  BY DEF Subtracted, q
<1> QED BY <1>2, <1>3

\* polynomial_mod takes the powers of the dividend from the highest down.
LEMMA ModSteps ==
    ASSUME N >= 2, NEW order \in Nat, NEW degree \in Nat, degree <= order + 1,
           NEW divisor, Terms(divisor, degree), NEW dividend \in [0 .. order -> Elements]
    PROVE  \E M : /\ Remainders(M, dividend, order, divisor, degree)
                  /\ polynomial_mod(dividend, order, divisor, degree) = M[(order + 1) - degree]
<1> DEFINE n == (order + 1) - degree
           T == [0 .. order -> Elements]
           step(j, p) == Reduced(p, (order + 1) - j, order, divisor, degree)
           g == [p \in (1 .. n) \X T |-> step(p[1], p[2])]
           Is(h) == h = [i \in degree .. order + 1 |->
                            IF i = order + 1 THEN dividend
                            ELSE IF h[i + 1][i] = 0 THEN h[i + 1]
                            ELSE Subtracted(h[i + 1], i, order, divisor, degree)]
           F == CHOOSE h : Is(h)
<1>0. n \in Nat
  OBVIOUS
<1>1. \A j \in 1 .. n, p \in T : step(j, p) \in T
  <2> SUFFICES ASSUME NEW j \in 1 .. n, NEW p \in T PROVE step(j, p) \in T
    OBVIOUS
  <2>1. (order + 1) - j \in degree .. order
    OBVIOUS
  <2> QED BY <2>1, ReducedType
<1>2. \A j \in 1 .. n, p \in T : g[<<j, p>>] = step(j, p)
  OBVIOUS
<1> HIDE DEF g, n
<1>3. PICK f : Follows(f, g, n, T, dividend)
  <2>1. StepOn(g, n, T)
    <3> HIDE DEF step, T
    <3> QED BY <1>1, <1>2 DEF StepOn
  <2> HIDE DEF T
  <2>2. dividend \in T
    BY DEF T
  <2> QED BY <2>1, <2>2, <1>0, RecursionExists
<1>4. f \in [0 .. n -> T] /\ f[0] = dividend /\ \A j \in 1 .. n : f[j] = g[<<j, f[j - 1]>>]
  BY <1>3 DEF Follows
<1>5. \A j \in 1 .. n : f[j] = step(j, f[j - 1])
  <2> SUFFICES ASSUME NEW j \in 1 .. n PROVE f[j] = step(j, f[j - 1])
    OBVIOUS
  <2>1. j - 1 \in 0 .. n
    BY <1>0
  <2>2. f[j - 1] \in T
    BY <2>1, <1>4
  <2> HIDE DEF step, T
  <2> QED BY <2>2, <1>2, <1>4
<1> DEFINE h == [i \in degree .. order + 1 |-> f[(order + 1) - i]]
<1>6. Is(h)
  <2> DEFINE e(i, x) == IF i = order + 1 THEN dividend
                     ELSE IF x[i] = 0 THEN x ELSE Subtracted(x, i, order, divisor, degree)
  <2>1. \A i \in degree .. order + 1 : h[i] = e(i, h[i + 1])
    <3> SUFFICES ASSUME NEW i \in degree .. order + 1 PROVE h[i] = e(i, h[i + 1])
      OBVIOUS
    <3>1. CASE i = order + 1
      <4>1. (order + 1) - i = 0
        BY <3>1
      <4> QED BY <3>1, <4>1, <1>4
    <3>2. CASE i # order + 1
      <4> DEFINE j == (order + 1) - i
      <4>1. j \in 1 .. n /\ (order + 1) - j = i /\ j - 1 = (order + 1) - (i + 1)
            /\ i + 1 \in degree .. order + 1
        BY <3>2 DEF n
      <4>2. h[i] = f[j] /\ h[i + 1] = f[j - 1]
        BY <4>1
      <4> HIDE DEF j, h
      <4>3. f[j] = step(j, f[j - 1])
        BY <4>1, <1>5
      <4> QED BY <3>2, <4>1, <4>2, <4>3 DEF Reduced
    <3> QED BY <3>1, <3>2
  <2>2. h = [i \in degree .. order + 1 |-> h[i]]
    OBVIOUS
  <2> HIDE DEF h
  <2> QED BY <2>1, <2>2
<1>7. Is(F)
  <2> HIDE DEF Is, h
  <2> QED BY <1>6
<1>8. polynomial_mod(dividend, order, divisor, degree) = F[degree]
  BY DEF polynomial_mod
<1> HIDE DEF F
<1>9. \A i \in degree .. order + 1 :
          F[i] = IF i = order + 1 THEN dividend
                 ELSE Reduced(F[i + 1], i, order, divisor, degree)
  BY <1>7 DEF Reduced
<1> DEFINE S == {j \in Nat : j <= n => F[(order + 1) - j] = f[j]}
<1>10. 0 \in S
  <2>1. order + 1 \in degree .. order + 1 /\ (order + 1) - 0 = order + 1
    OBVIOUS
  <2> QED BY <2>1, <1>4, <1>9
<1>11. ASSUME NEW j \in Nat, j \in S PROVE j + 1 \in S
  <2> SUFFICES ASSUME j + 1 <= n PROVE F[(order + 1) - (j + 1)] = f[j + 1]
    OBVIOUS
  <2> DEFINE i == (order + 1) - (j + 1)
  <2>1. /\ i \in degree .. order + 1 /\ i # order + 1 /\ i + 1 = (order + 1) - j
        /\ j + 1 \in 1 .. n /\ (j + 1) - 1 = j /\ F[(order + 1) - j] = f[j]
    BY <1>11 DEF n
  <2>2. F[i] = Reduced(F[i + 1], i, order, divisor, degree)
    <3> HIDE DEF i
    <3> QED BY <2>1, <1>9
  <2>3. f[j + 1] = step(j + 1, f[(j + 1) - 1])
    BY <2>1, <1>5
  <2> QED BY <2>1, <2>2, <2>3
<1>12. F[degree] = f[n]
  <2> HIDE DEF S
  <2>1. n \in S
    BY <1>0, <1>10, <1>11, SetInduction
  <2>2. (order + 1) - n = degree
    BY DEF n
  <2> QED BY <2>1, <2>2, <1>0 DEF S
<1>13. Remainders(f, dividend, order, divisor, degree)
  BY <1>4, <1>5 DEF Remainders, n
<1> QED BY <1>8, <1>12, <1>13 DEF n

\* The remainder is made of elements, also at the powers that are no part of it.
LEMMA ModType ==
    ASSUME N >= 2, NEW order \in Nat, NEW degree \in Nat, degree <= order + 1,
           NEW divisor, Terms(divisor, degree), NEW dividend \in [0 .. order -> Elements]
    PROVE  polynomial_mod(dividend, order, divisor, degree) \in [0 .. order -> Elements]
<1>1. PICK M : /\ Remainders(M, dividend, order, divisor, degree)
               /\ polynomial_mod(dividend, order, divisor, degree) = M[(order + 1) - degree]
  BY ModSteps
<1>2. (order + 1) - degree \in 0 .. (order + 1) - degree
  OBVIOUS
<1> QED BY <1>1, <1>2 DEF Remainders

------------------------------------------------------------------------------
(* The powers field_pow takes, for every exponent.                       *)

\* A power by any exponent has a logarithm that differs from it by periods.
LEMMA PowerOfExponent ==
    ASSUME N >= 2, NEW i \in Nat
    PROVE  /\ Exp[i % N] \in 1 .. N
           /\ Log[Exp[i % N]] \in 1 .. N
           /\ \E q \in Int : i = N * q + Log[Exp[i % N]]
<1> DEFINE r == i % N
           q == i \div N
<1>0. N \in Nat
  BY Sizes
<1>1. r \in 0 .. N - 1 /\ q \in Nat /\ i = N * q + r
  BY <1>0, Division
<1> HIDE DEF r, q
<1>2. CASE r = 0
  <2>1. Exp[r] = 1 /\ Exp[N] = 1
    BY <1>0, <1>2, PowerTable, PowersCycle
  <2>2. Log[Exp[N]] = N
    BY <1>0, LogTable
  <2>3. q - 1 \in Int /\ i = N * (q - 1) + N
    BY <1>0, <1>1, <1>2
  <2>4. N \in 1 .. N /\ 1 \in 1 .. N
    BY <1>0
  <2> QED BY <2>1, <2>2, <2>3, <2>4 DEF r
<1>3. CASE r \in 1 .. N
  <2>1. Exp[r] \in 1 .. N /\ Log[Exp[r]] = r
    BY <1>3, LogTable
  <2> QED BY <1>1, <1>3, <2>1 DEF r
<1> QED BY <1>0, <1>1, <1>2, <1>3

\* Powers with exponents that differ by periods are the same.
LEMMA PowersRepeat ==
    ASSUME N >= 2, NEW i \in Nat, NEW s \in 1 .. 2 * N, NEW q \in Int, i = N * q + s
    PROVE  Exp[i % N] = Exp[s]
<1>0. N \in Nat \ {0}
  BY Sizes
<1>1. CASE s \in 1 .. N - 1
  <2>1. i % N = s
    BY <1>0, <1>1, DivisionUnique
  <2> QED BY <2>1
<1>2. CASE s \in N .. 2 * N - 1
  <2>1. q + 1 \in Int /\ s - N \in 0 .. N - 1 /\ i = N * (q + 1) + (s - N)
    BY <1>0, <1>2
  <2>2. i % N = s - N
    <3> DEFINE p == q + 1
               t == s - N
    <3>1. p \in Int /\ t \in 0 .. N - 1 /\ i = N * p + t /\ i \in Int
      BY <2>1
    <3> HIDE DEF p, t
    <3>2. i % N = t
      BY <1>0, <3>1, DivisionUnique, Zenon
    <3> QED BY <3>2 DEF t
  <2>3. s - N \in 0 .. N + 1 /\ (s - N) + N = s
    BY <1>0, <1>2
  <2>4. Exp[(s - N) + N] = Exp[s - N]
    BY <2>3, PowersCycle
  <2> QED BY <2>2, <2>3, <2>4
<1>3. CASE s = 2 * N
  <2>1. q + 2 \in Int /\ 0 \in 0 .. N - 1 /\ i = N * (q + 2) + 0
    BY <1>0, <1>3
  <2>2. i % N = 0
    <3> DEFINE p == q + 2
               t == 0
    <3>1. p \in Int /\ t \in 0 .. N - 1 /\ i = N * p + t /\ i \in Int
      BY <2>1
    <3> HIDE DEF p, t
    <3>2. i % N = t
      BY <1>0, <3>1, DivisionUnique, Zenon
    <3> QED BY <3>2 DEF t
  <2>3. N \in 0 .. N + 1 /\ 0 \in 0 .. N + 1 /\ 0 + N = N /\ N + N = 2 * N
    BY <1>0
  <2>4. Exp[N + N] = Exp[N] /\ Exp[0 + N] = Exp[0]
    BY <2>3, PowersCycle
  <2> QED BY <1>3, <2>2, <2>3, <2>4
<1> QED BY <1>0, <1>1, <1>2, <1>3

\* field_pow turns sums of exponents into products.
LEMMA PowLaws ==
    ASSUME N >= 2, NEW x \in 1 .. N
    PROVE  /\ \A a \in Nat : field_pow(x, a) \in 1 .. N
           /\ field_pow(x, 0) = 1
           /\ field_pow(x, 1) = x
           /\ \A a, b \in Nat : field_pow(x, a + b) = field_mul(field_pow(x, a), field_pow(x, b))
<1> DEFINE l == Log[x]
<1>0. N \in Nat \ {0} /\ l \in 1 .. N /\ Exp[l] = x /\ x # 0
  BY Sizes, LogTable
<1>1. \A a \in Nat : field_pow(x, a) = Exp[(l * a) % N]
  BY <1>0 DEF field_pow
<1> HIDE DEF l
<1>2. \A a \in Nat : l * a \in Nat
  BY <1>0
<1>3. \A a \in Nat : field_pow(x, a) \in 1 .. N
  BY <1>1, <1>2, PowerOfExponent
<1>4. field_pow(x, 0) = 1
  <2>1. l * 0 = 0 /\ 0 % N = 0
    BY <1>0
  <2> QED BY <1>0, <1>1, <2>1, PowerTable
<1>5. field_pow(x, 1) = x
  <2>1. l * 1 = l /\ l \in 1 .. 2 * N /\ l = N * 0 + l /\ l \in Nat /\ 0 \in Int
    BY <1>0
  <2>2. Exp[l % N] = Exp[l]
    BY <2>1, PowersRepeat
  <2> QED BY <1>0, <1>1, <2>1, <2>2
<1>6. ASSUME NEW a \in Nat, NEW b \in Nat
      PROVE  field_pow(x, a + b) = field_mul(field_pow(x, a), field_pow(x, b))
  <2> DEFINE i == l * a
             j == l * b
             u == Exp[i % N]
             v == Exp[j % N]
  <2>1. i \in Nat /\ j \in Nat /\ l * (a + b) = i + j /\ i + j \in Nat
    BY <1>0, <1>2
  <2>2. u = field_pow(x, a) /\ v = field_pow(x, b) /\ field_pow(x, a + b) = Exp[(i + j) % N]
    BY <1>1, <2>1
  <2> HIDE DEF i, j
  <2>3. PICK p \in Int : i = N * p + Log[u]
    BY <2>1, PowerOfExponent
  <2>4. PICK q \in Int : j = N * q + Log[v]
    BY <2>1, PowerOfExponent
  <2>5. u \in 1 .. N /\ v \in 1 .. N /\ Log[u] \in 1 .. N /\ Log[v] \in 1 .. N
    BY <2>1, PowerOfExponent
  <2> HIDE DEF u, v
  <2> DEFINE s == Log[u] + Log[v]
  <2>6. s \in 1 .. 2 * N /\ p + q \in Int /\ i + j = N * (p + q) + s
    BY <1>0, <2>3, <2>4, <2>5
  <2>7. field_mul(u, v) = Exp[s]
    BY <2>5, MulOfNonzero
  <2> HIDE DEF s
  <2>8. Exp[(i + j) % N] = Exp[s]
    BY <2>1, <2>6, PowersRepeat
  <2> QED BY <2>2, <2>7, <2>8
<1> QED BY <1>3, <1>4, <1>5, <1>6

------------------------------------------------------------------------------
(* Values of polynomials, the roots they are built from, and division.   *)

\* The value at x of the polynomial with the coefficients f[0] .. f[n].
Powers(f, n, x) == [k \in 0 .. n |-> field_mul(f[k], field_pow(x, k))]
ValueAt(f, n, x) == FieldTotal(Powers(f, n, x), 0, n)

\* The terms of a value are elements, and so is the value.
LEMMA ValueType ==
    ASSUME N >= 2, NEW n \in Nat, NEW f, Terms(f, n), NEW x \in 1 .. N
    PROVE  Terms(Powers(f, n, x), n) /\ ValueAt(f, n, x) \in Elements
<1>0. 1 .. N \subseteq Elements
  BY Sizes DEF Elements
<1>1. Terms(Powers(f, n, x), n)
  <2> SUFFICES ASSUME NEW k \in 0 .. n PROVE Powers(f, n, x)[k] \in Elements
    BY DEF Terms
  <2>1. f[k] \in Elements /\ k \in Nat
    BY DEF Terms
  <2>2. field_pow(x, k) \in Elements
    BY <1>0, <2>1, PowLaws
  <2>3. field_mul(f[k], field_pow(x, k)) \in Elements
    BY <2>1, <2>2, MulMonoid
  <2> QED BY <2>3 DEF Powers
<1> QED BY <1>1, TotalType DEF ValueAt

\* Values are linear in the polynomial.
LEMMA ValueAdds ==
    ASSUME N >= 2, NEW n \in Nat, NEW f, NEW g, NEW h, NEW c \in Elements, NEW x \in 1 .. N,
           Terms(f, n), Terms(g, n),
           \A k \in 0 .. n : h[k] = field_add(f[k], field_mul(c, g[k]))
    PROVE  /\ Terms(h, n)
           /\ ValueAt(h, n, x) = field_add(ValueAt(f, n, x), field_mul(c, ValueAt(g, n, x)))
<1> DEFINE F == Powers(f, n, x)
           G == Powers(g, n, x)
           H == Powers(h, n, x)
<1>0. 1 .. N \subseteq Elements
  BY Sizes DEF Elements
<1>1. Terms(F, n) /\ Terms(G, n)
  BY ValueType
<1>2. Terms(h, n)
  BY TotalAdds
<1>3. \A k \in 0 .. n : H[k] = field_add(F[k], field_mul(c, G[k]))
  <2> SUFFICES ASSUME NEW k \in 0 .. n PROVE H[k] = field_add(F[k], field_mul(c, G[k]))
    OBVIOUS
  <2> DEFINE p == field_pow(x, k)
             a == f[k]
             b == g[k]
  <2>1. F[k] = field_mul(a, p) /\ G[k] = field_mul(b, p)
        /\ H[k] = field_mul(field_add(a, field_mul(c, b)), p)
    BY DEF Powers
  <2>2. a \in Elements /\ b \in Elements /\ k \in Nat
    BY DEF Terms
  <2>3. p \in Elements
    BY <2>2, <1>0, PowLaws
  <2> HIDE DEF a, b, p, F, G, H
  <2> DEFINE cb == field_mul(c, b)
  <2>4. cb \in Elements
    BY <2>2, MulMonoid
  <2>5. field_mul(cb, p) = field_mul(c, field_mul(b, p))
    BY <2>2, <2>3, MulMonoid
  <2> HIDE DEF cb
  <2>6. field_add(a, cb) \in Elements
    BY <2>2, <2>4, AddGroup
  <2>7. field_mul(p, field_add(a, cb)) = field_add(field_mul(p, a), field_mul(p, cb))
    BY <2>2, <2>3, <2>4, MulDistributes
  <2>8. /\ field_mul(p, field_add(a, cb)) = field_mul(field_add(a, cb), p)
        /\ field_mul(p, a) = field_mul(a, p) /\ field_mul(p, cb) = field_mul(cb, p)
    BY <2>2, <2>3, <2>4, <2>6, MulMonoid
  <2> QED BY <2>1, <2>5, <2>7, <2>8 DEF cb
<1> HIDE DEF F, G, H
<1>4. FieldTotal(H, 0, n) = field_add(FieldTotal(F, 0, n), field_mul(c, FieldTotal(G, 0, n)))
  BY <1>1, <1>3, TotalAdds
<1> QED BY <1>2, <1>4 DEF ValueAt, F, G, H

\* Moving a polynomial up multiplies its values by a power.
LEMMA ValueMoves ==
    ASSUME N >= 2, NEW n \in Nat, NEW m \in Nat, NEW l \in Nat, NEW g, NEW h, NEW x \in 1 .. N,
           Terms(g, l), MovedBy(h, n, m, g, l)
    PROVE  /\ Terms(h, n)
           /\ ValueAt(h, n, x) = field_mul(field_pow(x, m), ValueAt(g, l, x))
<1> DEFINE G == Powers(g, l, x)
           H == Powers(h, n, x)
           p == field_pow(x, m)
           C == [k \in 0 .. l |-> field_mul(p, G[k])]
<1>0. 1 .. N \subseteq Elements
  BY Sizes DEF Elements
<1>1. Terms(h, n) /\ Terms(G, l) /\ p \in Elements
  BY <1>0, TotalMoves, ValueType, PowLaws
<1>2. MovedBy(H, n, m, C, l)
  <2>0. m + l <= n
    BY DEF MovedBy
  <2>1. ASSUME NEW k \in 0 .. n PROVE H[k] = IF k \in m .. m + l THEN C[k - m] ELSE 0
    <3>1. h[k] = IF k \in m .. m + l THEN g[k - m] ELSE 0
      BY DEF MovedBy
    <3>2. H[k] = field_mul(h[k], field_pow(x, k))
      BY DEF Powers
    <3>3. CASE k \in m .. m + l
      <4> DEFINE j == k - m
                 a == g[j]
                 q == field_pow(x, j)
      <4>1. j \in 0 .. l /\ j \in Nat /\ k = m + j
        BY <3>3
      <4>2. a \in Elements /\ q \in Elements
        BY <4>1, <1>0, PowLaws DEF Terms
      <4>3. field_pow(x, k) = field_mul(p, q)
        BY <4>1, PowLaws
      <4>4. C[k - m] = field_mul(p, field_mul(a, q))
        BY <4>1 DEF Powers
      <4> HIDE DEF a, q, j, p
      <4>5. field_mul(a, field_mul(p, q)) = field_mul(p, field_mul(a, q))
        <5>1. /\ field_mul(a, field_mul(p, q)) = field_mul(field_mul(a, p), q)
              /\ field_mul(a, p) = field_mul(p, a)
              /\ field_mul(field_mul(p, a), q) = field_mul(p, field_mul(a, q))
          BY <1>1, <4>2, MulMonoid
        <5> QED BY <5>1
      <4>6. h[k] = a
        BY <3>1, <3>3 DEF a, j
      <4> QED BY <3>2, <3>3, <4>3, <4>4, <4>5, <4>6
    <3>4. CASE k \notin m .. m + l
      BY <3>1, <3>2, <3>4, MulMonoid
    <3> QED BY <3>3, <3>4
  <2> HIDE DEF H, C
  <2> QED BY <2>0, <2>1 DEF MovedBy
<1>3. \A k \in 0 .. l : C[k] = field_mul(p, G[k])
  OBVIOUS
<1> HIDE DEF C, G, H, p
<1>4. Terms(C, l) /\ FieldTotal(C, 0, l) = field_mul(p, FieldTotal(G, 0, l))
  BY <1>1, <1>3, TotalScales
<1>5. FieldTotal(H, 0, n) = FieldTotal(C, 0, l)
  BY <1>2, <1>4, TotalMoves
<1> QED BY <1>1, <1>4, <1>5 DEF ValueAt, G, H, p

\* The coefficients of (x + z) p are those of p, moved up by one, and z times p.
LEMMA FactorTimes ==
    ASSUME N >= 2, NEW z \in Elements, NEW m \in Nat, NEW p, Terms(p, m)
    PROVE  LET h == polynomial_mul(Factor(z), 1, p, m, m + 1)
           IN  \A k \in 0 .. m + 1 :
                   h[k] = field_add(IF k >= 1 THEN p[k - 1] ELSE 0,
                                    IF k <= m THEN field_mul(z, p[k]) ELSE 0)
<1> DEFINE F == Factor(z)
           h == polynomial_mul(F, 1, p, m, m + 1)
           f(k) == [i \in 0 .. k |-> IF i <= 1 /\ k - i <= m THEN field_mul(F[i], p[k - i]) ELSE 0]
<1>0. F[0] = z /\ F[1] = 1 /\ F[0] \in Elements /\ F[1] \in Elements
  BY ZeroInElements DEF Factor
<1>1. \A k \in 0 .. m + 1 : h[k] = FieldTotal(f(k), 0, k)
  BY DEF polynomial_mul
<1> HIDE DEF F, h
<1>2. h[0] = field_mul(z, p[0]) /\ field_mul(z, p[0]) \in Elements
  <2>1. f(0)[0] = field_mul(F[0], p[0])
    OBVIOUS
  <2>2. p[0] \in Elements
    BY DEF Terms
  <2>3. field_mul(F[0], p[0]) \in Elements
    BY <1>0, <2>2, MulMonoid
  <2>4. Terms(f(0), 0)
    BY <2>1, <2>3 DEF Terms
  <2>5. h[0] = FieldTotal(f(0), 0, 0)
    <3>1. 0 \in 0 .. m + 1
      OBVIOUS
    <3> HIDE DEF f
    <3> QED BY <3>1, <1>1
  <2> HIDE DEF f
  <2> QED BY <1>0, <2>1, <2>3, <2>4, <2>5, TotalOfOne
<1>3. ASSUME NEW k \in 1 .. m + 1
      PROVE  h[k] = field_add(p[k - 1], IF k <= m THEN field_mul(z, p[k]) ELSE 0)
  <2> DEFINE b == IF k <= m THEN field_mul(z, p[k]) ELSE 0
             g == [i \in 0 .. 1 |-> IF i = 0 THEN b ELSE p[k - 1]]
  <2>0. k - 1 \in 0 .. m /\ k \in Nat /\ 1 \in Nat /\ 0 \in Nat
    OBVIOUS
  <2>1. p[k - 1] \in Elements
    BY <2>0 DEF Terms
  <2>2. b \in Elements
    <3>1. CASE k <= m
      <4>1. p[k] \in Elements
        BY <2>0, <3>1 DEF Terms
      <4> QED BY <4>1, <3>1, MulMonoid
    <3>2. CASE ~ (k <= m)
      BY <3>2, ZeroInElements
    <3> QED BY <3>1, <3>2
  <2>3. f(k)[0] = b
    BY <1>0
  <2>4. f(k)[1] = p[k - 1]
    <3>1. f(k)[1] = field_mul(F[1], p[k - 1])
      BY <2>0
    <3> QED BY <3>1, <1>0, <2>1, MulMonoid
  <2> HIDE DEF b
  <2>5. Terms(g, 1) /\ g[0] = b /\ g[1] = p[k - 1]
    BY <2>1, <2>2 DEF Terms
  <2>6. MovedBy(f(k), k, 0, g, 1)
    <3>1. ASSUME NEW i \in 0 .. k PROVE f(k)[i] = IF i \in 0 .. 0 + 1 THEN g[i - 0] ELSE 0
      <4>1. CASE i = 0
        BY <4>1, <2>3, <2>5
      <4>2. CASE i = 1
        <5>1. i - 0 = 1 /\ i \in 0 .. 0 + 1
          BY <4>2
        <5>2. f(k)[i] = p[k - 1]
          <6> HIDE DEF f
          <6> QED BY <4>2, <2>4
        <5> QED BY <5>1, <5>2, <2>5
      <4>3. CASE i \notin {0, 1}
        BY <4>3
      <4> QED BY <4>1, <4>2, <4>3
    <3>2. 0 + 1 <= k
      BY <2>0
    <3> HIDE DEF f, g
    <3> QED BY <3>1, <3>2 DEF MovedBy
  <2>7. h[k] = FieldTotal(f(k), 0, k)
    BY <1>1
  <2> HIDE DEF f, g
  <2>8. FieldTotal(f(k), 0, k) = FieldTotal(g, 0, 1)
    BY <2>0, <2>5, <2>6, TotalMoves
  <2>9. FieldTotal(g, 0, 1) = field_add(b, p[k - 1])
    <3>1. Terms(g, 0) /\ Terms(g, 0 + 1) /\ 0 + 1 = 1
      BY <2>5 DEF Terms
    <3>2. FieldTotal(g, 0, 0 + 1) = field_add(FieldTotal(g, 0, 0), g[0 + 1])
      BY <2>0, <3>1, TotalStep
    <3>3. FieldTotal(g, 0, 0) = g[0]
      BY <3>1, TotalOfOne
    <3> QED BY <2>5, <3>1, <3>2, <3>3
  <2>10. field_add(b, p[k - 1]) = field_add(p[k - 1], b)
    BY <2>1, <2>2, AddGroup
  <2> QED BY <2>7, <2>8, <2>9, <2>10 DEF b
<1> SUFFICES ASSUME NEW k \in 0 .. m + 1
             PROVE  h[k] = field_add(IF k >= 1 THEN p[k - 1] ELSE 0,
                                    IF k <= m THEN field_mul(z, p[k]) ELSE 0)
  BY DEF h, F
<1>4. CASE k = 0
  <2>1. ~ (k >= 1) /\ k <= m
    BY <1>4
  <2> QED BY <2>1, <1>2, <1>4, AddGroup
<1>5. CASE k \in 1 .. m + 1
  BY <1>3, <1>5
<1> QED BY <1>4, <1>5

\* The value of (x + z) p is that of p times x + z.
LEMMA FactorValue ==
    ASSUME N >= 2, NEW z \in Elements, NEW m \in Nat, NEW p, Terms(p, m), NEW x \in 1 .. N
    PROVE  ValueAt(polynomial_mul(Factor(z), 1, p, m, m + 1), m + 1, x)
             = field_mul(field_add(x, z), ValueAt(p, m, x))
<1> DEFINE h == polynomial_mul(Factor(z), 1, p, m, m + 1)
           a == [k \in 0 .. m + 1 |-> IF k \in 1 .. 1 + m THEN p[k - 1] ELSE 0]
           b == [k \in 0 .. m + 1 |-> IF k \in 0 .. 0 + m THEN p[k - 0] ELSE 0]
           v == ValueAt(p, m, x)
           n == m + 1
<1>0. x \in Elements /\ n \in Nat /\ 1 \in Nat /\ 0 \in Nat
  BY Sizes DEF Elements
<1>1. MovedBy(a, n, 1, p, m) /\ MovedBy(b, n, 0, p, m)
  BY DEF MovedBy
<1>2. \A k \in 0 .. n : h[k] = field_add(a[k], field_mul(z, b[k]))
  <2> SUFFICES ASSUME NEW k \in 0 .. m + 1 PROVE h[k] = field_add(a[k], field_mul(z, b[k]))
    OBVIOUS
  <2>1. a[k] = IF k >= 1 THEN p[k - 1] ELSE 0
    OBVIOUS
  <2>2. field_mul(z, b[k]) = IF k <= m THEN field_mul(z, p[k]) ELSE 0
    <3>1. k <= m => b[k] = p[k]
      OBVIOUS
    <3>2. ~ (k <= m) => b[k] = 0
      OBVIOUS
    <3> HIDE DEF b
    <3> QED BY <3>1, <3>2, MulMonoid
  <2>3. h[k] = field_add(IF k >= 1 THEN p[k - 1] ELSE 0, IF k <= m THEN field_mul(z, p[k]) ELSE 0)
    BY FactorTimes
  <2> HIDE DEF a, b, h
  <2> QED BY <2>1, <2>2, <2>3
<1> HIDE DEF a, b, h, n
<1>3. Terms(a, n) /\ ValueAt(a, n, x) = field_mul(field_pow(x, 1), v)
  BY <1>0, <1>1, ValueMoves
<1>4. Terms(b, n) /\ ValueAt(b, n, x) = field_mul(field_pow(x, 0), v)
  BY <1>0, <1>1, ValueMoves
<1>5. ValueAt(h, n, x) = field_add(ValueAt(a, n, x), field_mul(z, ValueAt(b, n, x)))
  BY <1>0, <1>2, <1>3, <1>4, ValueAdds
<1>6. v \in Elements
  BY ValueType
<1> HIDE DEF v
<1>7. ValueAt(a, n, x) = field_mul(x, v) /\ ValueAt(b, n, x) = v
  BY <1>3, <1>4, <1>6, PowLaws, MulMonoid
<1>8. field_mul(v, field_add(x, z)) = field_add(field_mul(v, x), field_mul(v, z))
  BY <1>0, <1>6, MulDistributes
<1>9. /\ field_add(x, z) \in Elements /\ field_mul(v, x) = field_mul(x, v)
      /\ field_mul(v, z) = field_mul(z, v)
  BY <1>0, <1>6, AddGroup, MulMonoid
<1>10. field_mul(v, field_add(x, z)) = field_mul(field_add(x, z), v)
  BY <1>6, <1>9, MulMonoid
<1> QED BY <1>5, <1>7, <1>8, <1>9, <1>10 DEF h, n, v

\* What polynomial_from_roots builds has the leading coefficient 1 and the value
\* 0 at every one of the roots that is not 0.
LEMMA FromRootsVanishes ==
    ASSUME N >= 2, NEW n \in Nat, n >= 1, NEW zeros, Terms(zeros, n - 1)
    PROVE  LET p == polynomial_from_roots(n, zeros)
           IN  /\ p \in [0 .. n -> Elements]
               /\ p[n] = 1
               /\ \A j \in 0 .. n - 1 : zeros[j] # 0 => ValueAt(p, n, zeros[j]) = 0
<1>0. \A j \in 0 .. n - 1 : zeros[j] \in Elements /\ (zeros[j] # 0 => zeros[j] \in 1 .. N)
  BY Sizes DEF Terms, Elements
<1>1. PICK P : Products(P, n, zeros) /\ polynomial_from_roots(n, zeros) = P[n]
  BY FromRoots
<1>2. /\ P[1] = Factor(zeros[0])
      /\ \A m \in 1 .. n : P[m] \in [0 .. m -> Elements]
      /\ \A m \in 2 .. n : P[m] = polynomial_mul(Factor(zeros[m - 1]), 1, P[m - 1], m - 1, m)
  BY <1>1 DEF Products
<1> DEFINE Vanishes(m) == P[m][m] = 1 /\ \A j \in 0 .. m - 1 : zeros[j] # 0 => ValueAt(P[m], m, zeros[j]) = 0
           S == {i \in Nat : i <= n - 1 => Vanishes(i + 1)}
<1>3. ASSUME NEW x \in 1 .. N PROVE ValueAt(Factor(x), 1, x) = 0
  <2> DEFINE one == [k \in 0 .. 0 |-> 1]
             id == [k \in 0 .. 1 |-> IF k = 1 THEN 1 ELSE 0]
             o == [k \in 0 .. 1 |-> IF k = 0 THEN 1 ELSE 0]
  <2>0. x \in Elements /\ 1 \in Elements /\ 0 \in Elements /\ 1 \in Nat /\ 0 \in Nat
    BY ZeroInElements, Sizes DEF Elements
  <2>1. Terms(one, 0) /\ one[0] = 1
    BY <2>0 DEF Terms
  <2>2. MovedBy(id, 1, 1, one, 0) /\ MovedBy(o, 1, 0, one, 0)
    BY DEF MovedBy
  <2>3. \A k \in 0 .. 1 : Factor(x)[k] = field_add(id[k], field_mul(x, o[k]))
    <3>1. Factor(x)[0] = field_add(id[0], field_mul(x, o[0]))
      <4>1. Factor(x)[0] = x /\ id[0] = 0 /\ o[0] = 1
        BY DEF Factor
      <4>2. field_mul(x, 1) = x /\ field_add(0, x) = x
        BY <2>0, MulMonoid, AddGroup
      <4> QED BY <4>1, <4>2
    <3>2. Factor(x)[1] = field_add(id[1], field_mul(x, o[1]))
      <4>1. Factor(x)[1] = 1 /\ id[1] = 1 /\ o[1] = 0
        BY DEF Factor
      <4>2. field_mul(x, 0) = 0 /\ field_add(1, 0) = 1
        BY <2>0, MulMonoid, AddGroup
      <4> QED BY <4>1, <4>2
    <3>3. \A k \in 0 .. 1 : k = 0 \/ k = 1
      OBVIOUS
    <3> HIDE DEF id, o
    <3> QED BY <3>1, <3>2, <3>3
  <2> DEFINE h == Factor(x)
  <2> HIDE DEF one, id, o, h
  <2>4. ValueAt(one, 0, x) = 1
    <3> DEFINE t == Powers(one, 0, x)
    <3>1. t[0] = field_mul(one[0], field_pow(x, 0))
      BY DEF Powers
    <3>2. t[0] = 1
      BY <3>1, <2>0, <2>1, PowLaws, MulMonoid
    <3>3. Terms(t, 0)
      BY <2>0, <2>1, ValueType
    <3> HIDE DEF t
    <3>4. FieldTotal(t, 0, 0) = 1
      BY <3>2, <3>3, TotalOfOne
    <3> QED BY <3>4 DEF ValueAt, t
  <2>5. Terms(id, 1) /\ ValueAt(id, 1, x) = field_mul(field_pow(x, 1), ValueAt(one, 0, x))
    BY <2>0, <2>1, <2>2, ValueMoves
  <2>6. Terms(o, 1) /\ ValueAt(o, 1, x) = field_mul(field_pow(x, 0), ValueAt(one, 0, x))
    BY <2>0, <2>1, <2>2, ValueMoves
  <2>7. ValueAt(h, 1, x) = field_add(ValueAt(id, 1, x), field_mul(x, ValueAt(o, 1, x)))
    <3> DEFINE m == 1
    <3>1. \A k \in 0 .. m : h[k] = field_add(id[k], field_mul(x, o[k]))
      BY <2>3 DEF h
    <3>2. m \in Nat /\ Terms(id, m) /\ Terms(o, m)
      BY <2>5, <2>6
    <3> HIDE DEF m
    <3>3. ValueAt(h, m, x) = field_add(ValueAt(id, m, x), field_mul(x, ValueAt(o, m, x)))
      BY <2>0, <3>1, <3>2, ValueAdds
    <3> QED BY <3>3 DEF m
  <2>8. ValueAt(id, 1, x) = x /\ ValueAt(o, 1, x) = 1 /\ field_mul(x, 1) = x
    BY <2>0, <2>4, <2>5, <2>6, PowLaws, MulMonoid
  <2> QED BY <2>0, <2>7, <2>8, AddGroup DEF h
<1>4. 0 \in S
  <2>1. 0 + 1 = 1 /\ 0 .. 1 - 1 = {0} /\ 0 \in 0 .. n - 1 /\ 1 \in 0 .. 1
    OBVIOUS
  <2>2. P[1][1] = 1
    BY <2>1, <1>2 DEF Factor
  <2>3. zeros[0] # 0 => ValueAt(P[1], 1, zeros[0]) = 0
    BY <2>1, <1>0, <1>2, <1>3
  <2> QED BY <2>1, <2>2, <2>3
<1>5. ASSUME NEW i \in Nat, i \in S PROVE i + 1 \in S
  <2> SUFFICES ASSUME i + 1 <= n - 1 PROVE Vanishes((i + 1) + 1)
    OBVIOUS
  <2> DEFINE m == i + 1
             z == zeros[m]
             p == P[m]
  <2>1. /\ m \in Nat /\ m \in 1 .. n /\ m + 1 \in 2 .. n /\ (m + 1) - 1 = m
        /\ m \in 0 .. n - 1 /\ i + 1 = m /\ i <= n - 1
    OBVIOUS
  <2>2. Vanishes(m)
    BY <1>5, <2>1
  <2> HIDE DEF m
  <2>3. P[m + 1] = polynomial_mul(Factor(z), 1, p, m, m + 1)
    <3>1. P[m + 1] = polynomial_mul(Factor(zeros[(m + 1) - 1]), 1, P[(m + 1) - 1], (m + 1) - 1, m + 1)
      BY <2>1, <1>2
    <3> QED BY <3>1, <2>1
  <2>4. Terms(p, m) /\ z \in Elements /\ p[m] = 1
    <3>1. p \in [0 .. m -> Elements]
      BY <2>1, <1>2
    <3> HIDE DEF p
    <3>2. Terms(p, m)
      BY <3>1 DEF Terms
    <3> QED BY <3>2, <2>1, <2>2, <1>0 DEF p
  <2>5. P[m + 1][m + 1] = 1
    <3> DEFINE h == polynomial_mul(Factor(z), 1, p, m, m + 1)
    <3> HIDE DEF z, p
    <3>1. h[m + 1] = field_add(IF m + 1 >= 1 THEN p[(m + 1) - 1] ELSE 0,
                               IF m + 1 <= m THEN field_mul(z, p[m + 1]) ELSE 0)
      <4>1. m + 1 \in 0 .. m + 1
        BY <2>1
      <4> QED BY <2>1, <2>4, <4>1, FactorTimes
    <3>2. m + 1 >= 1 /\ ~ (m + 1 <= m)
      BY <2>1
    <3> HIDE DEF h
    <3>3. h[m + 1] = field_add(1, 0)
      BY <2>1, <2>4, <3>1, <3>2
    <3> QED BY <2>3, <3>3, ZeroInElements, AddGroup DEF h
  <2>6. ASSUME NEW j \in 0 .. (m + 1) - 1, zeros[j] # 0 PROVE ValueAt(P[m + 1], m + 1, zeros[j]) = 0
    <3> DEFINE x == zeros[j]
    <3>1. j \in 0 .. n - 1 /\ (j = m \/ j \in 0 .. m - 1)
      BY <2>1
    <3>2. x \in 1 .. N /\ x \in Elements
      BY <3>1, <2>6, <1>0
    <3>3. j \in 0 .. m - 1 => ValueAt(p, m, x) = 0
      BY <2>2, <2>6
    <3>4. j = m => x = z
      OBVIOUS
    <3> HIDE DEF x, p, z
    <3>5. ValueAt(P[m + 1], m + 1, x) = field_mul(field_add(x, z), ValueAt(p, m, x))
      BY <2>1, <2>3, <2>4, <3>2, FactorValue
    <3>6. j = m => field_add(x, z) = 0
      BY <3>2, <3>4, AddGroup
    <3>7. field_mul(field_add(x, z), ValueAt(p, m, x)) = 0
      BY <3>1, <3>3, <3>6, MulMonoid
    <3> QED BY <3>5, <3>7 DEF x
  <2>7. Vanishes(m + 1)
    BY <2>5, <2>6
  <2> QED BY <2>7 DEF m
<1>6. n - 1 \in S
  <2> HIDE DEF S
  <2>1. n - 1 \in Nat
    OBVIOUS
  <2> QED BY <1>4, <1>5, <2>1, SetInduction
<1>7. Vanishes(n)
  <2>1. (n - 1) + 1 = n
    OBVIOUS
  <2> QED BY <1>6, <2>1
<1>8. P[n] \in [0 .. n -> Elements]
  <2>1. n \in 1 .. n
    OBVIOUS
  <2> QED BY <1>2, <2>1
<1> QED BY <1>1, <1>7, <1>8

\* A power of the division by a divisor that leads with 1 adds the divisor, moved
\* up to that power, as often as the power has it.
LEMMA ReducedAdds ==
    ASSUME N >= 2, NEW order \in Nat, NEW degree \in Nat, NEW i \in degree .. order,
           NEW divisor, Terms(divisor, degree), divisor[degree] = 1,
           NEW mod \in [0 .. order -> Elements],
           NEW d, MovedBy(d, order, i - degree, divisor, degree)
    PROVE  \A k \in 0 .. order :
               Reduced(mod, i, order, divisor, degree)[k] = field_add(mod[k], field_mul(mod[i], d[k]))
<1> DEFINE r == Reduced(mod, i, order, divisor, degree)
           a == mod[i]
<1>0. a \in Elements /\ N \in Nat /\ (a = 0 \/ a \in 1 .. N) /\ 1 \in 1 .. N
  BY Sizes DEF Elements
<1>1. CASE a = 0
  <2> SUFFICES ASSUME NEW k \in 0 .. order PROVE r[k] = field_add(mod[k], field_mul(a, d[k]))
    OBVIOUS
  <2>1. r = mod
    BY <1>1 DEF Reduced
  <2>2. field_mul(a, d[k]) = 0 /\ mod[k] \in Elements
    BY <1>1, MulMonoid
  <2> HIDE DEF r, a
  <2> QED BY <2>1, <2>2, AddGroup
<1>2. CASE a \in 1 .. N
  <2> DEFINE q == field_div_log(Log[a], Log[divisor[degree]])
  <2>1. Log[a] \in 1 .. N /\ Log[1] = N
    <3>1. N \in 1 .. N
      BY <1>0
    <3> QED BY <1>2, <3>1, LogTable, PowersCycle
  <2>2. q = Log[a]
    <3>1. N + Log[a] - N = Log[a] /\ ~ (Log[a] > N)
      BY <1>0, <2>1
    <3> HIDE DEF a
    <3> QED BY <2>1, <3>1 DEF field_div_log, Wrapped
  <2>3. r = [k \in 0 .. order |->
            IF k \in i - degree .. i /\ divisor[k - i + degree] # 0
            THEN field_add(mod[k], field_mul_log_element(Log[divisor[k - i + degree]], q))
            ELSE mod[k]]
    <3>1. a # 0
      BY <1>0, <1>2
    <3> QED BY <3>1 DEF Reduced, Subtracted
  <2> HIDE DEF q, r, a
  <2> SUFFICES ASSUME NEW k \in 0 .. order PROVE r[k] = field_add(mod[k], field_mul(a, d[k]))
    BY DEF r, a
  <2>4. d[k] = IF k \in i - degree .. (i - degree) + degree THEN divisor[k - (i - degree)] ELSE 0
    BY DEF MovedBy
  <2>5. (i - degree) + degree = i /\ k - (i - degree) = k - i + degree
    OBVIOUS
  <2>6. mod[k] \in Elements
    OBVIOUS
  <2>7. CASE k \in i - degree .. i /\ divisor[k - i + degree] # 0
    <3> DEFINE b == divisor[k - i + degree]
    <3>1. k - i + degree \in 0 .. degree
      BY <2>7
    <3>2. b \in 1 .. N
      BY <2>7, <3>1, Sizes DEF Terms, Elements
    <3>3. d[k] = b
      BY <2>4, <2>5, <2>7
    <3>4. r[k] = field_add(mod[k], field_mul_log_element(Log[b], q))
      BY <2>3, <2>7
    <3> HIDE DEF b
    <3>5. field_mul(b, a) = Exp[Log[b] + Log[a]] /\ field_mul(a, b) = field_mul(b, a)
      <4>1. b \in Elements
        BY <3>2, Sizes DEF Elements
      <4> QED BY <1>0, <1>2, <3>2, <4>1, MulOfNonzero, MulMonoid
    <3> QED BY <2>2, <3>3, <3>4, <3>5 DEF field_mul_log_element
  <2>8. CASE ~ (k \in i - degree .. i /\ divisor[k - i + degree] # 0)
    <3>1. d[k] = 0
      BY <2>4, <2>5, <2>8
    <3>2. r[k] = mod[k]
      BY <2>3, <2>8
    <3> QED BY <2>6, <3>1, <3>2, MulMonoid, AddGroup
  <2> QED BY <2>7, <2>8
<1> QED BY <1>0, <1>1, <1>2

\* It takes the power away, keeps the powers above it, and keeps the value at
\* every root of the divisor.
LEMMA ReducedKeeps ==
    ASSUME N >= 2, NEW order \in Nat, NEW degree \in Nat, NEW i \in degree .. order,
           NEW divisor, Terms(divisor, degree), divisor[degree] = 1,
           NEW mod \in [0 .. order -> Elements]
    PROVE  LET r == Reduced(mod, i, order, divisor, degree)
           IN  /\ r[i] = 0
               /\ \A k \in i + 1 .. order : r[k] = mod[k]
               /\ \A x \in 1 .. N : ValueAt(divisor, degree, x) = 0
                     => ValueAt(r, order, x) = ValueAt(mod, order, x)
<1> DEFINE r == Reduced(mod, i, order, divisor, degree)
           m == i - degree
           d == [k \in 0 .. order |-> IF k \in m .. m + degree THEN divisor[k - m] ELSE 0]
           a == mod[i]
<1>0. /\ m \in Nat /\ m + degree = i /\ i - m = degree /\ i \in 0 .. order /\ i \in m .. m + degree
      /\ 1 \in Elements /\ a \in Elements
  BY ZeroInElements
<1>1. MovedBy(d, order, i - degree, divisor, degree)
  BY <1>0 DEF MovedBy
<1>2. d[i] = 1 /\ \A k \in i + 1 .. order : d[k] = 0
  BY <1>0
<1>3. \A k \in 0 .. order : mod[k] \in Elements
  OBVIOUS
<1>4. Terms(mod, order)
  BY <1>3 DEF Terms
<1> HIDE DEF d
<1>5. \A k \in 0 .. order : r[k] = field_add(mod[k], field_mul(a, d[k]))
  BY <1>1, ReducedAdds, SMTT(30)
<1> HIDE DEF r, a, m
<1>6. r[i] = 0
  <2>1. field_mul(a, 1) = a /\ field_add(a, a) = 0
    BY <1>0, MulMonoid, AddGroup
  <2>2. r[i] = field_add(mod[i], field_mul(a, d[i]))
    BY <1>0, <1>5
  <2> QED BY <1>2, <2>1, <2>2 DEF a
<1>7. ASSUME NEW k \in i + 1 .. order PROVE r[k] = mod[k]
  <2>1. k \in 0 .. order /\ d[k] = 0
    BY <1>0, <1>2
  <2>2. field_mul(a, 0) = 0
    BY MulMonoid
  <2>3. mod[k] \in Elements
    BY <1>3, <2>1
  <2>4. r[k] = field_add(mod[k], field_mul(a, d[k]))
    BY <1>5, <2>1
  <2> QED BY <2>1, <2>2, <2>3, <2>4, AddGroup
<1>8. ASSUME NEW x \in 1 .. N, ValueAt(divisor, degree, x) = 0
      PROVE  ValueAt(r, order, x) = ValueAt(mod, order, x)
  <2>1. MovedBy(d, order, m, divisor, degree)
    BY <1>1 DEF m
  <2>2. Terms(d, order) /\ ValueAt(d, order, x) = field_mul(field_pow(x, m), ValueAt(divisor, degree, x))
    BY <1>0, <2>1, ValueMoves
  <2>3. ValueAt(r, order, x) = field_add(ValueAt(mod, order, x), field_mul(a, ValueAt(d, order, x)))
    <3>1. a \in Elements /\ Terms(d, order)
      BY <1>0, <2>2
    <3> DEFINE f == mod
    <3>2. Terms(f, order) /\ \A k \in 0 .. order : r[k] = field_add(f[k], field_mul(a, d[k]))
      BY <1>4, <1>5
    <3> HIDE DEF f
    <3>3. ValueAt(r, order, x) = field_add(ValueAt(f, order, x), field_mul(a, ValueAt(d, order, x)))
      BY <3>1, <3>2, ValueAdds
    <3> QED BY <3>3 DEF f
  <2>4. ValueAt(mod, order, x) \in Elements
    BY <1>4, ValueType
  <2>5. field_mul(a, ValueAt(d, order, x)) = 0
    BY <1>8, <2>2, MulMonoid
  <2> QED BY <2>3, <2>4, <2>5, AddGroup
<1> QED BY <1>6, <1>7, <1>8 DEF r

\* Long division by a divisor that leads with 1 leaves nothing from its degree
\* on, and the value the dividend has at every root of the divisor
\* (polynomial.c).
LEMMA ModKeeps ==
    ASSUME N >= 2, NEW order \in Nat, NEW degree \in Nat, degree <= order + 1,
           NEW divisor, Terms(divisor, degree), divisor[degree] = 1,
           NEW dividend \in [0 .. order -> Elements]
    PROVE  LET r == polynomial_mod(dividend, order, divisor, degree)
           IN  /\ \A k \in degree .. order : r[k] = 0
               /\ \A x \in 1 .. N : ValueAt(divisor, degree, x) = 0
                     => ValueAt(r, order, x) = ValueAt(dividend, order, x)
<1> DEFINE n == (order + 1) - degree
<1>1. PICK M : /\ Remainders(M, dividend, order, divisor, degree)
               /\ polynomial_mod(dividend, order, divisor, degree) = M[n]
  BY ModSteps
<1>2. /\ M[0] = dividend
      /\ \A j \in 0 .. n : M[j] \in [0 .. order -> Elements]
      /\ \A j \in 1 .. n : M[j] = Reduced(M[j - 1], (order + 1) - j, order, divisor, degree)
  BY <1>1 DEF Remainders
<1>3. n \in Nat /\ (order + 1) - n = degree
  OBVIOUS
<1> DEFINE Kept(j) == /\ \A k \in (order + 1) - j .. order : M[j][k] = 0
                      /\ \A x \in 1 .. N : ValueAt(divisor, degree, x) = 0
                             => ValueAt(M[j], order, x) = ValueAt(dividend, order, x)
           S == {j \in Nat : j <= n => Kept(j)}
<1>4. 0 \in S
  <2>1. \A k \in (order + 1) - 0 .. order : FALSE
    OBVIOUS
  <2> QED BY <1>2, <2>1
<1>5. ASSUME NEW j \in Nat, j \in S PROVE j + 1 \in S
  <2> SUFFICES ASSUME j + 1 <= n PROVE Kept(j + 1)
    OBVIOUS
  <2> DEFINE i == (order + 1) - (j + 1)
             mod == M[j]
             r == M[j + 1]
  <2>1. /\ j + 1 \in 1 .. n /\ (j + 1) - 1 = j /\ j \in 0 .. n /\ i \in degree .. order
        /\ i + 1 = (order + 1) - j /\ i \in Nat
    OBVIOUS
  <2>2. Kept(j)
    BY <1>5, <2>1
  <2>3. r = Reduced(mod, i, order, divisor, degree)
    BY <1>2, <2>1
  <2>4. mod \in [0 .. order -> Elements]
    BY <1>2, <2>1
  <2> HIDE DEF n, r, mod
  <2>5. /\ r[i] = 0
        /\ \A k \in i + 1 .. order : r[k] = mod[k]
        /\ \A x \in 1 .. N : ValueAt(divisor, degree, x) = 0
                     => ValueAt(r, order, x) = ValueAt(mod, order, x)
    <3> HIDE DEF i
    <3> QED BY <2>1, <2>3, <2>4, ReducedKeeps
  <2>6. \A k \in i .. order : r[k] = 0
    <3> SUFFICES ASSUME NEW k \in i .. order PROVE r[k] = 0
      OBVIOUS
    <3>1. k = i \/ k \in i + 1 .. order
      BY <2>1
    <3>2. k \in i + 1 .. order => mod[k] = 0
      BY <2>1, <2>2 DEF mod
    <3> HIDE DEF i
    <3> QED BY <2>5, <3>1, <3>2
  <2>7. \A x \in 1 .. N : ValueAt(divisor, degree, x) = 0
             => ValueAt(r, order, x) = ValueAt(dividend, order, x)
    BY <2>2, <2>5 DEF mod
  <2> QED BY <2>6, <2>7 DEF r
<1>6. Kept(n)
  <2> HIDE DEF S, n
  <2>1. n \in S
    BY <1>3, <1>4, <1>5, SetInduction
  <2> QED BY <1>3, <2>1 DEF S
<1> QED BY <1>1, <1>3, <1>6

------------------------------------------------------------------------------
(* How many roots a polynomial has, and its value by the code's tables.  *)

\* The nonzero elements are a group: no product of theirs is zero, and each has
\* an inverse.
LEMMA Nonzero ==
    ASSUME N >= 2
    PROVE  /\ 1 .. N \subseteq Elements
           /\ \A x \in Elements : x = 0 \/ x \in 1 .. N
           /\ 0 \notin 1 .. N
           /\ \A x, y \in 1 .. N : field_mul(x, y) \in 1 .. N
           /\ \A x, y \in Elements : field_mul(x, y) = 0 => x = 0 \/ y = 0
           /\ \A x \in 1 .. N : field_div(1, x) \in 1 .. N /\ field_mul(field_div(1, x), x) = 1
<1>1. 1 .. N \subseteq Elements /\ (\A x \in Elements : x = 0 \/ x \in 1 .. N) /\ 0 \notin 1 .. N
  BY Sizes DEF Elements
<1>2. \A x, y \in 1 .. N : field_mul(x, y) \in 1 .. N
  BY MulOfNonzero
<1>3. \A x, y \in Elements : field_mul(x, y) = 0 => x = 0 \/ y = 0
  BY <1>1, <1>2
<1>4. ASSUME NEW x \in 1 .. N
      PROVE  field_div(1, x) \in 1 .. N /\ field_mul(field_div(1, x), x) = 1
  <2>1. 1 \in 1 .. N /\ 1 \in Elements
    BY Sizes, ZeroInElements
  <2>2. field_div(1, x) \in 1 .. N
    BY <2>1, DivOfNonzero
  <2> QED BY <2>1, <2>2, DivLaws
<1> QED BY <1>1, <1>2, <1>3, <1>4

\* Elements that cancel are the same.
LEMMA Cancel ==
    /\ \A x, y \in Elements : field_add(x, y) = 0 => x = y
    /\ \A x, y, z \in Elements : z = field_add(x, y) => x = field_add(z, y) /\ y = field_add(x, z)
<1>1. ASSUME NEW x \in Elements, NEW y \in Elements, NEW z \in Elements, z = field_add(x, y)
      PROVE  x = field_add(z, y) /\ y = field_add(x, z)
  <2>1. field_add(field_add(x, y), y) = field_add(x, field_add(y, y))
    BY AddGroup
  <2>2. field_add(x, field_add(x, y)) = field_add(field_add(x, x), y)
    BY AddGroup
  <2>3. field_add(y, y) = 0 /\ field_add(x, x) = 0 /\ field_add(x, 0) = x /\ field_add(0, y) = y
    BY AddGroup
  <2> QED BY <1>1, <2>1, <2>2, <2>3
<1>2. ASSUME NEW x \in Elements, NEW y \in Elements, field_add(x, y) = 0 PROVE x = y
  <2>1. x = field_add(0, y)
    BY <1>1, <1>2, ZeroInElements
  <2> QED BY <2>1, AddGroup
<1> QED BY <1>1, <1>2

\* The value of a constant.
LEMMA ValueOfConstant ==
    ASSUME N >= 2, NEW f, Terms(f, 0), NEW x \in 1 .. N
    PROVE  ValueAt(f, 0, x) = f[0]
<1> DEFINE t == Powers(f, 0, x)
<1>1. f[0] \in Elements /\ 0 \in Nat /\ 1 \in Elements
  BY ZeroInElements DEF Terms
<1>2. t[0] = field_mul(f[0], field_pow(x, 0))
  BY DEF Powers
<1>3. t[0] = f[0]
  <2>1. field_pow(x, 0) = 1
    BY PowLaws
  <2> DEFINE a == f[0]
  <2> HIDE DEF a
  <2>2. a \in Elements => field_mul(a, 1) = a
    BY <1>1, MulMonoid
  <2> QED BY <1>1, <1>2, <2>1, <2>2 DEF a
<1>4. Terms(t, 0)
  BY <1>1, ValueType
<1> HIDE DEF t
<1>5. FieldTotal(t, 0, 0) = t[0]
  BY <1>4, TotalOfOne
<1> QED BY <1>3, <1>5 DEF ValueAt, t

\* Horner's rule.
LEMMA ValueSplits ==
    ASSUME N >= 2, NEW n \in Nat, NEW f, Terms(f, n + 1), NEW g, \A k \in 0 .. n : g[k] = f[k + 1],
           NEW x \in 1 .. N
    PROVE  /\ Terms(g, n)
           /\ ValueAt(f, n + 1, x) = field_add(f[0], field_mul(x, ValueAt(g, n, x)))
<1> DEFINE c == [k \in 0 .. 0 |-> f[0]]
           e == [k \in 0 .. n + 1 |-> IF k \in 0 .. 0 + 0 THEN c[k - 0] ELSE 0]
           h == [k \in 0 .. n + 1 |-> IF k \in 1 .. 1 + n THEN g[k - 1] ELSE 0]
           m == n + 1
<1>0. m \in Nat /\ 1 \in Nat /\ 0 \in Nat /\ f[0] \in Elements /\ 1 \in Elements
  BY ZeroInElements DEF Terms
<1>1. Terms(g, n)
  <2> SUFFICES ASSUME NEW k \in 0 .. n PROVE g[k] \in Elements
    BY DEF Terms
  <2>1. k + 1 \in 0 .. n + 1
    OBVIOUS
  <2> QED BY <2>1 DEF Terms
<1>2. Terms(c, 0) /\ c[0] = f[0]
  BY <1>0 DEF Terms
<1>3. MovedBy(e, m, 0, c, 0) /\ MovedBy(h, m, 1, g, n)
  BY DEF MovedBy
<1>4. \A k \in 0 .. m : f[k] = field_add(h[k], field_mul(1, e[k]))
  <2> SUFFICES ASSUME NEW k \in 0 .. m PROVE f[k] = field_add(h[k], field_mul(1, e[k]))
    OBVIOUS
  <2>1. f[k] \in Elements
    BY DEF Terms
  <2>2. CASE k = 0
    <3>1. h[k] = 0 /\ e[k] = f[0]
      BY <2>2
    <3> HIDE DEF h, e
    <3> QED BY <2>1, <2>2, <3>1, MulMonoid, AddGroup
  <2>3. CASE k \in 1 .. n + 1
    <3>1. k - 1 \in 0 .. n /\ (k - 1) + 1 = k
      BY <2>3
    <3>2. h[k] = f[k] /\ e[k] = 0
      BY <2>3, <3>1
    <3> HIDE DEF h, e
    <3> QED BY <2>1, <3>2, MulMonoid, AddGroup
  <2> QED BY <2>2, <2>3
<1> HIDE DEF c, e, h, m
<1>5. Terms(e, m) /\ ValueAt(e, m, x) = field_mul(field_pow(x, 0), ValueAt(c, 0, x))
  BY <1>0, <1>2, <1>3, ValueMoves
<1>6. Terms(h, m) /\ ValueAt(h, m, x) = field_mul(field_pow(x, 1), ValueAt(g, n, x))
  BY <1>0, <1>1, <1>3, ValueMoves
<1>7. ValueAt(f, m, x) = field_add(ValueAt(h, m, x), field_mul(1, ValueAt(e, m, x)))
  BY <1>0, <1>4, <1>5, <1>6, ValueAdds
<1>8. ValueAt(e, m, x) = f[0]
  BY <1>0, <1>2, <1>5, ValueOfConstant, PowLaws, MulMonoid
<1>9. field_pow(x, 1) = x
  BY PowLaws
<1>10. field_mul(x, ValueAt(g, n, x)) \in Elements
  <2>1. ValueAt(g, n, x) \in Elements
    BY <1>1, ValueType
  <2> QED BY <2>1, Nonzero, MulMonoid
<1>11. field_mul(1, f[0]) = f[0]
  BY <1>0, MulMonoid
<1>12. ValueAt(f, m, x) = field_add(field_mul(x, ValueAt(g, n, x)), f[0])
  BY <1>6, <1>7, <1>8, <1>9, <1>11
<1> QED BY <1>0, <1>1, <1>10, <1>12, AddGroup DEF m

\* f is x + z times g, of the orders n + 1 and n.
Divides(f, n, z, g) ==
    /\ Terms(g, n)
    /\ \A k \in 0 .. n + 1 :
           f[k] = field_add(IF k >= 1 THEN g[k - 1] ELSE 0, IF k <= n THEN field_mul(z, g[k]) ELSE 0)

\* Division by x + z.
Quotient(f, n, z) ==
    [j \in 0 .. n |-> ValueAt([i \in 0 .. n - j |-> f[j + 1 + i]], n - j, z)]

\* At a root it leaves nothing.
LEMMA QuotientDivides ==
    ASSUME N >= 2, NEW n \in Nat, NEW f, Terms(f, n + 1), NEW z \in 1 .. N,
           ValueAt(f, n + 1, z) = 0
    PROVE  Divides(f, n, z, Quotient(f, n, z))
<1> DEFINE From(j) == [i \in 0 .. n - j |-> f[j + 1 + i]]
           g == Quotient(f, n, z)
<1>1. \A j \in 0 .. n : g[j] = ValueAt(From(j), n - j, z)
  BY DEF Quotient
<1> HIDE DEF g
<1>2. ASSUME NEW j \in 0 .. n PROVE Terms(From(j), n - j) /\ n - j \in Nat
  <2> SUFFICES ASSUME NEW i \in 0 .. n - j PROVE f[j + 1 + i] \in Elements
    BY DEF Terms
  <2>1. j + 1 + i \in 0 .. n + 1
    OBVIOUS
  <2> QED BY <2>1 DEF Terms
<1>3. Terms(g, n)
  <2> SUFFICES ASSUME NEW j \in 0 .. n PROVE g[j] \in Elements
    BY DEF Terms
  <2>1. g[j] = ValueAt(From(j), n - j, z)
    BY <1>1
  <2> HIDE DEF From
  <2> QED BY <1>2, <2>1, ValueType
<1>4. ASSUME NEW k \in 1 .. n PROVE g[k - 1] = field_add(f[k], field_mul(z, g[k]))
  <2> DEFINE m == n - k
             p == From(k - 1)
             q == From(k)
  <2>1. m \in Nat /\ k - 1 \in 0 .. n /\ k \in 0 .. n /\ n - (k - 1) = m + 1
        /\ (k - 1) + 1 + 0 = k /\ 0 \in 0 .. n - (k - 1)
    OBVIOUS
  <2>2. p[0] = f[k]
    BY <2>1
  <2>3. \A i \in 0 .. m : q[i] = p[i + 1]
    <3> SUFFICES ASSUME NEW i \in 0 .. m PROVE q[i] = p[i + 1]
      OBVIOUS
    <3>1. i + 1 \in 0 .. n - (k - 1) /\ i \in 0 .. n - k /\ (k - 1) + 1 + (i + 1) = k + 1 + i
      OBVIOUS
    <3> QED BY <3>1
  <2>4. Terms(p, m + 1) /\ g[k - 1] = ValueAt(p, m + 1, z) /\ g[k] = ValueAt(q, m, z)
    <3> HIDE DEF From
    <3> QED BY <1>1, <1>2, <2>1
  <2> HIDE DEF p, q, m
  <2>5. ValueAt(p, m + 1, z) = field_add(p[0], field_mul(z, ValueAt(q, m, z)))
    BY <2>1, <2>3, <2>4, ValueSplits
  <2> QED BY <2>2, <2>4, <2>5
<1>5. g[n] = f[n + 1]
  <2>1. n \in 0 .. n /\ n - n = 0 /\ 0 \in 0 .. n - n /\ n + 1 + 0 = n + 1
    OBVIOUS
  <2>2. From(n)[0] = f[n + 1]
    BY <2>1
  <2>3. Terms(From(n), 0) /\ g[n] = ValueAt(From(n), 0, z)
    <3> HIDE DEF From
    <3> QED BY <1>1, <1>2, <2>1
  <2> HIDE DEF From
  <2> QED BY <2>2, <2>3, ValueOfConstant
<1>6. f[0] = field_mul(z, g[0])
  <2> DEFINE q == From(0)
  <2>1. 0 \in 0 .. n /\ n - 0 = n
    OBVIOUS
  <2>2. \A i \in 0 .. n : q[i] = f[i + 1]
    OBVIOUS
  <2>3. g[0] = ValueAt(q, n, z)
    BY <1>1, <2>1
  <2> HIDE DEF q
  <2>4. ValueAt(f, n + 1, z) = field_add(f[0], field_mul(z, ValueAt(q, n, z)))
    BY <2>2, ValueSplits
  <2>5. g[0] \in Elements /\ f[0] \in Elements
    BY <2>1, <1>3 DEF Terms
  <2>6. field_mul(z, g[0]) \in Elements
    BY <2>5, Nonzero, MulMonoid
  <2> QED BY <2>3, <2>4, <2>5, <2>6, Cancel
<1> SUFFICES ASSUME NEW k \in 0 .. n + 1
             PROVE  f[k] = field_add(IF k >= 1 THEN g[k - 1] ELSE 0,
                                     IF k <= n THEN field_mul(z, g[k]) ELSE 0)
  BY <1>3 DEF Divides, g
<1>7. f[k] \in Elements
  BY DEF Terms
<1>8. CASE k = 0
  <2>1. ~ (k >= 1) /\ k <= n
    BY <1>8
  <2>2. field_mul(z, g[k]) = f[k]
    BY <1>6, <1>8
  <2> QED BY <1>7, <2>1, <2>2, AddGroup
<1>9. CASE k \in 1 .. n
  <2>1. g[k] \in Elements /\ k >= 1 /\ k <= n /\ k - 1 \in 0 .. n
    BY <1>3, <1>9 DEF Terms
  <2>2. field_mul(z, g[k]) \in Elements /\ g[k - 1] \in Elements
    BY <1>3, <2>1, Nonzero, MulMonoid DEF Terms
  <2>3. f[k] = field_add(g[k - 1], field_mul(z, g[k]))
    BY <1>4, <1>7, <1>9, <2>2, Cancel
  <2> QED BY <2>1, <2>3
<1>10. CASE k = n + 1
  <2>1. ~ (k <= n) /\ k >= 1 /\ k - 1 = n
    BY <1>10
  <2> QED BY <1>5, <1>7, <1>10, <2>1, AddGroup
<1> QED BY <1>8, <1>9, <1>10

\* The value of a product.
LEMMA DividesValue ==
    ASSUME N >= 2, NEW n \in Nat, NEW f, NEW z \in 1 .. N, NEW g, Divides(f, n, z, g),
           NEW x \in 1 .. N
    PROVE  ValueAt(f, n + 1, x) = field_mul(field_add(x, z), ValueAt(g, n, x))
<1> DEFINE h == polynomial_mul(Factor(z), 1, g, n, n + 1)
<1>1. Terms(g, n) /\ z \in Elements
  BY Nonzero DEF Divides
<1>2. \A k \in 0 .. n + 1 : h[k] = f[k]
  BY <1>1, FactorTimes DEF Divides
<1>3. ValueAt(h, n + 1, x) = field_mul(field_add(x, z), ValueAt(g, n, x))
  BY <1>1, FactorValue
<1> HIDE DEF h
<1>4. Powers(f, n + 1, x) = Powers(h, n + 1, x)
  BY <1>2 DEF Powers
<1> QED BY <1>3, <1>4 DEF ValueAt

\* A polynomial other than 0 has no more roots than its order says.
LEMMA RootsBound ==
    ASSUME N >= 2, NEW n \in Nat, NEW f \in [0 .. n -> Elements], NEW R \in SUBSET (1 .. N),
           \E j \in 0 .. n : f[j] # 0, \A x \in R : ValueAt(f, n, x) = 0
    PROVE  IsFiniteSet(R) /\ Cardinality(R) <= n
<1> DEFINE Few(m) == \A p \in [0 .. m -> Elements], Z \in SUBSET (1 .. N) :
                        (/\ \E j \in 0 .. m : p[j] # 0
                         /\ \A x \in Z : ValueAt(p, m, x) = 0) => Cardinality(Z) <= m
           S == {m \in Nat : Few(m)}
<1>1. \A Z \in SUBSET (1 .. N) : IsFiniteSet(Z)
  <2>1. IsFiniteSet(1 .. N)
    BY Sizes, FS_Interval
  <2> QED BY <2>1, FS_Subset
<1>2. 0 \in S
  <2> SUFFICES ASSUME NEW p \in [0 .. 0 -> Elements], NEW Z \in SUBSET (1 .. N),
                      \E j \in 0 .. 0 : p[j] # 0, \A x \in Z : ValueAt(p, 0, x) = 0
               PROVE  Cardinality(Z) <= 0
    OBVIOUS
  <2>1. p[0] # 0 /\ Terms(p, 0)
    BY DEF Terms
  <2>2. Z = {}
    BY <2>1, ValueOfConstant
  <2> QED BY <2>2, FS_EmptySet
<1>3. ASSUME NEW m \in Nat, m \in S PROVE m + 1 \in S
  <2>0. Few(m)
    BY <1>3
  <2> SUFFICES ASSUME NEW p \in [0 .. m + 1 -> Elements], NEW Z \in SUBSET (1 .. N),
                      \E j \in 0 .. m + 1 : p[j] # 0, \A x \in Z : ValueAt(p, m + 1, x) = 0
               PROVE  Cardinality(Z) <= m + 1
    OBVIOUS
  <2> HIDE DEF S
  <2>1. CASE Z = {}
    BY <2>1, FS_EmptySet
  <2>2. ASSUME NEW z \in Z PROVE Cardinality(Z) <= m + 1
    <3> DEFINE g == Quotient(p, m, z)
               Y == Z \ {z}
    <3>1. z \in 1 .. N /\ Terms(p, m + 1)
      BY DEF Terms
    <3>2. Divides(p, m, z, g)
      BY <3>1, QuotientDivides
    <3>3. g = [j \in 0 .. m |-> g[j]]
      BY DEF Quotient
    <3> HIDE DEF g
    <3>4. g \in [0 .. m -> Elements]
      BY <3>2, <3>3 DEF Divides, Terms
    <3>5. \E j \in 0 .. m : g[j] # 0
      <4> SUFFICES ASSUME \A j \in 0 .. m : g[j] = 0 PROVE FALSE
        OBVIOUS
      <4>1. ASSUME NEW k \in 0 .. m + 1 PROVE p[k] = 0
        <5>1. k >= 1 => k - 1 \in 0 .. m
          OBVIOUS
        <5>2. k <= m => k \in 0 .. m
          OBVIOUS
        <5>3. /\ k >= 1 => g[k - 1] = 0
              /\ k <= m => field_mul(z, g[k]) = 0
          BY <5>1, <5>2, MulMonoid
        <5>4. p[k] = field_add(IF k >= 1 THEN g[k - 1] ELSE 0,
                               IF k <= m THEN field_mul(z, g[k]) ELSE 0)
          BY <3>2 DEF Divides
        <5>5. p[k] = field_add(0, 0)
          BY <5>3, <5>4
        <5> QED BY <5>5, ZeroInElements, AddGroup
      <4> QED BY <4>1
    <3>6. ASSUME NEW x \in Y PROVE ValueAt(g, m, x) = 0
      <4>1. x \in 1 .. N /\ x # z /\ x \in Elements /\ z \in Elements
        BY <3>1, Nonzero
      <4>2. field_mul(field_add(x, z), ValueAt(g, m, x)) = 0
        BY <3>1, <3>2, <4>1, DividesValue
      <4>3. field_add(x, z) # 0 /\ field_add(x, z) \in Elements
        BY <4>1, Cancel, AddGroup
      <4>4. ValueAt(g, m, x) \in Elements
        BY <3>2, <4>1, ValueType DEF Divides
      <4> QED BY <4>2, <4>3, <4>4, Nonzero
    <3>7. Cardinality(Y) <= m
      BY <2>0, <3>4, <3>5, <3>6
    <3>8. IsFiniteSet(Z) /\ IsFiniteSet(Y) /\ z \notin Y /\ Z = Y \cup {z}
      BY <1>1
    <3>9. Cardinality(Y) \in Nat /\ Cardinality(Z) = Cardinality(Y) + 1
      <4> HIDE DEF Y
      <4> QED BY <3>8, FS_AddElement, FS_CardinalityType
    <3> QED BY <3>7, <3>9
  <2> QED BY <2>1, <2>2
<1>4. Few(n)
  <2> HIDE DEF S
  <2>1. n \in S
    BY <1>2, <1>3, SetInduction
  <2> QED BY <2>1 DEF S
<1> QED BY <1>1, <1>4

\* A table of powers holds their logarithms.
LEMMA LutPowers ==
    ASSUME N >= 2, NEW x \in 1 .. N, NEW n \in Nat
    PROVE  LET lut == polynomial_build_exp_lut(x, n)
           IN  \A i \in 0 .. n : lut[i] \in 1 .. N /\ Exp[lut[i]] = field_pow(x, i)
<1> DEFINE lut == polynomial_build_exp_lut(x, n)
           S == {i \in Nat : i <= n => Exp[lut[i]] = field_pow(x, i)}
<1>1. /\ x \in Elements /\ x # 0 /\ N \in Nat
      /\ Log[x] \in 1 .. N /\ Exp[Log[x]] = x
  BY Nonzero, LogTable, Sizes
<1>2. /\ lut[0] = N
      /\ \A i \in 0 .. n : lut[i] \in 1 .. N
      /\ \A i \in 1 .. n : lut[i] = field_mul_log(lut[i - 1], Log[x])
  BY <1>1, ExpLut
<1> HIDE DEF lut
<1>3. 0 \in S
  BY <1>2, PowersCycle, PowLaws
<1>4. ASSUME NEW i \in Nat, i \in S PROVE i + 1 \in S
  <2> SUFFICES ASSUME i + 1 <= n PROVE Exp[lut[i + 1]] = field_pow(x, i + 1)
    OBVIOUS
  <2>1. i \in 0 .. n /\ i + 1 \in 1 .. n /\ (i + 1) - 1 = i /\ 1 \in Nat
    OBVIOUS
  <2> DEFINE l == lut[i]
             s == l + Log[x]
             e == field_pow(x, i)
  <2>2. l \in 1 .. N /\ Exp[l] = e
    BY <2>1, <1>2, <1>4
  <2>3. e \in 1 .. N /\ Log[e] = l
    BY <2>2, LogTable
  <2>4. field_pow(x, i + 1) = field_mul(e, x)
    BY <2>1, PowLaws
  <2>5. field_mul(e, x) = Exp[s]
    BY <2>3, MulOfNonzero
  <2>6. lut[i + 1] = Wrapped(s)
    BY <2>1, <1>2 DEF field_mul_log
  <2> HIDE DEF e, l
  <2>7. Exp[Wrapped(s)] = Exp[s]
    <3>1. s \in 2 .. 2 * N
      BY <1>1, <2>2
    <3> HIDE DEF s
    <3>2. CASE s > N
      <4>1. s - N \in 0 .. N + 1 /\ (s - N) + N = s
        BY <1>1, <3>1, <3>2
      <4>2. Exp[(s - N) + N] = Exp[s - N]
        BY <4>1, PowersCycle
      <4> QED BY <3>2, <4>1, <4>2 DEF Wrapped
    <3>3. CASE ~ (s > N)
      BY <3>3 DEF Wrapped
    <3> QED BY <3>2, <3>3
  <2> QED BY <2>4, <2>5, <2>6, <2>7
<1> HIDE DEF S
<1>5. \A i \in Nat : i \in S
  BY <1>3, <1>4, SetInduction
<1> QED BY <1>2, <1>5 DEF S, lut

\* A polynomial is evaluated with a table of powers, longer than it or not
\* (polynomial.c:100-130).
LEMMA EvalIsValue ==
    ASSUME N >= 2, NEW n \in Nat, NEW m \in Nat, n <= m, NEW f, Terms(f, n), NEW x \in 1 .. N
    PROVE  polynomial_eval_lut(f, n, polynomial_build_exp_lut(x, m)) = ValueAt(f, n, x)
<1> DEFINE lut == polynomial_build_exp_lut(x, m)
           t == [i \in 0 .. n |-> IF f[i] = 0 THEN 0 ELSE field_mul_log_element(Log[f[i]], lut[i])]
<1>1. \A i \in 0 .. m : lut[i] \in 1 .. N /\ Exp[lut[i]] = field_pow(x, i)
  BY LutPowers
<1> HIDE DEF lut
<1>2. lut[0] # 0
  BY <1>1, Sizes
<1>3. ASSUME NEW i \in 0 .. n PROVE t[i] = field_mul(f[i], field_pow(x, i))
  <2>1. f[i] \in Elements /\ i \in 0 .. m
    BY DEF Terms
  <2>2. CASE f[i] = 0
    BY <2>2, MulMonoid
  <2>3. CASE f[i] # 0
    <3> DEFINE e == field_pow(x, i)
    <3>1. f[i] \in 1 .. N
      BY <2>1, <2>3, Nonzero
    <3>2. lut[i] \in 1 .. N /\ Exp[lut[i]] = e
      BY <1>1, <2>1
    <3>3. e \in 1 .. N /\ Log[e] = lut[i]
      BY <3>2, LogTable
    <3>4. field_mul(f[i], e) = Exp[Log[f[i]] + Log[e]]
      BY <3>1, <3>3, MulOfNonzero
    <3> QED BY <2>3, <3>3, <3>4 DEF field_mul_log_element
  <2> QED BY <2>2, <2>3
<1>4. t = Powers(f, n, x)
  BY <1>3 DEF Powers
<1>5. polynomial_eval_lut(f, n, lut) = FieldTotal(t, 0, n)
  BY <1>2 DEF polynomial_eval_lut
<1> QED BY <1>4, <1>5 DEF ValueAt, lut

\* So is one given by the logarithms of its coefficients (polynomial.c:131-160).
LEMMA EvalLogIsValue ==
    ASSUME N >= 2, NEW n \in Nat, NEW m \in Nat, n <= m, NEW f, Terms(f, n), NEW x \in Elements
    PROVE  LET logs == [k \in 0 .. n |-> Log[f[k]]]
               v == polynomial_eval_log_lut(logs, n, polynomial_build_exp_lut(x, m))
           IN  v = IF x = 0 THEN f[0] ELSE ValueAt(f, n, x)
<1> DEFINE logs == [k \in 0 .. n |-> Log[f[k]]]
           lut == polynomial_build_exp_lut(x, m)
           t == [i \in 0 .. n |-> IF logs[i] = 0 THEN 0 ELSE field_mul_log_element(logs[i], lut[i])]
<1>0. 0 \in 0 .. n /\ 0 \in 0 .. m /\ x \in Elements
  OBVIOUS
<1>1. \A k \in 0 .. n : /\ f[k] \in Elements /\ logs[k] = Log[f[k]]
                        /\ (f[k] = 0 <=> logs[k] = 0) /\ (f[k] # 0 => Exp[logs[k]] = f[k])
  <2> SUFFICES ASSUME NEW k \in 0 .. n
               PROVE  /\ f[k] \in Elements /\ logs[k] = Log[f[k]]
                      /\ (f[k] = 0 <=> logs[k] = 0) /\ (f[k] # 0 => Exp[logs[k]] = f[k])
    OBVIOUS
  <2>1. f[k] \in Elements /\ logs[k] = Log[f[k]]
    BY DEF Terms
  <2>2. f[k] = 0 \/ f[k] \in 1 .. N
    BY <2>1, Nonzero
  <2>3. f[k] \in 1 .. N => Log[f[k]] \in 1 .. N /\ Exp[Log[f[k]]] = f[k]
    BY LogTable
  <2>4. Log[0] = 0
    BY LogTable
  <2> HIDE DEF logs
  <2> QED BY <2>1, <2>2, <2>3, <2>4, Nonzero
<1>2. CASE x = 0
  <2>1. lut[0] = 0
    BY <1>0, <1>2, ExpLut
  <2>2. polynomial_eval_log_lut(logs, n, lut) = IF logs[0] = 0 THEN 0 ELSE Exp[logs[0]]
    BY <2>1 DEF polynomial_eval_log_lut
  <2> HIDE DEF logs, lut
  <2>3. polynomial_eval_log_lut(logs, n, lut) = f[0]
    BY <1>0, <1>1, <2>2
  <2> QED BY <1>2, <2>3 DEF logs, lut
<1>3. CASE x # 0
  <2>0. x \in 1 .. N
    BY <1>3, Nonzero
  <2>1. \A i \in 0 .. m : lut[i] \in 1 .. N
    BY <2>0, LutPowers
  <2>2. lut[0] # 0
    BY <1>0, <2>1, Nonzero
  <2>3. polynomial_eval_log_lut(logs, n, lut) = FieldTotal(t, 0, n)
    BY <2>2 DEF polynomial_eval_log_lut
  <2>4. polynomial_eval_lut(f, n, lut)
          = FieldTotal([i \in 0 .. n |-> IF f[i] = 0 THEN 0
                                         ELSE field_mul_log_element(Log[f[i]], lut[i])], 0, n)
    BY <2>2 DEF polynomial_eval_lut
  <2>5. t = [i \in 0 .. n |-> IF f[i] = 0 THEN 0 ELSE field_mul_log_element(Log[f[i]], lut[i])]
    <3> HIDE DEF logs, lut
    <3> QED BY <1>1
  <2>6. polynomial_eval_lut(f, n, lut) = ValueAt(f, n, x)
    BY <2>0, EvalIsValue
  <2> HIDE DEF t, lut, logs
  <2>7. polynomial_eval_log_lut(logs, n, lut) = ValueAt(f, n, x)
    BY <2>3, <2>4, <2>5, <2>6
  <2> QED BY <1>3, <2>7 DEF lut, logs
<1> QED BY <1>2, <1>3

\* A product of x + z with z other than 0 does not vanish at 0.
LEMMA FromRootsStart ==
    ASSUME N >= 2, NEW n \in Nat, n >= 1, NEW zeros, \A j \in 0 .. n - 1 : zeros[j] \in 1 .. N
    PROVE  polynomial_from_roots(n, zeros)[0] \in 1 .. N
<1>0. Terms(zeros, n - 1)
  BY Nonzero DEF Terms
<1>1. PICK P : Products(P, n, zeros) /\ polynomial_from_roots(n, zeros) = P[n]
  BY <1>0, FromRoots
<1>2. /\ P[1] = Factor(zeros[0])
      /\ \A m \in 1 .. n : P[m] \in [0 .. m -> Elements]
      /\ \A m \in 2 .. n : P[m] = polynomial_mul(Factor(zeros[m - 1]), 1, P[m - 1], m - 1, m)
  BY <1>1 DEF Products
<1> DEFINE S == {i \in Nat : i <= n - 1 => P[i + 1][0] \in 1 .. N}
<1>3. 0 \in S
  <2>1. 0 + 1 = 1 /\ 0 \in 0 .. n - 1
    OBVIOUS
  <2> QED BY <2>1, <1>2 DEF Factor
<1>4. ASSUME NEW i \in Nat, i \in S PROVE i + 1 \in S
  <2> SUFFICES ASSUME i + 1 <= n - 1 PROVE P[(i + 1) + 1][0] \in 1 .. N
    OBVIOUS
  <2> DEFINE m == i + 1
             z == zeros[m]
             p == P[m]
             h == polynomial_mul(Factor(z), 1, p, m, m + 1)
  <2>1. /\ m \in Nat /\ m \in 1 .. n /\ m + 1 \in 2 .. n /\ (m + 1) - 1 = m
        /\ m \in 0 .. n - 1 /\ i <= n - 1 /\ 0 \in 0 .. m + 1 /\ ~ (0 >= 1) /\ 0 <= m
    OBVIOUS
  <2>2. p[0] \in 1 .. N
    BY <2>1, <1>4
  <2> HIDE DEF m
  <2>3. P[m + 1] = h
    <3>1. P[m + 1] = polynomial_mul(Factor(zeros[(m + 1) - 1]), 1, P[(m + 1) - 1], (m + 1) - 1, m + 1)
      BY <2>1, <1>2
    <3> QED BY <3>1, <2>1
  <2>4. Terms(p, m) /\ z \in 1 .. N /\ z \in Elements
    <3>1. p \in [0 .. m -> Elements]
      BY <2>1, <1>2
    <3> HIDE DEF p
    <3> QED BY <3>1, <2>1, Nonzero DEF Terms
  <2>5. h[0] = field_mul(z, p[0])
    <3>1. field_mul(z, p[0]) \in 1 .. N
      BY <2>2, <2>4, Nonzero
    <3> HIDE DEF z, p
    <3>2. h[0] = field_add(0, field_mul(z, p[0]))
      BY <2>1, <2>4, FactorTimes
    <3> QED BY <3>1, <3>2, Nonzero, AddGroup
  <2>6. h[0] \in 1 .. N
    <3> HIDE DEF h, z, p
    <3> QED BY <2>2, <2>4, <2>5, Nonzero
  <2> QED BY <2>3, <2>6 DEF m
<1>5. n - 1 \in S
  <2> HIDE DEF S
  <2>1. n - 1 \in Nat
    OBVIOUS
  <2> QED BY <1>3, <1>4, <2>1, SetInduction
<1>6. (n - 1) + 1 = n
  OBVIOUS
<1> QED BY <1>1, <1>5, <1>6

\* The derivative of x + z times g has the value of g at z (polynomial.c:77-98).
LEMMA DerivativeAtRoot ==
    ASSUME N >= 2, NEW n \in Nat, NEW f, NEW z \in 1 .. N, NEW g,
           Terms(f, n + 1), Divides(f, n, z, g)
    PROVE  /\ Terms(polynomial_formal_derivative(f, n + 1), n)
           /\ ValueAt(polynomial_formal_derivative(f, n + 1), n, z) = ValueAt(g, n, z)
<1> DEFINE d == polynomial_formal_derivative(f, n + 1)
           D == Powers(d, n, z)
           G == Powers(g, n, z)
           A(k) == FieldTotal(D, 0, k)
           B(k) == FieldTotal(G, 0, k)
           H(k) == IF k % 2 = 0 /\ k + 1 <= n THEN G[k + 1] ELSE 0
           S == {k \in Nat : k <= n => A(k) = field_add(B(k), H(k))}
<1>1. ASSUME NEW i \in 0 .. n
      PROVE  /\ f[i + 1] \in Elements
             /\ f[i + 1] = field_add(g[i], IF i + 1 <= n THEN field_mul(z, g[i + 1]) ELSE 0)
             /\ d[i] = IF i % 2 = 0 THEN f[i + 1] ELSE 0
  <2>1. i + 1 \in 0 .. n + 1 /\ i + 1 >= 1 /\ (i + 1) - 1 = i /\ n + 1 - 1 = n
        /\ ((i + 1) % 2 = 1 <=> i % 2 = 0)
    OBVIOUS
  <2>2. d[i] = field_sum(f[i + 1], i + 1)
    BY <2>1 DEF polynomial_formal_derivative
  <2>3. f[i + 1] \in Elements
    BY <2>1 DEF Terms
  <2> HIDE DEF d
  <2>4. d[i] = IF i % 2 = 0 THEN f[i + 1] ELSE 0
    BY <2>1, <2>2 DEF field_sum
  <2>5. f[i + 1] = field_add(IF i + 1 >= 1 THEN g[(i + 1) - 1] ELSE 0,
                             IF i + 1 <= n THEN field_mul(z, g[i + 1]) ELSE 0)
    BY <2>1 DEF Divides
  <2> QED BY <2>1, <2>3, <2>4, <2>5
<1> HIDE DEF d
<1>2. Terms(d, n) /\ Terms(g, n)
  BY <1>1, ZeroInElements DEF Terms, Divides
<1>3. Terms(D, n) /\ Terms(G, n)
  BY <1>2, ValueType
<1>4. \A i \in 0 .. n : /\ D[i] = field_mul(d[i], field_pow(z, i))
                        /\ G[i] = field_mul(g[i], field_pow(z, i))
                        /\ D[i] \in Elements /\ G[i] \in Elements
                        /\ d[i] \in Elements /\ g[i] \in Elements
                        /\ field_pow(z, i) \in Elements
  <2> SUFFICES ASSUME NEW i \in 0 .. n
               PROVE  /\ D[i] = field_mul(d[i], field_pow(z, i))
                      /\ G[i] = field_mul(g[i], field_pow(z, i))
                      /\ D[i] \in Elements /\ G[i] \in Elements
                      /\ d[i] \in Elements /\ g[i] \in Elements
                      /\ field_pow(z, i) \in Elements
    OBVIOUS
  <2>1. D[i] = field_mul(d[i], field_pow(z, i)) /\ G[i] = field_mul(g[i], field_pow(z, i))
    BY DEF Powers
  <2>2. D[i] \in Elements /\ G[i] \in Elements /\ d[i] \in Elements /\ g[i] \in Elements
    <3> HIDE DEF D, G
    <3> QED BY <1>2, <1>3 DEF Terms
  <2>3. field_pow(z, i) \in Elements
    <3>1. i \in Nat
      OBVIOUS
    <3>2. field_pow(z, i) \in 1 .. N
      BY <3>1, PowLaws
    <3> QED BY <3>2, Nonzero
  <2> HIDE DEF D, G
  <2> QED BY <2>1, <2>2, <2>3
<1> HIDE DEF D, G
<1>5. ASSUME NEW i \in 0 .. n, i % 2 = 0
      PROVE  D[i] = field_add(G[i], IF i + 1 <= n THEN G[i + 1] ELSE 0)
  <2> DEFINE p == field_pow(z, i)
             a == g[i]
             b == IF i + 1 <= n THEN field_mul(z, g[i + 1]) ELSE 0
  <2>0. i \in Nat /\ 1 \in Nat
    OBVIOUS
  <2>1. z \in Elements /\ a \in Elements /\ p \in Elements /\ i \in Nat /\ 1 \in Nat
    <3>1. z \in Elements
      BY Nonzero
    <3> QED BY <1>4, <2>0, <3>1
  <2>2. b \in Elements
    <3>1. CASE i + 1 <= n
      <4>1. i + 1 \in 0 .. n
        BY <3>1
      <4> QED BY <1>4, <2>1, <3>1, <4>1, MulMonoid
    <3>2. CASE ~ (i + 1 <= n)
      BY <3>2, ZeroInElements
    <3> QED BY <3>1, <3>2
  <2>3. D[i] = field_mul(field_add(a, b), p)
    BY <1>1, <1>4, <1>5
  <2>4. field_mul(b, p) = IF i + 1 <= n THEN G[i + 1] ELSE 0
    <3>1. CASE i + 1 <= n
      <4> DEFINE c == g[i + 1]
      <4>1. i + 1 \in 0 .. n
        BY <3>1
      <4>2. c \in Elements /\ G[i + 1] = field_mul(c, field_pow(z, i + 1))
        BY <1>4, <4>1
      <4>3. field_pow(z, i + 1) = field_mul(p, z)
        BY <2>1, PowLaws
      <4>4. field_mul(p, z) = field_mul(z, p) /\ field_mul(z, c) = field_mul(c, z)
            /\ field_mul(field_mul(c, z), p) = field_mul(c, field_mul(z, p))
        <5> HIDE DEF c, p
        <5> QED BY <2>1, <4>2, MulMonoid
      <4> QED BY <3>1, <4>2, <4>3, <4>4
    <3>2. CASE ~ (i + 1 <= n)
      BY <3>2, MulMonoid
    <3> QED BY <3>1, <3>2
  <2> HIDE DEF a, b, p
  <2>5. field_mul(p, field_add(a, b)) = field_add(field_mul(p, a), field_mul(p, b))
    BY <2>1, <2>2, MulDistributes
  <2>6. /\ field_add(a, b) \in Elements
        /\ field_mul(p, field_add(a, b)) = field_mul(field_add(a, b), p)
        /\ field_mul(p, a) = field_mul(a, p) /\ field_mul(p, b) = field_mul(b, p)
    BY <2>1, <2>2, AddGroup, MulMonoid
  <2>7. G[i] = field_mul(a, p)
    BY <1>4 DEF a, p
  <2>8. D[i] = field_add(field_mul(a, p), field_mul(b, p))
    BY <2>3, <2>5, <2>6
  <2> QED BY <2>4, <2>7, <2>8
<1>6. ASSUME NEW i \in 0 .. n, i % 2 # 0 PROVE D[i] = 0
  <2>1. d[i] = 0
    BY <1>1, <1>6
  <2>2. D[i] = field_mul(0, field_pow(z, i))
    BY <1>4, <2>1
  <2> QED BY <2>2, MulMonoid
<1>7. ASSUME NEW k \in 0 .. n PROVE A(k) \in Elements /\ B(k) \in Elements
  <2>1. Terms(D, k) /\ Terms(G, k)
    BY <1>3 DEF Terms
  <2> QED BY <2>1, TotalType
<1>8. 0 \in S
  <2>1. Terms(D, 0) /\ Terms(G, 0) /\ 0 \in 0 .. n /\ 0 % 2 = 0
    BY <1>3 DEF Terms
  <2>2. A(0) = D[0] /\ B(0) = G[0]
    BY <2>1, TotalOfOne
  <2>3. D[0] = field_add(G[0], IF 0 + 1 <= n THEN G[0 + 1] ELSE 0)
    BY <1>5, <2>1
  <2> QED BY <2>1, <2>2, <2>3
<1>9. ASSUME NEW k \in Nat, k \in S PROVE k + 1 \in S
  <2> SUFFICES ASSUME k + 1 <= n PROVE A(k + 1) = field_add(B(k + 1), H(k + 1))
    OBVIOUS
  <2>1. k \in 0 .. n /\ k + 1 \in 0 .. n
    OBVIOUS
  <2>2. A(k) = field_add(B(k), H(k))
    BY <1>9
  <2>3. Terms(D, k + 1) /\ Terms(G, k + 1)
    BY <1>3 DEF Terms
  <2>4. A(k + 1) = field_add(A(k), D[k + 1]) /\ B(k + 1) = field_add(B(k), G[k + 1])
    BY <2>3, TotalStep
  <2>5. A(k) \in Elements /\ B(k) \in Elements /\ A(k + 1) \in Elements /\ B(k + 1) \in Elements
    BY <1>7, <2>1
  <2>6. G[k + 1] \in Elements
    BY <1>4, <2>1
  <2> HIDE DEF A, B, S
  <2>7. CASE k % 2 = 0
    <3>1. (k + 1) % 2 # 0
      BY <2>7
    <3>2. H(k) = G[k + 1] /\ H(k + 1) = 0
      BY <2>7, <3>1
    <3>3. D[k + 1] = 0
      BY <1>6, <2>1, <3>1
    <3> HIDE DEF H
    <3> QED BY <2>2, <2>4, <2>5, <3>2, <3>3, AddGroup
  <2>8. CASE k % 2 # 0
    <3> DEFINE h == IF (k + 1) + 1 <= n THEN G[(k + 1) + 1] ELSE 0
    <3>1. (k + 1) % 2 = 0
      BY <2>8
    <3>2. H(k) = 0 /\ H(k + 1) = h
      BY <2>8, <3>1
    <3>3. D[k + 1] = field_add(G[k + 1], h)
      BY <1>5, <2>1, <3>1
    <3>4. h \in Elements
      <4>1. (k + 1) + 1 <= n => (k + 1) + 1 \in 0 .. n
        BY <2>1
      <4> QED BY <4>1, <1>4, ZeroInElements
    <3> HIDE DEF H, h
    <3>5. A(k) = B(k)
      BY <2>2, <2>5, <3>2, AddGroup
    <3>6. field_add(B(k), field_add(G[k + 1], h)) = field_add(field_add(B(k), G[k + 1]), h)
      BY <2>5, <2>6, <3>4, AddGroup
    <3> QED BY <2>4, <3>2, <3>3, <3>5, <3>6
  <2> QED BY <2>7, <2>8
<1>10. A(n) = B(n)
  <2>1. n \in S
    <3> HIDE DEF S
    <3> QED BY <1>8, <1>9, SetInduction
  <2>2. H(n) = 0 /\ A(n) \in Elements /\ B(n) \in Elements
    BY <1>7
  <2>3. A(n) = field_add(B(n), H(n))
    BY <2>1
  <2> HIDE DEF A, B, H
  <2> QED BY <2>2, <2>3, AddGroup
<1> QED BY <1>2, <1>10 DEF ValueAt, D, G, d

------------------------------------------------------------------------------
(* Products cut off after a coefficient, as polynomial_mul computes them.*)

\* The total of terms that are all zero but one.
LEMMA TotalSingle ==
    ASSUME NEW n \in Nat, NEW m \in 0 .. n, NEW h, h[m] \in Elements,
           \A k \in 0 .. n : k # m => h[k] = 0
    PROVE  Terms(h, n) /\ FieldTotal(h, 0, n) = h[m]
<1> DEFINE g == [k \in 0 .. 0 |-> h[m]]
<1>1. Terms(g, 0) /\ g[0] = h[m] /\ 0 \in Nat /\ m \in Nat
  BY DEF Terms
<1>2. MovedBy(h, n, m, g, 0)
  <2> SUFFICES ASSUME NEW k \in 0 .. n PROVE h[k] = IF k \in m .. m + 0 THEN g[k - m] ELSE 0
    BY DEF MovedBy
  <2>1. CASE k = m
    BY <1>1, <2>1
  <2>2. CASE k # m
    <3>1. k \notin m .. m + 0
      BY <2>2
    <3> HIDE DEF g
    <3> QED BY <2>2, <3>1
  <2> QED BY <2>1, <2>2
<1> HIDE DEF g
<1>3. Terms(h, n) /\ FieldTotal(h, 0, n) = FieldTotal(g, 0, 0)
  BY <1>1, <1>2, TotalMoves
<1>4. FieldTotal(g, 0, 0) = g[0]
  BY <1>1, TotalOfOne
<1> QED BY <1>1, <1>3, <1>4

\* The total of terms that are all zero but the first and another.
LEMMA TotalOfTwo ==
    ASSUME N >= 2, NEW n \in Nat, NEW m \in 1 .. n, NEW h, h[0] \in Elements, h[m] \in Elements,
           \A k \in 1 .. n : k # m => h[k] = 0
    PROVE  FieldTotal(h, 0, n) = field_add(h[0], h[m])
<1> DEFINE a == [k \in 0 .. n |-> IF k = 0 THEN h[0] ELSE 0]
           b == [k \in 0 .. n |-> IF k = m THEN h[m] ELSE 0]
<1>0. 0 \in 0 .. n /\ m \in 0 .. n /\ m # 0 /\ 0 \in Elements /\ 1 \in Elements
  BY ZeroInElements
<1>1. a[0] = h[0] /\ b[m] = h[m] /\ (\A k \in 0 .. n : k # 0 => a[k] = 0)
      /\ (\A k \in 0 .. n : k # m => b[k] = 0)
  BY <1>0
<1> HIDE DEF a, b
<1>2. Terms(a, n) /\ FieldTotal(a, 0, n) = h[0]
  BY <1>0, <1>1, TotalSingle
<1>3. Terms(b, n) /\ FieldTotal(b, 0, n) = h[m]
  BY <1>0, <1>1, TotalSingle
<1>4. \A k \in 0 .. n : h[k] = field_add(a[k], field_mul(1, b[k]))
  <2> SUFFICES ASSUME NEW k \in 0 .. n PROVE h[k] = field_add(a[k], field_mul(1, b[k]))
    OBVIOUS
  <2>1. field_mul(1, b[k]) = b[k]
    BY <1>3, MulMonoid DEF Terms
  <2>2. CASE k = 0
    <3>1. a[k] = h[k] /\ b[k] = 0
      BY <1>0, <1>1, <2>2
    <3> QED BY <2>1, <2>2, <3>1, AddGroup
  <2>3. CASE k = m
    <3>1. a[k] = 0 /\ b[k] = h[k]
      BY <1>0, <1>1, <2>3
    <3> QED BY <2>1, <2>3, <3>1, AddGroup
  <2>4. CASE k # 0 /\ k # m
    <3>1. a[k] = 0 /\ b[k] = 0 /\ h[k] = 0
      BY <1>1, <2>4
    <3> QED BY <2>1, <3>1, <1>0, AddGroup
  <2> QED BY <2>2, <2>3, <2>4
<1>5. FieldTotal(h, 0, n) = field_add(FieldTotal(a, 0, n), field_mul(1, FieldTotal(b, 0, n)))
  BY <1>0, <1>2, <1>3, <1>4, TotalAdds
<1> QED BY <1>2, <1>3, <1>5, MulMonoid

\* Zeros above its order do not change the value of a polynomial.
LEMMA ValueShorter ==
    ASSUME N >= 2, NEW n \in Nat, NEW m \in Nat, n <= m, NEW f, NEW h, Terms(f, n),
           \A k \in 0 .. m : h[k] = IF k <= n THEN f[k] ELSE 0, NEW x \in 1 .. N
    PROVE  Terms(h, m) /\ ValueAt(h, m, x) = ValueAt(f, n, x)
<1>1. MovedBy(h, m, 0, f, n)
  BY DEF MovedBy
<1>2. Terms(h, m) /\ ValueAt(h, m, x) = field_mul(field_pow(x, 0), ValueAt(f, n, x))
  BY <1>1, ValueMoves
<1>3. field_pow(x, 0) = 1 /\ ValueAt(f, n, x) \in Elements
  BY PowLaws, ValueType
<1> QED BY <1>2, <1>3, MulMonoid

\* The coefficient of x^j in the product of f, of the order n, and the series S.
ConvTerms(f, n, S, j) == [i \in 0 .. j |-> IF i <= n THEN field_mul(f[i], S[j - i]) ELSE 0]
Conv(f, n, S, j) == FieldTotal(ConvTerms(f, n, S, j), 0, j)

\* These are elements, and so is their total.
LEMMA ConvType ==
    ASSUME N >= 2, NEW n \in Nat, NEW f, Terms(f, n), NEW r \in Nat, NEW S, Terms(S, r),
           NEW j \in 0 .. r
    PROVE  Terms(ConvTerms(f, n, S, j), j) /\ Conv(f, n, S, j) \in Elements
<1>1. Terms(ConvTerms(f, n, S, j), j)
  <2> SUFFICES ASSUME NEW i \in 0 .. j PROVE ConvTerms(f, n, S, j)[i] \in Elements
    BY DEF Terms
  <2>1. ConvTerms(f, n, S, j)[i] = IF i <= n THEN field_mul(f[i], S[j - i]) ELSE 0
    BY DEF ConvTerms
  <2>2. j - i \in 0 .. r /\ (i <= n => i \in 0 .. n)
    OBVIOUS
  <2>3. S[j - i] \in Elements /\ (i <= n => f[i] \in Elements)
    BY <2>2 DEF Terms
  <2> QED BY <2>1, <2>3, MulMonoid, ZeroInElements
<1> QED BY <1>1, TotalType DEF Conv

\* It is what polynomial_mul computes (polynomial.c:15-37).
LEMMA MulIsConv ==
    ASSUME NEW n \in Nat, NEW f, NEW r \in Nat, NEW S, NEW j \in 0 .. r
    PROVE  polynomial_mul(f, n, S, r, r)[j] = Conv(f, n, S, j)
<1> DEFINE t == [i \in 0 .. j |-> IF i <= n /\ j - i <= r THEN field_mul(f[i], S[j - i]) ELSE 0]
<1>1. polynomial_mul(f, n, S, r, r)[j] = FieldTotal(t, 0, j)
  BY DEF polynomial_mul
<1>2. \A i \in 0 .. j : j - i <= r
  OBVIOUS
<1>3. t = ConvTerms(f, n, S, j)
  BY <1>2 DEF ConvTerms
<1> QED BY <1>1, <1>3 DEF Conv

\* R is c times S.
IsMultiple(R, c, S, r) == \A i \in 0 .. r : R[i] = field_mul(c, S[i])

\* Multiples.
LEMMA ConvScales ==
    ASSUME N >= 2, NEW n \in Nat, NEW f, Terms(f, n), NEW r \in Nat, NEW S, Terms(S, r),
           NEW c \in Elements, NEW R, IsMultiple(R, c, S, r), NEW j \in 0 .. r
    PROVE  Conv(f, n, R, j) = field_mul(c, Conv(f, n, S, j))
<1>1. Terms(ConvTerms(f, n, S, j), j)
  BY ConvType
<1>2. \A i \in 0 .. j : ConvTerms(f, n, R, j)[i] = field_mul(c, ConvTerms(f, n, S, j)[i])
  <2> SUFFICES ASSUME NEW i \in 0 .. j
               PROVE  ConvTerms(f, n, R, j)[i] = field_mul(c, ConvTerms(f, n, S, j)[i])
    OBVIOUS
  <2>1. /\ ConvTerms(f, n, R, j)[i] = IF i <= n THEN field_mul(f[i], R[j - i]) ELSE 0
        /\ ConvTerms(f, n, S, j)[i] = IF i <= n THEN field_mul(f[i], S[j - i]) ELSE 0
    BY DEF ConvTerms
  <2>2. j - i \in 0 .. r
    OBVIOUS
  <2>3. CASE i <= n
    <3> DEFINE a == f[i]
               b == S[j - i]
    <3>1. i \in 0 .. n
      BY <2>3
    <3>2. a \in Elements /\ b \in Elements /\ R[j - i] = field_mul(c, b)
      BY <2>2, <3>1 DEF Terms, IsMultiple
    <3>3. field_mul(a, field_mul(c, b)) = field_mul(c, field_mul(a, b))
      <4> HIDE DEF a, b
      <4>1. /\ field_mul(field_mul(a, c), b) = field_mul(a, field_mul(c, b))
            /\ field_mul(field_mul(c, a), b) = field_mul(c, field_mul(a, b))
            /\ field_mul(a, c) = field_mul(c, a)
        BY <3>2, MulMonoid
      <4> QED BY <4>1
    <3> QED BY <2>1, <2>3, <3>2, <3>3
  <2>4. CASE ~ (i <= n)
    BY <2>1, <2>4, MulMonoid
  <2> QED BY <2>3, <2>4
<1> QED BY <1>1, <1>2, TotalScales DEF Conv

\* F[0] .. F[q] have elements at 0 .. r, and R is their sum, place by place.
AllTerms(F, q, r) == \A k \in 0 .. q : Terms(F[k], r)
AreTotals(R, r, F, q) == \A i \in 0 .. r : R[i] = FieldTotal([k \in 0 .. q |-> F[k][i]], 0, q)

\* The products of f with each of F[0] .. F[q].
AreConvs(B, f, n, F, j, q) == \A k \in 0 .. q : B[k] = Conv(f, n, F[k], j)

\* A series of sums.
LEMMA ConvOfTotals ==
    ASSUME N >= 2, NEW n \in Nat, NEW f, Terms(f, n), NEW r \in Nat, NEW q \in Nat,
           NEW F, AllTerms(F, q, r), NEW R, AreTotals(R, r, F, q),
           NEW j \in 0 .. r, NEW B, AreConvs(B, f, n, F, j, q)
    PROVE  Conv(f, n, R, j) = FieldTotal(B, 0, q)
<1> DEFINE T == [p \in (0 .. j) \X (0 .. q) |-> ConvTerms(f, n, F[p[2]], j)[p[1]]]
           A == ConvTerms(f, n, R, j)
<1>1. \A i \in 0 .. j, k \in 0 .. q : T[<<i, k>>] = ConvTerms(f, n, F[k], j)[i]
  OBVIOUS
<1> HIDE DEF T
<1>2. \A k \in 0 .. q : Terms(ConvTerms(f, n, F[k], j), j)
  BY ConvType DEF AllTerms
<1>3. Table(T, j, q)
  <2> SUFFICES ASSUME NEW i \in 0 .. j, NEW k \in 0 .. q PROVE T[<<i, k>>] \in Elements
    BY DEF Table
  <2>1. ConvTerms(f, n, F[k], j)[i] \in Elements
    BY <1>2 DEF Terms
  <2> QED BY <1>1, <2>1
<1>4. Columns(T, B, j, q)
  <2> SUFFICES ASSUME NEW k \in 0 .. q
               PROVE  B[k] = FieldTotal([i \in 0 .. j |-> T[<<i, k>>]], 0, j)
    BY DEF Columns
  <2>1. [i \in 0 .. j |-> T[<<i, k>>]] = ConvTerms(f, n, F[k], j)
    BY <1>1 DEF ConvTerms
  <2> QED BY <2>1 DEF Conv, AreConvs
<1>5. Rows(T, A, j, q)
  <2> SUFFICES ASSUME NEW i \in 0 .. j
               PROVE  A[i] = FieldTotal([k \in 0 .. q |-> T[<<i, k>>]], 0, q)
    BY DEF Rows
  <2> DEFINE s == [k \in 0 .. q |-> F[k][j - i]]
             t == [k \in 0 .. q |-> T[<<i, k>>]]
  <2>1. j - i \in 0 .. r
    OBVIOUS
  <2>2. A[i] = IF i <= n THEN field_mul(f[i], R[j - i]) ELSE 0
    BY DEF ConvTerms
  <2>3. R[j - i] = FieldTotal(s, 0, q)
    BY <2>1 DEF AreTotals
  <2>4. Terms(s, q)
    BY <2>1 DEF Terms, AllTerms
  <2>5. \A k \in 0 .. q : t[k] = IF i <= n THEN field_mul(f[i], F[k][j - i]) ELSE 0
    BY <1>1 DEF ConvTerms
  <2>6. CASE i <= n
    <3> DEFINE c == f[i]
    <3>1. i \in 0 .. n
      BY <2>6
    <3>2. c \in Elements
      BY <3>1 DEF Terms
    <3>3. \A k \in 0 .. q : t[k] = field_mul(c, s[k])
      BY <2>5, <2>6
    <3> HIDE DEF s, t, c
    <3>4. FieldTotal(t, 0, q) = field_mul(c, FieldTotal(s, 0, q))
      BY <2>4, <3>2, <3>3, TotalScales
    <3> QED BY <2>2, <2>3, <2>6, <3>4 DEF c, t
  <2>7. CASE ~ (i <= n)
    <3>1. \A k \in 0 .. q : t[k] = 0
      BY <2>5, <2>7
    <3> HIDE DEF t
    <3>2. FieldTotal(t, 0, q) = 0
      BY <3>1, TotalOfZeros
    <3> QED BY <2>2, <2>7, <3>2 DEF t
  <2> QED BY <2>6, <2>7
<1> HIDE DEF A
<1>6. FieldTotal(A, 0, j) = FieldTotal(B, 0, q)
  <2>1. j \in Nat
    OBVIOUS
  <2> QED BY <1>3, <1>4, <1>5, <2>1, TotalExchange
<1> QED BY <1>6 DEF A, Conv

\* A polynomial whose product with f vanishes vanishes.
LEMMA ConvCancels ==
    ASSUME N >= 2, NEW n \in Nat, NEW f, Terms(f, n), f[0] # 0, NEW r \in Nat, NEW R, Terms(R, r),
           \A j \in 0 .. r : Conv(f, n, R, j) = 0
    PROVE  \A j \in 0 .. r : R[j] = 0
<1> DEFINE S == {k \in Nat : k <= r => \A i \in 0 .. k : R[i] = 0}
<1>1. ASSUME NEW j \in 0 .. r, \A i \in 0 .. j - 1 : R[i] = 0 PROVE R[j] = 0
  <2> DEFINE h == ConvTerms(f, n, R, j)
  <2>1. 0 \in 0 .. j /\ j - 0 = j /\ 0 \in 0 .. n /\ 0 <= n /\ j \in Nat
    OBVIOUS
  <2>2. h[0] = field_mul(f[0], R[j])
    BY <2>1 DEF ConvTerms
  <2>3. \A k \in 0 .. j : k # 0 => h[k] = 0
    <3> SUFFICES ASSUME NEW k \in 0 .. j, k # 0 PROVE h[k] = 0
      OBVIOUS
    <3>1. j - k \in 0 .. j - 1
      OBVIOUS
    <3>2. R[j - k] = 0
      BY <1>1, <3>1
    <3>3. h[k] = IF k <= n THEN field_mul(f[k], R[j - k]) ELSE 0
      BY DEF ConvTerms
    <3> QED BY <3>2, <3>3, MulMonoid
  <2>4. f[0] \in Elements /\ R[j] \in Elements
    BY <2>1 DEF Terms
  <2>5. h[0] \in Elements
    BY <2>2, <2>4, MulMonoid
  <2>6. FieldTotal(h, 0, j) = 0
    BY DEF Conv
  <2> HIDE DEF h
  <2>7. h[0] = 0
    BY <2>1, <2>3, <2>5, <2>6, TotalSingle
  <2> QED BY <2>2, <2>4, <2>7, Nonzero
<1>2. 0 \in S
  <2>1. 0 \in 0 .. r /\ \A i \in 0 .. 0 - 1 : R[i] = 0
    OBVIOUS
  <2>2. R[0] = 0
    BY <1>1, <2>1
  <2> QED BY <2>2
<1>3. ASSUME NEW k \in Nat, k \in S PROVE k + 1 \in S
  <2> SUFFICES ASSUME k + 1 <= r PROVE \A i \in 0 .. k + 1 : R[i] = 0
    OBVIOUS
  <2>1. \A i \in 0 .. k : R[i] = 0
    BY <1>3
  <2>2. k + 1 \in 0 .. r /\ (k + 1) - 1 = k
    OBVIOUS
  <2>3. R[k + 1] = 0
    BY <1>1, <2>1, <2>2
  <2>4. \A i \in 0 .. k + 1 : i = k + 1 \/ i \in 0 .. k
    OBVIOUS
  <2> QED BY <2>1, <2>3, <2>4
<1>4. r \in S
  <2> HIDE DEF S
  <2> QED BY <1>2, <1>3, SetInduction
<1> QED BY <1>4

\* The powers of y.
ArePowers(S, y, r) == \A i \in 0 .. r : S[i] = field_pow(y, i)

\* f is x + z times g: its product with 1 + yx + (yx)^2 + ..., where y is the
\* inverse of z, is z times g.
LEMMA ConvOfPowers ==
    ASSUME N >= 2, NEW n \in Nat, NEW f, Terms(f, n + 1), NEW z \in 1 .. N, NEW y \in 1 .. N,
           field_mul(y, z) = 1, NEW g, Divides(f, n, z, g),
           NEW r \in Nat, NEW S, ArePowers(S, y, r)
    PROVE  \A j \in 0 .. r : Conv(f, n + 1, S, j) = IF j <= n THEN field_mul(z, g[j]) ELSE 0
<1> USE DEF ArePowers
<1> DEFINE G(j) == IF j <= n THEN field_mul(z, g[j]) ELSE 0
           Ok == {j \in Nat : j <= r => Conv(f, n + 1, S, j) = G(j)}
           m == n + 1
<1>0. /\ z \in Elements /\ y \in Elements /\ m \in Nat /\ 1 \in Elements /\ 0 \in Elements
      /\ Terms(f, m)
  <2>1. z \in Elements /\ y \in Elements
    BY Nonzero
  <2> QED BY <2>1, ZeroInElements
<1>1. Terms(S, r)
  <2> SUFFICES ASSUME NEW i \in 0 .. r PROVE S[i] \in Elements
    BY DEF Terms
  <2>1. i \in Nat /\ S[i] = field_pow(y, i)
    OBVIOUS
  <2>2. field_pow(y, i) \in 1 .. N
    BY <2>1, PowLaws
  <2>3. 1 .. N \subseteq Elements
    BY Nonzero
  <2> QED BY <2>1, <2>2, <2>3
<1>2. \A j \in 0 .. n : g[j] \in Elements
  BY DEF Divides, Terms
<1>3. \A j \in 0 .. n + 1 : f[j] = field_add(IF j >= 1 THEN g[j - 1] ELSE 0, G(j))
  BY DEF Divides
<1>4. 0 \in Ok
  <2> DEFINE h == ConvTerms(f, m, S, 0)
  <2>1. 0 \in 0 .. n + 1 /\ 0 \in 0 .. r /\ ~ (0 >= 1) /\ 0 <= m /\ 0 - 0 = 0 /\ 0 \in 0 .. m
        /\ 0 \in 0 .. n /\ 0 <= n
    OBVIOUS
  <2>2. h[0] = field_mul(f[0], S[0])
    BY <2>1 DEF ConvTerms
  <2>3. S[0] = 1
    BY <2>1, PowLaws
  <2>4. f[0] \in Elements /\ G(0) \in Elements
    <3>1. G(0) = field_mul(z, g[0])
      BY <2>1
    <3> QED BY <1>0, <1>2, <2>1, <3>1, MulMonoid DEF Terms
  <2>5. f[0] = field_add(0, G(0))
    BY <1>3, <2>1
  <2> HIDE DEF G
  <2>6. f[0] = G(0)
    BY <2>4, <2>5, AddGroup
  <2>7. field_mul(f[0], 1) = f[0]
    BY <2>4, <1>0, MulMonoid
  <2>8. Terms(h, 0)
    BY <2>1, <1>0, <1>1, ConvType
  <2> HIDE DEF h
  <2>9. FieldTotal(h, 0, 0) = G(0)
    BY <2>2, <2>3, <2>6, <2>7, <2>8, TotalOfOne
  <2> QED BY <2>9 DEF Conv, h, m
<1>5. ASSUME NEW j \in Nat, j \in Ok PROVE j + 1 \in Ok
  <2> SUFFICES ASSUME j + 1 <= r PROVE Conv(f, m, S, j + 1) = G(j + 1)
    OBVIOUS
  <2> DEFINE k == j + 1
             a == ConvTerms(f, m, S, j)
             b == ConvTerms(f, m, S, k)
  <2>1. j \in 0 .. r /\ k \in 0 .. r /\ k - k = 0 /\ k \in 0 .. k /\ k \in Nat /\ 0 \in 0 .. r
    OBVIOUS
  <2>2. FieldTotal(a, 0, j) = G(j)
    BY <1>5, <2>1 DEF Conv
  <2>3. Terms(a, j) /\ Terms(b, k)
    BY <1>0, <1>1, <2>1, ConvType
  <2>4. \A i \in 0 .. j : b[i] = field_mul(y, a[i])
    <3> SUFFICES ASSUME NEW i \in 0 .. j PROVE b[i] = field_mul(y, a[i])
      OBVIOUS
    <3> DEFINE e == j - i
               p == field_pow(y, e)
    <3>1. /\ i \in 0 .. k /\ e \in Nat /\ e \in 0 .. r /\ k - i = e + 1 /\ e + 1 \in 0 .. r
          /\ 1 \in Nat /\ (i <= m => i \in 0 .. m)
      OBVIOUS
    <3>2. /\ a[i] = IF i <= m THEN field_mul(f[i], S[j - i]) ELSE 0
          /\ b[i] = IF i <= m THEN field_mul(f[i], S[k - i]) ELSE 0
      BY <3>1 DEF ConvTerms
    <3>3. S[j - i] = p /\ S[k - i] = field_pow(y, e + 1)
      BY <3>1
    <3> HIDE DEF e
    <3>4. field_pow(y, e + 1) = field_mul(p, y) /\ p \in Elements
      <4>1. p \in 1 .. N
        BY <3>1, PowLaws
      <4>2. field_pow(y, e + 1) = field_mul(p, field_pow(y, 1)) /\ field_pow(y, 1) = y
        BY <3>1, PowLaws
      <4> QED BY <4>1, <4>2, Nonzero
    <3> HIDE DEF p, a, b, k, m
    <3>5. CASE i <= m
      <4>1. f[i] \in Elements
        BY <1>0, <3>1, <3>5 DEF Terms
      <4> DEFINE u == f[i]
      <4>2. u \in Elements
        BY <4>1
      <4> HIDE DEF u
      <4>3. /\ field_mul(field_mul(u, p), y) = field_mul(u, field_mul(p, y))
            /\ field_mul(u, p) \in Elements
        BY <1>0, <3>4, <4>2, MulMonoid
      <4>4. field_mul(field_mul(u, p), y) = field_mul(y, field_mul(u, p))
        BY <1>0, <4>3, MulMonoid
      <4> QED BY <3>2, <3>3, <3>4, <3>5, <4>3, <4>4 DEF u
    <3>6. CASE ~ (i <= m)
      BY <3>2, <3>6, MulMonoid
    <3> QED BY <3>5, <3>6
  <2>5. b[k] = IF k <= m THEN f[k] ELSE 0
    <3>1. b[k] = IF k <= m THEN field_mul(f[k], S[0]) ELSE 0
      BY <2>1 DEF ConvTerms
    <3>2. S[0] = 1
      BY <2>1, PowLaws
    <3>3. k <= m => f[k] \in Elements /\ field_mul(f[k], 1) = f[k]
      <4> SUFFICES ASSUME k <= m PROVE f[k] \in Elements /\ field_mul(f[k], 1) = f[k]
        OBVIOUS
      <4>1. k \in 0 .. m
        OBVIOUS
      <4>2. f[k] \in Elements
        BY <1>0, <4>1 DEF Terms
      <4> QED BY <1>0, <4>2, MulMonoid
    <3> HIDE DEF b
    <3> QED BY <3>1, <3>2, <3>3
  <2> HIDE DEF a, b
  <2>6. FieldTotal(b, 0, k) = field_add(FieldTotal(b, 0, j), b[k])
    BY <2>3, TotalStep
  <2>7. FieldTotal(b, 0, j) = field_mul(y, G(j))
    <3> HIDE DEF G
    <3> QED BY <1>0, <2>2, <2>3, <2>4, TotalScales
  <2>8. field_add(field_mul(y, G(j)), b[k]) = G(k)
    <3>1. CASE j <= n
      <4>1. j \in 0 .. n /\ k \in 0 .. n + 1 /\ k >= 1 /\ k - 1 = j /\ k <= m
        BY <3>1
      <4>2. g[j] \in Elements /\ G(j) = field_mul(z, g[j])
        BY <1>2, <3>1, <4>1
      <4>3. field_mul(y, field_mul(z, g[j])) = field_mul(field_mul(y, z), g[j])
        <5> DEFINE u == g[j]
        <5>1. u \in Elements
          BY <4>2
        <5> HIDE DEF u
        <5>2. field_mul(y, field_mul(z, u)) = field_mul(field_mul(y, z), u)
          BY <1>0, <5>1, MulMonoid
        <5> QED BY <5>2 DEF u
      <4>4. field_mul(y, G(j)) = g[j]
        BY <4>2, <4>3, MulMonoid
      <4>5. f[k] = field_add(g[j], G(k))
        BY <1>3, <4>1
      <4>6. f[k] \in Elements /\ G(k) \in Elements
        <5>1. k <= n => k \in 0 .. n
          BY <4>1
        <5>2. G(k) \in Elements
          BY <1>0, <1>2, <5>1, MulMonoid
        <5>3. f[k] \in Elements
          BY <4>1 DEF Terms
        <5> QED BY <5>2, <5>3
      <4> HIDE DEF G
      <4>7. G(k) = field_add(g[j], f[k])
        BY <4>2, <4>5, <4>6, Cancel
      <4> QED BY <2>5, <4>1, <4>4, <4>7
    <3>2. CASE ~ (j <= n)
      <4>1. ~ (k <= n) /\ ~ (k <= m)
        BY <3>2
      <4>2. G(j) = 0 /\ G(k) = 0 /\ b[k] = 0
        BY <2>5, <3>2, <4>1
      <4> HIDE DEF G
      <4> QED BY <1>0, <4>2, MulMonoid, AddGroup
    <3> QED BY <3>1, <3>2
  <2> HIDE DEF G
  <2> QED BY <2>6, <2>7, <2>8 DEF Conv, b, k
<1>6. \A j \in Nat : j \in Ok
  <2> HIDE DEF Ok
  <2> QED BY <1>4, <1>5, SetInduction
<1> QED BY <1>6 DEF Ok

\* The value of a multiple.
LEMMA ValueScales ==
    ASSUME N >= 2, NEW n \in Nat, NEW c \in Elements, NEW g, Terms(g, n), NEW h,
           \A k \in 0 .. n : h[k] = field_mul(c, g[k]), NEW x \in 1 .. N
    PROVE  Terms(h, n) /\ ValueAt(h, n, x) = field_mul(c, ValueAt(g, n, x))
<1> DEFINE G == Powers(g, n, x)
           H == Powers(h, n, x)
<1>1. Terms(G, n)
  BY ValueType
<1>2. ASSUME NEW k \in 0 .. n PROVE H[k] = field_mul(c, G[k]) /\ h[k] \in Elements
  <2> DEFINE a == g[k]
             p == field_pow(x, k)
  <2>1. a \in Elements /\ k \in Nat
    BY DEF Terms
  <2>2. p \in 1 .. N
    BY <2>1, PowLaws
  <2>3. p \in Elements
    BY <2>2, Nonzero
  <2>4. G[k] = field_mul(a, p) /\ H[k] = field_mul(field_mul(c, a), p)
    BY DEF Powers
  <2>5. h[k] = field_mul(c, a)
    OBVIOUS
  <2> HIDE DEF a, p, G, H
  <2>6. field_mul(c, a) \in Elements
        /\ field_mul(field_mul(c, a), p) = field_mul(c, field_mul(a, p))
    BY <2>1, <2>3, MulMonoid
  <2> QED BY <2>4, <2>5, <2>6
<1>3. Terms(h, n)
  BY <1>2 DEF Terms
<1> HIDE DEF G, H
<1>4. FieldTotal(H, 0, n) = field_mul(c, FieldTotal(G, 0, n))
  BY <1>1, <1>2, TotalScales
<1> QED BY <1>3, <1>4 DEF ValueAt, G, H

\* The values of C[0] .. C[q].
AreValues(B, C, n, x, q) == \A k \in 0 .. q : B[k] = ValueAt(C[k], n, x)

\* The value of a polynomial of totals.
LEMMA ValueOfTotals ==
    ASSUME N >= 2, NEW n \in Nat, NEW q \in Nat, NEW C, AllTerms(C, q, n),
           NEW P, AreTotals(P, n, C, q), NEW x \in 1 .. N,
           NEW B, AreValues(B, C, n, x, q)
    PROVE  Terms(P, n) /\ ValueAt(P, n, x) = FieldTotal(B, 0, q)
<1> DEFINE T == [p \in (0 .. n) \X (0 .. q) |-> Powers(C[p[2]], n, x)[p[1]]]
           A == Powers(P, n, x)
<1>1. \A j \in 0 .. n, k \in 0 .. q : T[<<j, k>>] = Powers(C[k], n, x)[j]
  OBVIOUS
<1> HIDE DEF T
<1>2. \A k \in 0 .. q : Terms(Powers(C[k], n, x), n)
  BY ValueType DEF AllTerms
<1>3. Table(T, n, q)
  <2> SUFFICES ASSUME NEW j \in 0 .. n, NEW k \in 0 .. q PROVE T[<<j, k>>] \in Elements
    BY DEF Table
  <2>1. Powers(C[k], n, x)[j] \in Elements
    BY <1>2 DEF Terms
  <2> QED BY <1>1, <2>1
<1>4. Columns(T, B, n, q)
  <2> SUFFICES ASSUME NEW k \in 0 .. q
               PROVE  B[k] = FieldTotal([j \in 0 .. n |-> T[<<j, k>>]], 0, n)
    BY DEF Columns
  <2>1. [j \in 0 .. n |-> T[<<j, k>>]] = Powers(C[k], n, x)
    BY <1>1 DEF Powers
  <2> QED BY <2>1 DEF ValueAt, AreValues
<1>5. ASSUME NEW j \in 0 .. n
      PROVE  /\ P[j] \in Elements
             /\ A[j] = FieldTotal([k \in 0 .. q |-> T[<<j, k>>]], 0, q)
  <2> DEFINE s == [k \in 0 .. q |-> C[k][j]]
             t == [k \in 0 .. q |-> T[<<j, k>>]]
             p == field_pow(x, j)
  <2>1. P[j] = FieldTotal(s, 0, q)
    BY DEF AreTotals
  <2>2. Terms(s, q)
    BY DEF Terms, AllTerms
  <2>3. A[j] = field_mul(P[j], p)
    BY DEF Powers
  <2>4. p \in Elements
    <3>1. j \in Nat
      OBVIOUS
    <3>2. p \in 1 .. N
      BY <3>1, PowLaws
    <3> QED BY <3>2, Nonzero
  <2>5. \A k \in 0 .. q : t[k] = field_mul(s[k], p)
    BY <1>1 DEF Powers
  <2> HIDE DEF s, t, p
  <2>6. \A k \in 0 .. q : t[k] = field_mul(p, s[k])
    BY <2>2, <2>4, <2>5, MulMonoid DEF Terms
  <2>7. FieldTotal(t, 0, q) = field_mul(p, FieldTotal(s, 0, q))
    BY <2>2, <2>4, <2>6, TotalScales
  <2>8. FieldTotal(s, 0, q) \in Elements
    BY <2>2, TotalType
  <2>9. field_mul(P[j], p) = field_mul(p, P[j])
    BY <2>1, <2>4, <2>8, MulMonoid
  <2> QED BY <2>1, <2>3, <2>7, <2>8, <2>9 DEF t
<1>6. Rows(T, A, n, q)
  <2> HIDE DEF A
  <2> QED BY <1>5 DEF Rows
<1>7. Terms(P, n)
  BY <1>5 DEF Terms
<1> HIDE DEF A
<1>8. FieldTotal(A, 0, n) = FieldTotal(B, 0, q)
  BY <1>3, <1>4, <1>6, TotalExchange
<1> QED BY <1>7, <1>8 DEF A, ValueAt

\* Roots of f in z[1] .. z[n], no two the same.
HasRoots(f, m, n, z) ==
    /\ \A k \in 1 .. n : z[k] \in 1 .. N /\ ValueAt(f, m, z[k]) = 0
    /\ \A j, k \in 1 .. n : z[j] = z[k] => j = k

\* A polynomial with more roots than its order is 0.
LEMMA TooManyRoots ==
    ASSUME N >= 2, NEW n \in Nat, NEW f, Terms(f, n), NEW z, HasRoots(f, n, n + 1, z)
    PROVE  \A j \in 0 .. n : f[j] = 0
<1> DEFINE F == [j \in 0 .. n |-> f[j]]
           b == [i \in 1 .. n + 1 |-> z[i]]
           R == {z[i] : i \in 1 .. n + 1}
<1>1. F \in [0 .. n -> Elements] /\ \A j \in 0 .. n : F[j] = f[j]
  BY DEF Terms
<1>2. R \in SUBSET (1 .. N)
  BY DEF HasRoots
<1>3. Cardinality(R) = n + 1
  <2>1. b \in [1 .. n + 1 -> R]
    OBVIOUS
  <2>2. \A j, k \in 1 .. n + 1 : b[j] = b[k] => j = k
    BY DEF HasRoots
  <2>3. \A x \in R : \E j \in 1 .. n + 1 : b[j] = x
    OBVIOUS
  <2> HIDE DEF b, R
  <2>4. b \in Bijection(1 .. n + 1, R)
    BY <2>1, <2>2, <2>3 DEF Bijection, Injection, Surjection, IsInjective
  <2>5. ExistsBijection(1 .. n + 1, R)
    BY <2>4 DEF ExistsBijection
  <2>6. IsFiniteSet(1 .. n + 1) /\ Cardinality(1 .. n + 1) = n + 1
    <3>1. n + 1 \in Nat /\ 1 \in Int /\ n + 1 >= 1
      OBVIOUS
    <3> QED BY <3>1, FS_Interval
  <2> QED BY <2>5, <2>6, FS_Bijection
<1>4. ASSUME NEW x \in R PROVE ValueAt(F, n, x) = 0
  <2>1. Powers(F, n, x) = Powers(f, n, x)
    BY <1>1 DEF Powers
  <2>2. ValueAt(f, n, x) = 0
    BY DEF HasRoots
  <2> QED BY <2>1, <2>2 DEF ValueAt
<1> HIDE DEF F, R
<1>5. (\E j \in 0 .. n : F[j] # 0) => Cardinality(R) <= n
  BY <1>1, <1>2, <1>4, RootsBound
<1>6. ~ (n + 1 <= n)
  OBVIOUS
<1> QED BY <1>1, <1>3, <1>5, <1>6

\* f of the order n + 1 with n + 1 roots, divided by one of them: the others
\* are roots of the quotient, that one is not.
LEMMA QuotientRoots ==
    ASSUME N >= 2, NEW n \in Nat, NEW f, Terms(f, n + 1), f[0] # 0,
           NEW z, HasRoots(f, n + 1, n + 1, z), NEW k \in 1 .. n + 1
    PROVE  LET g == Quotient(f, n, z[k])
           IN  /\ Divides(f, n, z[k], g)
               /\ \A i \in 1 .. n + 1 : i # k => ValueAt(g, n, z[i]) = 0
               /\ ValueAt(g, n, z[k]) \in 1 .. N
<1> DEFINE x == z[k]
           g == Quotient(f, n, x)
<1>1. x \in 1 .. N /\ ValueAt(f, n + 1, x) = 0 /\ x \in Elements
  BY Nonzero DEF HasRoots
<1> HIDE DEF x
<1>2. Divides(f, n, x, g)
  BY <1>1, QuotientDivides
<1> HIDE DEF g
<1>3. Terms(g, n)
  BY <1>2 DEF Divides
<1>4. ASSUME NEW i \in 1 .. n + 1, i # k PROVE ValueAt(g, n, z[i]) = 0
  <2> DEFINE u == z[i]
  <2>1. u \in 1 .. N /\ ValueAt(f, n + 1, u) = 0 /\ u # x /\ u \in Elements
    BY <1>4, Nonzero DEF HasRoots, x
  <2> HIDE DEF u
  <2>2. field_mul(field_add(u, x), ValueAt(g, n, u)) = 0
    BY <1>1, <1>2, <2>1, DividesValue
  <2>3. field_add(u, x) # 0 /\ field_add(u, x) \in Elements
    BY <1>1, <2>1, Cancel, AddGroup
  <2>4. ValueAt(g, n, u) \in Elements
    BY <1>3, <2>1, ValueType
  <2> QED BY <2>2, <2>3, <2>4, Nonzero DEF u
<1>5. ValueAt(g, n, x) \in 1 .. N
  <2>1. ValueAt(g, n, x) \in Elements
    BY <1>1, <1>3, ValueType
  <2>2. ASSUME ValueAt(g, n, x) = 0 PROVE FALSE
    <3>1. HasRoots(g, n, n + 1, z)
      BY <1>4, <2>2 DEF HasRoots, x
    <3>2. 0 \in 0 .. n /\ 0 \in 0 .. n + 1 /\ ~ (0 >= 1) /\ 0 <= n
      OBVIOUS
    <3>3. g[0] = 0
      BY <1>3, <3>1, <3>2, TooManyRoots
    <3>4. f[0] = field_add(0, field_mul(x, g[0]))
      BY <1>2, <3>2 DEF Divides
    <3>5. field_mul(x, g[0]) = 0
      BY <3>3, MulMonoid
    <3> QED BY <3>4, <3>5, ZeroInElements, AddGroup
  <2> QED BY <2>1, <2>2, Nonzero
<1> QED BY <1>2, <1>4, <1>5 DEF x, g

------------------------------------------------------------------------------
(* Forney's formula.                                                     *)

\* Forney's value for the root x, whose inverse is y, of the locator f: from
\* the product of f and the syndromes, w, and the derivative of f.
Forney(f, n, w, r, x, y) ==
    field_mul(y, field_div(ValueAt(w, r, x),
                           ValueAt(polynomial_formal_derivative(f, n + 1), n, x)))

\* The syndromes, row 0, and one row for each root, the powers of its inverse
\* times its value.
IsForneyTable(F, f, n, S, r, z, y) ==
    /\ \A j \in 0 .. r : F[0][j] = S[j]
    /\ \A k \in 1 .. n + 1 : y[k] \in 1 .. N /\ field_mul(y[k], z[k]) = 1
    /\ \A k \in 1 .. n + 1, j \in 0 .. r :
           F[k][j] = field_mul(Forney(f, n, polynomial_mul(f, n + 1, S, r, r), r, z[k], y[k]),
                               field_pow(y[k], j))

\* U is the product of f and S.
IsConv(U, f, n, S, r) == \A i \in 0 .. r : U[i] = Conv(f, n, S, i)

\* What the locator makes of a root's row R: no more than n + 1 coefficients, C,
\* with the value of w at that root and none at the others.
IsRootRow(R, C, f, n, w, r, z, k) ==
    /\ Terms(R, r)
    /\ \A i \in n + 1 .. r : Conv(f, n + 1, R, i) = 0
    /\ Terms(C, n)
    /\ ValueAt(C, n, z[k]) = ValueAt(w, r, z[k])
    /\ \A i \in 1 .. n + 1 : i # k => ValueAt(C, n, z[i]) = 0

\* It does so with the rows of the table.
LEMMA ForneyRow ==
    ASSUME N >= 2, NEW n \in Nat, NEW f, Terms(f, n + 1), f[0] # 0,
           NEW z, HasRoots(f, n + 1, n + 1, z), NEW r \in Nat, n <= r, NEW S, Terms(S, r),
           NEW y, NEW F, IsForneyTable(F, f, n, S, r, z, y), NEW k \in 1 .. n + 1,
           NEW C, IsConv(C, f, n + 1, F[k], n)
    PROVE  IsRootRow(F[k], C, f, n, polynomial_mul(f, n + 1, S, r, r), r, z, k)
<1> DEFINE w == polynomial_mul(f, n + 1, S, r, r)
           d == polynomial_formal_derivative(f, n + 1)
           x == z[k]
           u == y[k]
           v == ValueAt(w, r, x)
           e == ValueAt(d, n, x)
           c == field_mul(u, field_div(v, e))
           g == Quotient(f, n, x)
           p == [j \in 0 .. r |-> field_pow(u, j)]
           cx == field_mul(c, x)
<1>1. x \in 1 .. N /\ u \in 1 .. N /\ field_mul(u, x) = 1
  BY DEF HasRoots, IsForneyTable
<1>2. IsMultiple(F[k], c, p, r)
  BY DEF IsForneyTable, Forney, IsMultiple
<1>3. /\ Divides(f, n, x, g)
      /\ \A i \in 1 .. n + 1 : i # k => ValueAt(g, n, z[i]) = 0
      /\ ValueAt(g, n, x) \in 1 .. N
  BY QuotientRoots
<1> HIDE DEF x, u, g
<1>4. e = ValueAt(g, n, x)
  BY <1>1, <1>3, DerivativeAtRoot
<1>5. v \in Elements /\ e \in 1 .. N
  <2>1. w \in [0 .. r -> Elements]
    BY MulType
  <2> HIDE DEF w
  <2>2. Terms(w, r)
    BY <2>1 DEF Terms
  <2>3. v \in Elements
    BY <1>1, <2>2, ValueType
  <2> HIDE DEF e
  <2> QED BY <1>3, <1>4, <2>3
<1> HIDE DEF e, v
<1>6. x \in Elements /\ u \in Elements /\ e \in Elements /\ field_div(v, e) \in Elements
      /\ field_mul(field_div(v, e), e) = v
  BY <1>1, <1>5, Nonzero, DivLaws
<1>7. c \in Elements /\ cx \in Elements /\ field_mul(cx, e) = v
  <2> DEFINE q == field_div(v, e)
  <2>1. q \in Elements /\ field_mul(q, e) = v
    BY <1>6
  <2> HIDE DEF q
  <2>2. c = field_mul(u, q)
    BY DEF q
  <2> HIDE DEF c
  <2>3. c \in Elements
    BY <1>6, <2>1, <2>2, MulMonoid
  <2>4. cx \in Elements
    BY <1>6, <2>3, MulMonoid
  <2>5. cx = q
    <3>1. /\ field_mul(field_mul(u, q), x) = field_mul(u, field_mul(q, x))
          /\ field_mul(q, x) = field_mul(x, q)
          /\ field_mul(field_mul(u, x), q) = field_mul(u, field_mul(x, q))
          /\ field_mul(1, q) = q
      BY <1>6, <2>1, MulMonoid
    <3> QED BY <1>1, <2>2, <3>1
  <2> QED BY <2>1, <2>3, <2>4, <2>5
<1> HIDE DEF c
<1>8. Terms(p, r)
  <2> SUFFICES ASSUME NEW j \in 0 .. r PROVE field_pow(u, j) \in Elements
    BY DEF Terms
  <2>1. j \in Nat
    OBVIOUS
  <2>2. field_pow(u, j) \in 1 .. N
    BY <1>1, <2>1, PowLaws
  <2> QED BY <2>2, Nonzero
<1>9. ArePowers(p, u, r)
  BY DEF ArePowers
<1> HIDE DEF p
<1>10. Terms(F[k], r)
  <2> SUFFICES ASSUME NEW j \in 0 .. r PROVE F[k][j] \in Elements
    BY DEF Terms
  <2> DEFINE a == p[j]
  <2>1. a \in Elements /\ F[k][j] = field_mul(c, a)
    BY <1>2, <1>8 DEF Terms, IsMultiple
  <2> HIDE DEF a
  <2>2. field_mul(c, a) \in Elements
    BY <1>7, <2>1, MulMonoid
  <2> QED BY <2>1, <2>2
<1> HIDE DEF w, d, cx
<1>11. \A j \in 0 .. r : Conv(f, n + 1, p, j) = IF j <= n THEN field_mul(x, g[j]) ELSE 0
  <2>1. Divides(f, n, x, g)
    BY <1>3
  <2>2. x \in 1 .. N /\ u \in 1 .. N /\ field_mul(u, x) = 1
    BY <1>1
  <2> QED BY <1>9, <2>1, <2>2, ConvOfPowers
<1>12. ASSUME NEW j \in 0 .. r
       PROVE  Conv(f, n + 1, F[k], j) = IF j <= n THEN field_mul(cx, g[j]) ELSE 0
  <2> DEFINE m == n + 1
             R == F[k]
  <2>1. m \in Nat /\ Terms(f, m) /\ Conv(f, m, p, j) = (IF j <= n THEN field_mul(x, g[j]) ELSE 0)
        /\ IsMultiple(R, c, p, r)
    BY <1>2, <1>11
  <2> HIDE DEF m, R
  <2>2. Conv(f, m, R, j) = field_mul(c, Conv(f, m, p, j))
    BY <1>7, <1>8, <2>1, ConvScales
  <2>3. CASE j <= n
    <3> DEFINE a == g[j]
    <3>1. j \in 0 .. n
      BY <2>3
    <3>2. a \in Elements
      BY <1>3, <3>1 DEF Divides, Terms
    <3>3. Conv(f, m, p, j) = field_mul(x, a)
      BY <2>1, <2>3
    <3> HIDE DEF a
    <3>4. field_mul(field_mul(c, x), a) = field_mul(c, field_mul(x, a))
      BY <1>6, <1>7, <3>2, MulMonoid
    <3> QED BY <2>2, <2>3, <3>3, <3>4 DEF m, R, a, cx
  <2>4. CASE ~ (j <= n)
    BY <1>7, <2>1, <2>2, <2>4, MulMonoid DEF m, R
  <2> QED BY <2>3, <2>4
<1>13. \A j \in 0 .. n : C[j] = field_mul(cx, g[j])
  <2> SUFFICES ASSUME NEW j \in 0 .. n PROVE C[j] = field_mul(cx, g[j])
    OBVIOUS
  <2>1. j \in 0 .. r /\ j <= n
    OBVIOUS
  <2>2. C[j] = Conv(f, n + 1, F[k], j)
    BY DEF IsConv
  <2> QED BY <1>12, <2>1, <2>2
<1>14. Terms(g, n)
  BY <1>3 DEF Divides
<1>15. \A t \in 1 .. N : Terms(C, n) /\ ValueAt(C, n, t) = field_mul(cx, ValueAt(g, n, t))
  BY <1>7, <1>13, <1>14, ValueScales
<1>16. ValueAt(C, n, x) = v
  BY <1>1, <1>4, <1>7, <1>15
<1>17. ASSUME NEW i \in 1 .. n + 1, i # k PROVE ValueAt(C, n, z[i]) = 0
  <2>1. z[i] \in 1 .. N
    BY DEF HasRoots
  <2>2. ValueAt(g, n, z[i]) = 0
    BY <1>3, <1>17
  <2>3. ValueAt(C, n, z[i]) = field_mul(cx, ValueAt(g, n, z[i]))
    BY <1>15, <2>1
  <2> QED BY <2>2, <2>3, MulMonoid
<1>18. \A j \in n + 1 .. r : Conv(f, n + 1, F[k], j) = 0
  <2> SUFFICES ASSUME NEW j \in n + 1 .. r PROVE Conv(f, n + 1, F[k], j) = 0
    OBVIOUS
  <2>1. j \in 0 .. r /\ ~ (j <= n)
    OBVIOUS
  <2> QED BY <1>12, <2>1
<1> QED BY <1>1, <1>10, <1>15, <1>16, <1>17, <1>18 DEF x, v, w, IsRootRow

\* f produces the syndromes from n on, and B has the terms of one of them.
Solves(f, n, S, r) == \A j \in n .. r : Conv(f, n, S, j) = 0
IsColumn(B, F, n, j) == \A k \in 0 .. n : B[k] = F[k][j]

\* When the locator produces the syndromes, they are the sums of the powers of
\* the inverses of its roots, times their values.
LEMMA ForneyIsRight ==
    ASSUME N >= 2, NEW n \in Nat, NEW f, Terms(f, n + 1), f[0] # 0,
           NEW z, HasRoots(f, n + 1, n + 1, z), NEW r \in Nat, n <= r, NEW S, Terms(S, r),
           Solves(f, n + 1, S, r),
           NEW y, NEW F, IsForneyTable(F, f, n, S, r, z, y), NEW j \in 0 .. r,
           NEW B, IsColumn(B, F, n + 1, j)
    PROVE  FieldTotal(B, 0, n + 1) = 0
<1>a. \A i \in n + 1 .. r : Conv(f, n + 1, S, i) = 0
  BY DEF Solves
<1> DEFINE m == n + 1
           w == polynomial_mul(f, m, S, r, r)
           R == [i \in 0 .. r |-> FieldTotal([k \in 0 .. m |-> F[k][i]], 0, m)]
           C == [k \in 0 .. m |-> [i \in 0 .. n |-> Conv(f, m, F[k], i)]]
           P == [i \in 0 .. n |-> Conv(f, m, R, i)]
<1>0. m \in Nat /\ Terms(f, m) /\ 0 \in 0 .. m /\ (\A k \in 0 .. m : k = 0 \/ k \in 1 .. m)
  OBVIOUS
<1>1. ASSUME NEW i \in 0 .. r PROVE Conv(f, m, F[0], i) = Conv(f, m, S, i)
  <2>1. \A k \in 0 .. i : i - k \in 0 .. r
    OBVIOUS
  <2>2. \A k \in 0 .. i : F[0][i - k] = S[i - k]
    BY <2>1 DEF IsForneyTable
  <2>3. ConvTerms(f, m, F[0], i) = ConvTerms(f, m, S, i)
    BY <2>2 DEF ConvTerms
  <2> QED BY <2>3 DEF Conv
<1>2. Terms(F[0], r)
  BY DEF IsForneyTable, Terms
<1>3. ASSUME NEW k \in 1 .. m
      PROVE  /\ Terms(F[k], r)
             /\ \A i \in n + 1 .. r : Conv(f, m, F[k], i) = 0
             /\ Terms(C[k], n)
             /\ ValueAt(C[k], n, z[k]) = ValueAt(w, r, z[k])
             /\ \A i \in 1 .. n + 1 : i # k => ValueAt(C[k], n, z[i]) = 0
  <2>1. k \in 0 .. m /\ k \in 1 .. n + 1
    OBVIOUS
  <2> DEFINE c == C[k]
  <2>2. IsConv(c, f, n + 1, F[k], n)
    BY <2>1 DEF IsConv
  <2> HIDE DEF c
  <2>3. IsRootRow(F[k], c, f, n, polynomial_mul(f, n + 1, S, r, r), r, z, k)
    BY <2>1, <2>2, ForneyRow
  <2> QED BY <2>3 DEF c, IsRootRow
<1>4. \A k \in 0 .. m : Terms(F[k], r)
  BY <1>0, <1>2, <1>3
<1>5. \A i \in 0 .. r : Conv(f, m, R, i) = FieldTotal([k \in 0 .. m |-> Conv(f, m, F[k], i)], 0, m)
  <2>1. AreTotals(R, r, F, m)
    BY DEF AreTotals
  <2> SUFFICES ASSUME NEW i \in 0 .. r
               PROVE  Conv(f, m, R, i) = FieldTotal([k \in 0 .. m |-> Conv(f, m, F[k], i)], 0, m)
    OBVIOUS
  <2> DEFINE D == [k \in 0 .. m |-> Conv(f, m, F[k], i)]
  <2>2. AreConvs(D, f, m, F, i, m) /\ AllTerms(F, m, r)
    BY <1>4 DEF AreConvs, AllTerms
  <2> HIDE DEF R, m, D
  <2>3. Conv(f, m, R, i) = FieldTotal(D, 0, m)
    BY <1>0, <2>1, <2>2, ConvOfTotals
  <2> QED BY <2>3 DEF D
<1>6. Terms(R, r)
  <2> SUFFICES ASSUME NEW i \in 0 .. r PROVE R[i] \in Elements
    BY DEF Terms
  <2> DEFINE t == [k \in 0 .. m |-> F[k][i]]
  <2>1. Terms(t, m)
    BY <1>4 DEF Terms
  <2>2. R[i] = FieldTotal(t, 0, m)
    OBVIOUS
  <2> HIDE DEF t, R, m
  <2> QED BY <1>0, <2>1, <2>2, TotalType
<1>7. ASSUME NEW i \in n + 1 .. r PROVE Conv(f, m, R, i) = 0
  <2> DEFINE t == [k \in 0 .. m |-> Conv(f, m, F[k], i)]
  <2>1. i \in 0 .. r
    OBVIOUS
  <2>2. Conv(f, m, F[0], i) = 0
    BY <1>a, <1>1, <2>1
  <2>3. \A k \in 0 .. m : t[k] = 0
    BY <1>0, <1>3, <2>2
  <2>4. Conv(f, m, R, i) = FieldTotal(t, 0, m)
    BY <1>5, <2>1
  <2> HIDE DEF t, R, m
  <2> QED BY <1>0, <2>3, <2>4, TotalOfZeros
<1>8. /\ Terms(C[0], n)
      /\ \A x \in 1 .. N : ValueAt(C[0], n, x) = ValueAt(w, r, x)
  <2> DEFINE c == C[0]
  <2>1. \A i \in 0 .. n : c[i] = Conv(f, m, F[0], i) /\ i \in 0 .. r
    OBVIOUS
  <2>2. \A i \in 0 .. r : w[i] = Conv(f, m, S, i) /\ w[i] \in Elements
    <3>1. w \in [0 .. r -> Elements]
      BY MulType
    <3>2. \A i \in 0 .. r : w[i] = Conv(f, m, S, i)
      BY MulIsConv
    <3> HIDE DEF w
    <3> QED BY <3>1, <3>2
  <2> HIDE DEF c, w
  <2>3. \A i \in 0 .. n : c[i] = w[i]
    BY <1>1, <2>1, <2>2
  <2>4. \A i \in 0 .. r : w[i] = IF i <= n THEN c[i] ELSE 0
    <3> SUFFICES ASSUME NEW i \in 0 .. r PROVE w[i] = IF i <= n THEN c[i] ELSE 0
      OBVIOUS
    <3>1. CASE i <= n
      <4>1. i \in 0 .. n
        BY <3>1
      <4> QED BY <2>3, <3>1, <4>1
    <3>2. CASE ~ (i <= n)
      <4>1. i \in n + 1 .. r
        BY <3>2
      <4>2. Conv(f, m, S, i) = 0
        BY <1>a, <4>1
      <4> QED BY <2>2, <3>2, <4>2
    <3> QED BY <3>1, <3>2
  <2>5. Terms(c, n)
    BY <2>1, <2>2, <2>3 DEF Terms
  <2>6. \A x \in 1 .. N : ValueAt(w, r, x) = ValueAt(c, n, x)
    BY <2>4, <2>5, ValueShorter
  <2> QED BY <2>5, <2>6 DEF c
<1>9. \A i \in 0 .. n : P[i] = FieldTotal([k \in 0 .. m |-> C[k][i]], 0, m)
  <2> SUFFICES ASSUME NEW i \in 0 .. n PROVE P[i] = FieldTotal([k \in 0 .. m |-> C[k][i]], 0, m)
    OBVIOUS
  <2>1. i \in 0 .. r
    OBVIOUS
  <2>2. P[i] = Conv(f, m, R, i)
    OBVIOUS
  <2>3. [k \in 0 .. m |-> C[k][i]] = [k \in 0 .. m |-> Conv(f, m, F[k], i)]
    OBVIOUS
  <2> HIDE DEF R, C, P
  <2> QED BY <1>5, <2>1, <2>2, <2>3
<1>10. \A k \in 0 .. m : Terms(C[k], n)
  <2> HIDE DEF C
  <2> QED BY <1>0, <1>3, <1>8
<1>11. ASSUME NEW x \in 1 .. N
       PROVE  /\ Terms(P, n)
              /\ ValueAt(P, n, x) = FieldTotal([k \in 0 .. m |-> ValueAt(C[k], n, x)], 0, m)
  <2> DEFINE D == [k \in 0 .. m |-> ValueAt(C[k], n, x)]
  <2>1. AreTotals(P, n, C, m)
    <3> HIDE DEF P, C
    <3> QED BY <1>9 DEF AreTotals
  <2>2. AreValues(D, C, n, x, m) /\ AllTerms(C, m, n)
    <3> HIDE DEF C
    <3> QED BY <1>10 DEF AreValues, AllTerms
  <2> HIDE DEF P, C, m, D
  <2>3. Terms(P, n) /\ ValueAt(P, n, x) = FieldTotal(D, 0, m)
    BY <1>0, <2>1, <2>2, ValueOfTotals
  <2> QED BY <2>3 DEF D
<1> HIDE DEF P, C
<1>12. ASSUME NEW i \in 1 .. m PROVE z[i] \in 1 .. N /\ ValueAt(P, n, z[i]) = 0
  <2> DEFINE t == [k \in 0 .. m |-> ValueAt(C[k], n, z[i])]
             v == ValueAt(w, r, z[i])
  <2>1. z[i] \in 1 .. N /\ i \in 0 .. m
    BY DEF HasRoots
  <2>2. t[0] = v /\ t[i] = v
    BY <1>0, <1>3, <1>8, <2>1
  <2>3. \A k \in 1 .. m : k # i => t[k] = 0
    BY <1>3
  <2>4. ValueAt(P, n, z[i]) = FieldTotal(t, 0, m)
    BY <1>11, <2>1
  <2>5. v \in Elements
    <3>1. ValueAt(C[0], n, z[i]) \in Elements
      BY <1>8, <2>1, ValueType
    <3> QED BY <1>8, <2>1, <3>1
  <2> HIDE DEF t, v
  <2>6. FieldTotal(t, 0, m) = field_add(t[0], t[i])
    <3> HIDE DEF m
    <3> QED BY <1>0, <2>2, <2>3, <2>5, TotalOfTwo
  <2> QED BY <2>1, <2>2, <2>4, <2>5, <2>6, AddGroup
<1>13. \A i \in 0 .. n : P[i] = 0
  <2>1. HasRoots(P, n, n + 1, z)
    BY <1>12 DEF HasRoots
  <2>2. Terms(P, n)
    <3>1. 1 \in 1 .. N
      BY Sizes
    <3> QED BY <3>1, <1>11
  <2> QED BY <2>1, <2>2, TooManyRoots
<1>14. ASSUME NEW i \in 0 .. r PROVE Conv(f, m, R, i) = 0
  <2>1. CASE i \in 0 .. n
    <3>1. P[i] = Conv(f, m, R, i)
      BY <2>1 DEF P
    <3> QED BY <1>13, <2>1, <3>1
  <2>2. CASE i \in n + 1 .. r
    BY <1>7, <2>2
  <2> QED BY <2>1, <2>2
<1>15. R[j] = 0
  <2> HIDE DEF R, m
  <2> QED BY <1>0, <1>6, <1>14, ConvCancels
<1>16. FieldTotal(B, 0, m) = R[j]
  <2> DEFINE t == [k \in 0 .. m |-> F[k][j]]
  <2>1. Terms(t, m)
    BY <1>4 DEF Terms
  <2>2. \A k \in 0 .. m : B[k] = t[k]
    BY DEF IsColumn
  <2>3. R[j] = FieldTotal(t, 0, m)
    OBVIOUS
  <2> HIDE DEF t, R, m
  <2> QED BY <1>0, <2>1, <2>2, <2>3, TotalSame
<1> QED BY <1>15, <1>16

------------------------------------------------------------------------------
(* Products of three, and powers of powers.                              *)

\* The terms of g times f times S.
Triple(g, b, f, a, S, j) ==
    [p \in (0 .. j) \X (0 .. j) |->
        IF p[1] <= b /\ p[2] <= a /\ p[1] + p[2] <= j
        THEN field_mul(field_mul(g[p[1]], f[p[2]]), S[j - (p[1] + p[2])]) ELSE 0]

\* Their totals for one coefficient of g.
LEMMA TripleRows ==
    ASSUME N >= 2, NEW a \in Nat, NEW f, Terms(f, a), NEW b \in Nat, NEW g, Terms(g, b),
           NEW r \in Nat, NEW S, Terms(S, r), NEW U, IsConv(U, f, a, S, r), NEW j \in 0 .. r
    PROVE  /\ Table(Triple(g, b, f, a, S, j), j, j)
           /\ Rows(Triple(g, b, f, a, S, j), ConvTerms(g, b, U, j), j, j)
<1> DEFINE T == Triple(g, b, f, a, S, j)
<1>1. \A i \in 0 .. j, l \in 0 .. j :
          T[<<i, l>>] = IF i <= b /\ l <= a /\ i + l <= j
                        THEN field_mul(field_mul(g[i], f[l]), S[j - (i + l)]) ELSE 0
  BY DEF Triple
<1> HIDE DEF T
<1>2. ASSUME NEW i \in 0 .. j, NEW l \in 0 .. j PROVE T[<<i, l>>] \in Elements
  <2>1. CASE i <= b /\ l <= a /\ i + l <= j
    <3> DEFINE u == g[i]
               v == f[l]
               w == S[j - (i + l)]
    <3>1. i \in 0 .. b /\ l \in 0 .. a /\ j - (i + l) \in 0 .. r
      BY <2>1
    <3>2. u \in Elements /\ v \in Elements /\ w \in Elements
      BY <3>1 DEF Terms
    <3>3. T[<<i, l>>] = field_mul(field_mul(u, v), w)
      BY <1>1, <2>1
    <3> HIDE DEF u, v, w
    <3>4. field_mul(u, v) \in Elements
      BY <3>2, MulMonoid
    <3> QED BY <3>2, <3>3, <3>4, MulMonoid
  <2>2. CASE ~ (i <= b /\ l <= a /\ i + l <= j)
    BY <1>1, <2>2, ZeroInElements
  <2> QED BY <2>1, <2>2
<1>3. ASSUME NEW i \in 0 .. j
      PROVE  ConvTerms(g, b, U, j)[i] = FieldTotal([l \in 0 .. j |-> T[<<i, l>>]], 0, j)
  <2> DEFINE k == j - i
             e == ConvTerms(f, a, S, k)
             h == [l \in 0 .. j |-> IF l \in 0 .. 0 + k THEN e[l - 0] ELSE 0]
             t == [l \in 0 .. j |-> T[<<i, l>>]]
             u == g[i]
  <2>1. k \in 0 .. r /\ k \in Nat /\ 0 + k <= j /\ 0 \in Nat /\ j \in Nat
    OBVIOUS
  <2>2. Terms(e, k) /\ U[k] = FieldTotal(e, 0, k)
    <3> HIDE DEF k
    <3> QED BY <2>1, ConvType DEF IsConv, Conv
  <2>3. MovedBy(h, j, 0, e, k)
    <3> HIDE DEF e, k
    <3> QED BY <2>1 DEF MovedBy
  <2>4. ConvTerms(g, b, U, j)[i] = IF i <= b THEN field_mul(u, U[k]) ELSE 0
    BY DEF ConvTerms
  <2>5. Terms(h, j) /\ FieldTotal(h, 0, j) = FieldTotal(e, 0, k)
    <3> HIDE DEF h, e, k
    <3> QED BY <2>1, <2>2, <2>3, TotalMoves
  <2>6. CASE i <= b
    <3>1. i \in 0 .. b
      BY <2>6
    <3>2. u \in Elements
      BY <3>1 DEF Terms
    <3>3. ASSUME NEW l \in 0 .. j PROVE t[l] = field_mul(u, h[l])
      <4>0. t[l] = T[<<i, l>>]
        OBVIOUS
      <4>1. CASE l <= k
        <5>1. l \in 0 .. k /\ l - 0 = l /\ i + l <= j /\ k - l = j - (i + l) /\ k - l \in 0 .. r
              /\ l \in 0 .. 0 + k
          BY <4>1
        <5>2. h[l] = e[l]
          <6> HIDE DEF e, k
          <6> QED BY <5>1
        <5>3. e[l] = IF l <= a THEN field_mul(f[l], S[k - l]) ELSE 0
          <6> HIDE DEF k
          <6> QED BY <5>1 DEF ConvTerms
        <5>4. T[<<i, l>>] = IF l <= a THEN field_mul(field_mul(u, f[l]), S[k - l]) ELSE 0
          BY <1>1, <2>6, <5>1
        <5>5. CASE l <= a
          <6> DEFINE v == f[l]
                     w == S[k - l]
          <6>1. l \in 0 .. a
            BY <5>5
          <6>2. v \in Elements /\ w \in Elements
            BY <5>1, <6>1 DEF Terms
          <6>3. h[l] = field_mul(v, w) /\ t[l] = field_mul(field_mul(u, v), w)
            BY <4>0, <5>2, <5>3, <5>4, <5>5
          <6> HIDE DEF u, v, w, h, t
          <6> QED BY <3>2, <6>2, <6>3, MulMonoid
        <5>6. CASE ~ (l <= a)
          <6>1. h[l] = 0 /\ t[l] = 0
            BY <4>0, <5>2, <5>3, <5>4, <5>6
          <6> HIDE DEF h, t, u
          <6> QED BY <6>1, MulMonoid
        <5> QED BY <5>5, <5>6
      <4>2. CASE ~ (l <= k)
        <5>1. l \notin 0 .. 0 + k /\ ~ (i + l <= j)
          BY <4>2
        <5>2. h[l] = 0 /\ t[l] = 0
          BY <1>1, <4>0, <5>1
        <5> HIDE DEF h, t, u
        <5> QED BY <5>2, MulMonoid
      <4> QED BY <4>1, <4>2
    <3> HIDE DEF t, h, u
    <3>4. FieldTotal(t, 0, j) = field_mul(u, FieldTotal(h, 0, j))
      BY <2>1, <2>5, <3>2, <3>3, TotalScales
    <3> QED BY <2>2, <2>4, <2>5, <2>6, <3>4 DEF t
  <2>7. CASE ~ (i <= b)
    <3>1. \A l \in 0 .. j : t[l] = 0
      BY <1>1, <2>7
    <3> HIDE DEF t
    <3>2. FieldTotal(t, 0, j) = 0
      BY <2>1, <3>1, TotalOfZeros
    <3> QED BY <2>4, <2>7, <3>2 DEF t
  <2> QED BY <2>6, <2>7
<1> QED BY <1>2, <1>3 DEF Table, Rows, T

\* Factors may be taken in either order.
LEMMA ConvSwaps ==
    ASSUME N >= 2, NEW a \in Nat, NEW f, Terms(f, a), NEW b \in Nat, NEW g, Terms(g, b),
           NEW r \in Nat, NEW S, Terms(S, r), NEW U, IsConv(U, f, a, S, r),
           NEW V, IsConv(V, g, b, S, r), NEW j \in 0 .. r
    PROVE  Conv(g, b, U, j) = Conv(f, a, V, j)
<1> DEFINE T == Triple(g, b, f, a, S, j)
           Z == Triple(f, a, g, b, S, j)
           A == ConvTerms(g, b, U, j)
           B == ConvTerms(f, a, V, j)
<1>1. Table(T, j, j) /\ Rows(T, A, j, j) /\ Rows(Z, B, j, j)
  BY TripleRows
<1>2. ASSUME NEW i \in 0 .. j, NEW l \in 0 .. j PROVE Z[<<l, i>>] = T[<<i, l>>]
  <2>1. /\ T[<<i, l>>] = IF i <= b /\ l <= a /\ i + l <= j
                         THEN field_mul(field_mul(g[i], f[l]), S[j - (i + l)]) ELSE 0
        /\ Z[<<l, i>>] = IF l <= a /\ i <= b /\ l + i <= j
                         THEN field_mul(field_mul(f[l], g[i]), S[j - (l + i)]) ELSE 0
    BY DEF Triple
  <2>2. CASE i <= b /\ l <= a
    <3>1. i \in 0 .. b /\ l \in 0 .. a /\ i + l = l + i
      BY <2>2
    <3>2. g[i] \in Elements /\ f[l] \in Elements
      BY <3>1 DEF Terms
    <3>3. field_mul(f[l], g[i]) = field_mul(g[i], f[l])
      BY <3>2, MulMonoid
    <3> HIDE DEF T, Z
    <3> QED BY <2>1, <2>2, <3>1, <3>3
  <2>3. CASE ~ (i <= b /\ l <= a)
    BY <2>1, <2>3
  <2> QED BY <2>2, <2>3
<1>3. Columns(T, B, j, j)
  <2> SUFFICES ASSUME NEW l \in 0 .. j
               PROVE  B[l] = FieldTotal([i \in 0 .. j |-> T[<<i, l>>]], 0, j)
    BY DEF Columns
  <2> HIDE DEF T, Z, B
  <2>1. [i \in 0 .. j |-> T[<<i, l>>]] = [i \in 0 .. j |-> Z[<<l, i>>]]
    BY <1>2
  <2> QED BY <1>1, <2>1 DEF Rows
<1>4. FieldTotal(A, 0, j) = FieldTotal(B, 0, j)
  <2> HIDE DEF A, B, T
  <2>1. j \in Nat
    OBVIOUS
  <2> QED BY <1>1, <1>3, <2>1, TotalExchange
<1> QED BY <1>4 DEF Conv

\* A product times S is the one factor times the other times S.
LEMMA ConvOfProduct ==
    ASSUME N >= 2, NEW a \in Nat, NEW f, Terms(f, a), NEW b \in Nat, NEW g, Terms(g, b),
           NEW r \in Nat, NEW S, Terms(S, r), NEW U, IsConv(U, g, b, S, r), NEW j \in 0 .. r
    PROVE  Conv(polynomial_mul(f, a, g, b, a + b), a + b, S, j) = Conv(f, a, U, j)
<1> DEFINE h == polynomial_mul(f, a, g, b, a + b)
           c == a + b
           P(i) == [l \in 0 .. i |-> IF l <= a /\ i - l <= b THEN field_mul(f[l], g[i - l]) ELSE 0]
           Q == [p \in (0 .. j) \X (0 .. j) |->
                    IF p[2] <= p[1] /\ p[2] <= a /\ p[1] - p[2] <= b
                    THEN field_mul(field_mul(f[p[2]], g[p[1] - p[2]]), S[j - p[1]]) ELSE 0]
           A == ConvTerms(h, c, S, j)
           B == ConvTerms(f, a, U, j)
<1>0. c \in Nat /\ j \in Nat
  OBVIOUS
<1>1. \A i \in 0 .. j, l \in 0 .. j :
          Q[<<i, l>>] = IF l <= i /\ l <= a /\ i - l <= b
                        THEN field_mul(field_mul(f[l], g[i - l]), S[j - i]) ELSE 0
  OBVIOUS
<1> HIDE DEF Q
<1>2. \A i \in 0 .. c : h[i] = FieldTotal(P(i), 0, i)
  BY DEF polynomial_mul
<1>3. ASSUME NEW i \in Nat PROVE Terms(P(i), i)
  <2> SUFFICES ASSUME NEW l \in 0 .. i
               PROVE  (IF l <= a /\ i - l <= b THEN field_mul(f[l], g[i - l]) ELSE 0) \in Elements
    BY DEF Terms
  <2>1. CASE l <= a /\ i - l <= b
    <3>1. l \in 0 .. a /\ i - l \in 0 .. b
      BY <2>1
    <3>2. f[l] \in Elements /\ g[i - l] \in Elements
      BY <3>1 DEF Terms
    <3> QED BY <2>1, <3>2, MulMonoid
  <2>2. CASE ~ (l <= a /\ i - l <= b)
    BY <2>2, ZeroInElements
  <2> QED BY <2>1, <2>2
<1> HIDE DEF h
<1>4. Table(Q, j, j)
  <2> SUFFICES ASSUME NEW i \in 0 .. j, NEW l \in 0 .. j PROVE Q[<<i, l>>] \in Elements
    BY DEF Table
  <2>1. CASE l <= i /\ l <= a /\ i - l <= b
    <3> DEFINE u == f[l]
               v == g[i - l]
               w == S[j - i]
    <3>1. l \in 0 .. a /\ i - l \in 0 .. b /\ j - i \in 0 .. r
      BY <2>1
    <3>2. u \in Elements /\ v \in Elements /\ w \in Elements
      BY <3>1 DEF Terms
    <3>3. Q[<<i, l>>] = field_mul(field_mul(u, v), w)
      BY <1>1, <2>1
    <3> HIDE DEF u, v, w
    <3>4. field_mul(u, v) \in Elements
      BY <3>2, MulMonoid
    <3> QED BY <3>2, <3>3, <3>4, MulMonoid
  <2>2. CASE ~ (l <= i /\ l <= a /\ i - l <= b)
    BY <1>1, <2>2, ZeroInElements
  <2> QED BY <2>1, <2>2
<1>5. ASSUME NEW i \in 0 .. j
      PROVE  A[i] = FieldTotal([l \in 0 .. j |-> Q[<<i, l>>]], 0, j)
  <2> DEFINE e == P(i)
             x == [l \in 0 .. j |-> IF l \in 0 .. 0 + i THEN e[l - 0] ELSE 0]
             t == [l \in 0 .. j |-> Q[<<i, l>>]]
             w == S[j - i]
  <2>1. i \in Nat /\ 0 + i <= j /\ j - i \in 0 .. r /\ 0 \in Nat
    OBVIOUS
  <2>2. A[i] = IF i <= c THEN field_mul(h[i], w) ELSE 0
    BY DEF ConvTerms
  <2>3. Terms(e, i)
    BY <1>3, <2>1
  <2>4. MovedBy(x, j, 0, e, i)
    <3> HIDE DEF e
    <3> QED BY <2>1 DEF MovedBy
  <2>5. Terms(x, j) /\ FieldTotal(x, 0, j) = FieldTotal(e, 0, i)
    <3> HIDE DEF x, e
    <3> QED BY <1>0, <2>1, <2>3, <2>4, TotalMoves
  <2>6. CASE i <= c
    <3>1. i \in 0 .. c
      BY <2>6
    <3>2. h[i] = FieldTotal(e, 0, i) /\ w \in Elements
      BY <1>2, <2>1, <3>1 DEF Terms
    <3>3. ASSUME NEW l \in 0 .. j PROVE t[l] = field_mul(w, x[l])
      <4>0. t[l] = Q[<<i, l>>]
        OBVIOUS
      <4>1. CASE l <= i /\ l <= a /\ i - l <= b
        <5> DEFINE u == f[l]
                   v == g[i - l]
        <5>1. l \in 0 .. a /\ i - l \in 0 .. b /\ l \in 0 .. i /\ l \in 0 .. 0 + i /\ l - 0 = l
          BY <4>1
        <5>2. u \in Elements /\ v \in Elements
          BY <5>1 DEF Terms
        <5>3. e[l] = field_mul(u, v)
          BY <4>1, <5>1
        <5>4. x[l] = e[l]
          <6> HIDE DEF e
          <6> QED BY <5>1
        <5>5. t[l] = field_mul(field_mul(u, v), w)
          BY <1>1, <4>0, <4>1
        <5> HIDE DEF u, v, w, e, x, t
        <5>6. field_mul(u, v) \in Elements
          BY <5>2, MulMonoid
        <5> QED BY <3>2, <5>3, <5>4, <5>5, <5>6, MulMonoid
      <4>2. CASE ~ (l <= i /\ l <= a /\ i - l <= b)
        <5>1. t[l] = 0
          BY <1>1, <4>0, <4>2
        <5>2. x[l] = 0
          <6>1. CASE l <= i
            <7>1. l \in 0 .. i /\ l \in 0 .. 0 + i /\ l - 0 = l /\ ~ (l <= a /\ i - l <= b)
              BY <4>2, <6>1
            <7>2. e[l] = 0
              BY <7>1
            <7> HIDE DEF e
            <7> QED BY <7>1, <7>2
          <6>2. CASE ~ (l <= i)
            <7>1. l \notin 0 .. 0 + i
              BY <6>2
            <7> HIDE DEF e
            <7> QED BY <7>1
          <6> QED BY <6>1, <6>2
        <5> HIDE DEF t, x, w
        <5> QED BY <5>1, <5>2, MulMonoid
      <4> QED BY <4>1, <4>2
    <3> HIDE DEF t, x, w, e
    <3>4. FieldTotal(t, 0, j) = field_mul(w, FieldTotal(x, 0, j))
      BY <1>0, <2>5, <3>2, <3>3, TotalScales
    <3>5. FieldTotal(e, 0, i) \in Elements
      BY <2>1, <2>3, TotalType
    <3>6. field_mul(w, FieldTotal(e, 0, i)) = field_mul(FieldTotal(e, 0, i), w)
      BY <3>2, <3>5, MulMonoid
    <3> QED BY <2>2, <2>5, <2>6, <3>2, <3>4, <3>6 DEF t
  <2>7. CASE ~ (i <= c)
    <3>1. \A l \in 0 .. j : t[l] = 0
      <4> SUFFICES ASSUME NEW l \in 0 .. j PROVE Q[<<i, l>>] = 0
        OBVIOUS
      <4>1. ~ (l <= a /\ i - l <= b)
        BY <2>7
      <4> QED BY <1>1, <4>1
    <3> HIDE DEF t
    <3>2. FieldTotal(t, 0, j) = 0
      BY <1>0, <3>1, TotalOfZeros
    <3> QED BY <2>2, <2>7, <3>2 DEF t
  <2> QED BY <2>6, <2>7
<1>6. ASSUME NEW l \in 0 .. j
      PROVE  B[l] = FieldTotal([i \in 0 .. j |-> Q[<<i, l>>]], 0, j)
  <2> DEFINE k == j - l
             e == ConvTerms(g, b, S, k)
             y == [i \in 0 .. k |-> IF l <= a THEN field_mul(f[l], e[i]) ELSE 0]
             t == [i \in 0 .. j |-> Q[<<i, l>>]]
             u == f[l]
  <2>1. k \in 0 .. r /\ k \in Nat /\ l \in Nat /\ l + k <= j /\ l + k = j
    OBVIOUS
  <2>2. Terms(e, k) /\ U[k] = FieldTotal(e, 0, k)
    <3> HIDE DEF k
    <3> QED BY <2>1, ConvType DEF IsConv, Conv
  <2>3. B[l] = IF l <= a THEN field_mul(u, U[k]) ELSE 0
    BY DEF ConvTerms
  <2>4. ASSUME NEW i \in 0 .. k
        PROVE  e[i] = IF i <= b THEN field_mul(g[i], S[k - i]) ELSE 0
    <3> HIDE DEF k
    <3> QED BY DEF ConvTerms
  <2>5. MovedBy(t, j, l, y, k)
    <3> SUFFICES ASSUME NEW i \in 0 .. j
                 PROVE  t[i] = IF i \in l .. l + k THEN y[i - l] ELSE 0
      BY <2>1 DEF MovedBy
    <3>0. t[i] = Q[<<i, l>>]
      OBVIOUS
    <3>1. CASE i >= l
      <4> DEFINE o == i - l
      <4>1. o \in 0 .. k /\ i \in l .. l + k /\ k - o = j - i /\ l <= i /\ k - o \in 0 .. r
        BY <3>1
      <4>2. e[o] = IF o <= b THEN field_mul(g[o], S[j - i]) ELSE 0
        BY <2>4, <4>1
      <4>3. y[o] = IF l <= a THEN field_mul(u, e[o]) ELSE 0
        <5> HIDE DEF e, k, o
        <5> QED BY <4>1
      <4>4. t[i] = IF l <= a /\ o <= b THEN field_mul(field_mul(u, g[o]), S[j - i]) ELSE 0
        BY <1>1, <3>0, <4>1
      <4> HIDE DEF o, e, y, t
      <4>5. t[i] = y[o]
        <5>1. CASE l <= a /\ o <= b
          <6> DEFINE v == g[o]
                     w == S[j - i]
          <6>1. l \in 0 .. a /\ o \in 0 .. b /\ j - i \in 0 .. r
            BY <4>1, <5>1
          <6>2. u \in Elements /\ v \in Elements /\ w \in Elements
            BY <6>1 DEF Terms
          <6>3. t[i] = field_mul(field_mul(u, v), w) /\ y[o] = field_mul(u, field_mul(v, w))
            BY <4>2, <4>3, <4>4, <5>1
          <6> HIDE DEF u, v, w
          <6> QED BY <6>2, <6>3, MulMonoid
        <5>2. CASE l <= a /\ ~ (o <= b)
          <6> HIDE DEF u
          <6> QED BY <4>2, <4>3, <4>4, <5>2, MulMonoid
        <5>3. CASE ~ (l <= a)
          BY <4>3, <4>4, <5>3
        <5> QED BY <5>1, <5>2, <5>3
      <4> QED BY <4>1, <4>5 DEF o
    <3>2. CASE ~ (i >= l)
      <4>1. ~ (l <= i) /\ i \notin l .. l + k
        BY <3>2
      <4>2. t[i] = 0
        BY <1>1, <3>0, <4>1
      <4> HIDE DEF t, y
      <4> QED BY <4>1, <4>2
    <3> QED BY <3>1, <3>2
  <2>6. CASE l <= a
    <3>1. l \in 0 .. a
      BY <2>6
    <3>2. u \in Elements
      BY <3>1 DEF Terms
    <3>3. \A i \in 0 .. k : y[i] = field_mul(u, e[i])
      BY <2>6
    <3> HIDE DEF u, y, e, k, t
    <3>4. Terms(y, k) /\ FieldTotal(y, 0, k) = field_mul(u, FieldTotal(e, 0, k))
      BY <2>1, <2>2, <3>2, <3>3, TotalScales
    <3>5. FieldTotal(t, 0, j) = FieldTotal(y, 0, k)
      BY <1>0, <2>1, <2>5, <3>4, TotalMoves
    <3> QED BY <2>2, <2>3, <2>6, <3>4, <3>5 DEF t
  <2>7. CASE ~ (l <= a)
    <3>1. \A i \in 0 .. j : t[i] = 0
      BY <1>1, <2>7
    <3> HIDE DEF t
    <3>2. FieldTotal(t, 0, j) = 0
      BY <1>0, <3>1, TotalOfZeros
    <3> QED BY <2>3, <2>7, <3>2 DEF t
  <2> QED BY <2>6, <2>7
<1>7. Rows(Q, A, j, j) /\ Columns(Q, B, j, j)
  <2> HIDE DEF A, B
  <2> QED BY <1>5, <1>6 DEF Rows, Columns
<1>8. FieldTotal(A, 0, j) = FieldTotal(B, 0, j)
  <2> HIDE DEF A, B
  <2> QED BY <1>0, <1>4, <1>7, TotalExchange
<1> QED BY <1>8 DEF Conv, h, c

\* A power of a power.
LEMMA PowPow ==
    ASSUME N >= 2, NEW x \in 1 .. N, NEW a \in Nat
    PROVE  \A b \in Nat : field_pow(field_pow(x, a), b) = field_pow(x, a * b)
<1> DEFINE u == field_pow(x, a)
           Ok == {b \in Nat : field_pow(u, b) = field_pow(x, a * b)}
<1>1. u \in 1 .. N
  BY PowLaws
<1>2. 0 \in Ok
  <2>1. a * 0 = 0
    OBVIOUS
  <2>2. field_pow(u, 0) = 1 /\ field_pow(x, 0) = 1
    BY <1>1, PowLaws
  <2> QED BY <2>1, <2>2
<1>3. ASSUME NEW b \in Nat, b \in Ok PROVE b + 1 \in Ok
  <2> DEFINE c == a * b
  <2>1. c \in Nat /\ a * (b + 1) = c + a /\ 1 \in Nat
    OBVIOUS
  <2>2. field_pow(u, b) = field_pow(x, c)
    BY <1>3
  <2> HIDE DEF c
  <2>3. field_pow(x, c + a) = field_mul(field_pow(x, c), field_pow(x, a))
    BY <2>1, PowLaws
  <2> HIDE DEF u
  <2>4. field_pow(u, b + 1) = field_mul(field_pow(u, b), field_pow(u, 1)) /\ field_pow(u, 1) = u
    BY <1>1, <2>1, PowLaws
  <2>5. field_pow(u, b + 1) = field_pow(x, c + a)
    BY <2>2, <2>3, <2>4 DEF u
  <2> QED BY <2>1, <2>5
<1>4. \A b \in Nat : b \in Ok
  <2> HIDE DEF Ok
  <2> QED BY <1>2, <1>3, SetInduction
<1> QED BY <1>4

\* Powers of inverses are inverses.
LEMMA PowInverse ==
    ASSUME N >= 2, NEW x \in 1 .. N, NEW y \in 1 .. N, field_mul(y, x) = 1
    PROVE  \A a \in Nat : field_mul(field_pow(y, a), field_pow(x, a)) = 1
<1> DEFINE Ok == {a \in Nat : field_mul(field_pow(y, a), field_pow(x, a)) = 1}
<1>1. 0 \in Ok
  <2>1. field_pow(x, 0) = 1 /\ field_pow(y, 0) = 1
    BY PowLaws
  <2>2. field_mul(1, 1) = 1
    BY ZeroInElements, MulMonoid
  <2> QED BY <2>1, <2>2
<1>2. ASSUME NEW a \in Nat, a \in Ok PROVE a + 1 \in Ok
  <2> DEFINE p == field_pow(x, a)
             q == field_pow(y, a)
  <2>1. p \in 1 .. N /\ q \in 1 .. N /\ field_mul(q, p) = 1 /\ 1 \in Nat
    BY <1>2, PowLaws
  <2>2. /\ field_pow(x, a + 1) = field_mul(p, field_pow(x, 1)) /\ field_pow(x, 1) = x
        /\ field_pow(y, a + 1) = field_mul(q, field_pow(y, 1)) /\ field_pow(y, 1) = y
    BY <2>1, PowLaws
  <2> HIDE DEF p, q
  <2>3. p \in Elements /\ q \in Elements /\ x \in Elements /\ y \in Elements
    BY <2>1, Nonzero
  <2>4. field_mul(field_mul(q, y), field_mul(p, x)) = 1
    <3>1. field_mul(p, x) \in Elements /\ field_mul(p, x) = field_mul(x, p)
          /\ field_mul(x, p) \in Elements
      BY <2>3, MulMonoid
    <3>2. field_mul(field_mul(q, y), field_mul(x, p)) = field_mul(q, field_mul(y, field_mul(x, p)))
      <4> DEFINE w == field_mul(x, p)
      <4>1. w \in Elements
        BY <3>1
      <4> HIDE DEF w
      <4>2. field_mul(field_mul(q, y), w) = field_mul(q, field_mul(y, w))
        BY <2>3, <4>1, MulMonoid
      <4> QED BY <4>2 DEF w
    <3>3. field_mul(y, field_mul(x, p)) = field_mul(field_mul(y, x), p)
      BY <2>3, MulMonoid
    <3>4. field_mul(field_mul(y, x), p) = p
      BY <2>3, MulMonoid
    <3> QED BY <2>1, <3>1, <3>2, <3>3, <3>4
  <2>5. field_mul(field_pow(y, a + 1), field_pow(x, a + 1)) = 1
    BY <2>2, <2>4
  <2> QED BY <2>5
<1>3. \A a \in Nat : a \in Ok
  <2> HIDE DEF Ok
  <2> QED BY <1>1, <1>2, SetInduction
<1> QED BY <1>3

\* The powers of an element come back to 1 after N.
LEMMA PowCycle ==
    ASSUME N >= 2, NEW x \in 1 .. N
    PROVE  field_pow(x, N) = 1
<1> DEFINE l == Log[x]
<1>1. N \in Nat \ {0} /\ l \in 1 .. N /\ x # 0
  BY Sizes, LogTable
<1> HIDE DEF l
<1>2. (l * N) % N = 0
  <2> DEFINE i == l * N
             t == 0
  <2>1. l \in Int /\ t \in 0 .. N - 1 /\ i = N * l + t /\ i \in Int
    BY <1>1
  <2> HIDE DEF i, t
  <2>2. i % N = t
    BY <1>1, <2>1, DivisionUnique, Zenon
  <2> QED BY <2>2 DEF i, t
<1>3. field_pow(x, N) = Exp[(l * N) % N]
  BY <1>1 DEF field_pow, l
<1> QED BY <1>2, <1>3, PowerTable

\* The power before, which may be the one with the exponent -1.
LEMMA PowBefore ==
    ASSUME N >= 2, NEW x \in 1 .. N, NEW a \in Nat
    PROVE  field_pow(x, a - 1) \in 1 .. N /\ field_mul(field_pow(x, a - 1), x) = field_pow(x, a)
<1>1. CASE a = 0
  <2> DEFINE l == Log[x]
  <2>1. N \in Nat \ {0} /\ l \in 1 .. N /\ x # 0 /\ Exp[l] = x
    BY Sizes, LogTable
  <2>2. field_pow(x, a - 1) = Exp[(l * (a - 1)) % N]
    BY <2>1 DEF field_pow
  <2>3. field_pow(x, a) = 1
    BY <1>1, PowLaws
  <2> HIDE DEF l
  <2>4. (l * (a - 1)) % N = N - l
    <3> DEFINE i == l * (a - 1)
               t == N - l
               q == -1
    <3>1. q \in Int /\ t \in 0 .. N - 1 /\ i = N * q + t /\ i \in Int
      BY <1>1, <2>1
    <3> HIDE DEF i, t, q
    <3>2. i % N = t
      BY <2>1, <3>1, DivisionUnique, Zenon
    <3> QED BY <3>2 DEF i, t
  <2>5. CASE l = N
    <3>1. Exp[N] = 1
      BY PowersCycle
    <3>2. field_pow(x, a - 1) = 1 /\ x = 1
      BY <2>1, <2>2, <2>4, <2>5, <3>1, PowerTable
    <3>3. field_mul(1, 1) = 1 /\ 1 \in 1 .. N
      BY ZeroInElements, MulMonoid, <2>1
    <3> QED BY <2>3, <3>2, <3>3
  <2>6. CASE l # N
    <3> DEFINE k == N - l
               w == Exp[k]
    <3>1. k \in 1 .. N /\ k + l = N
      BY <2>1, <2>6
    <3> HIDE DEF k
    <3>2. w \in 1 .. N /\ Log[w] = k
      BY <3>1, LogTable
    <3> HIDE DEF w
    <3>3. field_mul(w, x) = Exp[Log[w] + Log[x]]
      BY <3>2, MulOfNonzero
    <3>4. field_mul(w, x) = 1
      BY <3>1, <3>2, <3>3, PowersCycle DEF l
    <3> QED BY <2>2, <2>3, <2>4, <3>2, <3>4 DEF w, k
  <2> QED BY <2>5, <2>6
<1>2. CASE a # 0
  <2> DEFINE b == a - 1
  <2>1. b \in Nat /\ a = b + 1 /\ 1 \in Nat
    BY <1>2
  <2> HIDE DEF b
  <2>2. field_pow(x, b + 1) = field_mul(field_pow(x, b), field_pow(x, 1)) /\ field_pow(x, 1) = x
        /\ field_pow(x, b) \in 1 .. N
    BY <2>1, PowLaws
  <2> QED BY <2>1, <2>2 DEF b
<1> QED BY <1>1, <1>2

\* The table of powers holds the powers of its entry 1.
LEMMA ExpIsPow ==
    ASSUME N >= 2
    PROVE  /\ Exp[1] \in 1 .. N
           /\ \A e \in Nat : Exp[e % N] = field_pow(Exp[1], e)
           /\ \A p \in 0 .. N : Exp[p] = field_pow(Exp[1], p)
<1> DEFINE g == Exp[1]
<1>1. N \in Nat \ {0} /\ 1 \in 1 .. N /\ g \in 1 .. N /\ Log[g] = 1
  BY Sizes, LogTable
<1>2. ASSUME NEW e \in Nat PROVE Exp[e % N] = field_pow(g, e)
  <2>1. 1 * e = e /\ g # 0
    BY <1>1
  <2>2. field_pow(g, e) = Exp[(Log[g] * e) % N]
    BY <2>1 DEF field_pow
  <2> QED BY <1>1, <2>1, <2>2
<1>3. ASSUME NEW p \in 0 .. N PROVE Exp[p] = field_pow(g, p)
  <2>1. CASE p = N
    BY <1>1, <2>1, PowCycle, PowersCycle
  <2>2. CASE p = 0
    BY <1>1, <2>2, PowLaws, PowerTable
  <2>3. CASE p \in 1 .. N - 1
    <3>1. p \in Nat /\ p \in 1 .. 2 * N /\ p = N * 0 + p /\ 0 \in Int
      BY <1>1, <2>3
    <3>2. Exp[p % N] = Exp[p]
      BY <3>1, PowersRepeat
    <3> QED BY <1>2, <3>1, <3>2
  <2> QED BY <1>1, <2>1, <2>2, <2>3
<1> QED BY <1>1, <1>2, <1>3

\* The terms of a product's coefficient for a power that all of f reaches.
LongTerms(g, f, n, S, j) == \A i \in 0 .. n : g[i] = field_mul(f[i], S[j - i])

\* Far enough out a coefficient has all terms of f.
LEMMA ConvLong ==
    ASSUME N >= 2, NEW n \in Nat, NEW f, Terms(f, n), NEW r \in Nat, NEW S, Terms(S, r),
           NEW j \in n .. r, NEW g, LongTerms(g, f, n, S, j)
    PROVE  Terms(g, n) /\ Conv(f, n, S, j) = FieldTotal(g, 0, n)
<1> USE DEF LongTerms
<1> DEFINE h == ConvTerms(f, n, S, j)
<1>1. j \in Nat /\ j \in 0 .. r /\ 0 \in Nat /\ 0 + n = n /\ n <= j
  OBVIOUS
<1>2. Terms(g, n)
  <2> SUFFICES ASSUME NEW i \in 0 .. n PROVE g[i] \in Elements
    BY DEF Terms
  <2> DEFINE u == f[i]
             v == S[j - i]
  <2>1. j - i \in 0 .. r
    OBVIOUS
  <2>2. u \in Elements /\ v \in Elements /\ g[i] = field_mul(u, v)
    BY <2>1 DEF Terms
  <2> HIDE DEF u, v
  <2> QED BY <2>2, MulMonoid
<1>3. MovedBy(h, j, 0, g, n)
  <2> SUFFICES ASSUME NEW i \in 0 .. j
               PROVE  h[i] = IF i \in 0 .. 0 + n THEN g[i - 0] ELSE 0
    BY <1>1 DEF MovedBy
  <2>1. h[i] = IF i <= n THEN field_mul(f[i], S[j - i]) ELSE 0
    BY DEF ConvTerms
  <2> HIDE DEF h
  <2>2. CASE i <= n
    <3>1. i \in 0 .. n /\ i \in 0 .. 0 + n /\ i - 0 = i
      BY <2>2
    <3> QED BY <2>1, <2>2, <3>1
  <2>3. CASE ~ (i <= n)
    <3>1. i \notin 0 .. 0 + n
      BY <2>3
    <3> QED BY <2>1, <2>3, <3>1
  <2> QED BY <2>2, <2>3
<1> HIDE DEF h
<1>4. FieldTotal(h, 0, j) = FieldTotal(g, 0, n)
  BY <1>1, <1>2, <1>3, TotalMoves
<1> QED BY <1>2, <1>4 DEF Conv, h

\* With the powers of the inverse of x it is a multiple of the value at x.
LEMMA ConvIsValue ==
    ASSUME N >= 2, NEW n \in Nat, NEW f, Terms(f, n), NEW x \in 1 .. N, NEW y \in 1 .. N,
           field_mul(y, x) = 1, NEW r \in Nat, NEW S, ArePowers(S, y, r), NEW j \in n .. r
    PROVE  Conv(f, n, S, j) = field_mul(field_pow(y, j), ValueAt(f, n, x))
<1> DEFINE g == [i \in 0 .. n |-> field_mul(f[i], S[j - i])]
           P == Powers(f, n, x)
           c == field_pow(y, j)
<1>1. Terms(S, r)
  <2> SUFFICES ASSUME NEW i \in 0 .. r PROVE S[i] \in Elements
    BY DEF Terms
  <2>1. i \in Nat /\ S[i] = field_pow(y, i)
    BY DEF ArePowers
  <2> QED BY <2>1, PowLaws, Nonzero
<1>2. Conv(f, n, S, j) = FieldTotal(g, 0, n)
  <2>1. LongTerms(g, f, n, S, j)
    BY DEF LongTerms
  <2> HIDE DEF g
  <2> QED BY <1>1, <2>1, ConvLong
<1>3. j \in Nat /\ c \in 1 .. N
  <2>1. j \in Nat
    OBVIOUS
  <2> QED BY <2>1, PowLaws
<1>4. x \in Elements /\ y \in Elements /\ c \in Elements
  BY <1>3, Nonzero
<1>5. Terms(P, n)
  BY ValueType
<1>6. ASSUME NEW i \in 0 .. n PROVE g[i] = field_mul(c, P[i])
  <2> DEFINE k == j - i
             u == f[i]
             a == field_pow(y, k)
             b == field_pow(y, i)
             p == field_pow(x, i)
  <2>1. k \in 0 .. r /\ k \in Nat /\ i \in Nat /\ j = k + i
    OBVIOUS
  <2>2. S[k] = a /\ u \in Elements /\ P[i] = field_mul(u, p) /\ g[i] = field_mul(u, a)
    BY <2>1 DEF ArePowers, Powers, Terms
  <2> HIDE DEF k
  <2>3. a \in 1 .. N /\ b \in 1 .. N /\ p \in 1 .. N
    BY <2>1, PowLaws
  <2>4. field_pow(y, k + i) = field_mul(a, b)
    BY <2>1, PowLaws
  <2>5. field_mul(b, p) = 1
    BY <2>1, PowInverse
  <2>6. a \in Elements /\ b \in Elements /\ p \in Elements
    BY <2>3, Nonzero
  <2>7. c = field_mul(a, b)
    BY <2>1, <2>4
  <2> HIDE DEF a, b, p, u, g, P
  <2>8. field_mul(c, p) = a
    <3>1. field_mul(field_mul(a, b), p) = field_mul(a, field_mul(b, p))
      BY <2>6, MulMonoid
    <3>2. field_mul(a, 1) = a
      BY <2>6, ZeroInElements, MulMonoid
    <3> QED BY <2>5, <2>7, <3>1, <3>2
  <2> HIDE DEF c
  <2>9. field_mul(c, field_mul(u, p)) = field_mul(u, field_mul(c, p))
    <3>1. field_mul(field_mul(c, u), p) = field_mul(c, field_mul(u, p))
      BY <1>4, <2>2, <2>6, MulMonoid
    <3>2. field_mul(field_mul(u, c), p) = field_mul(u, field_mul(c, p))
      BY <1>4, <2>2, <2>6, MulMonoid
    <3>3. field_mul(c, u) = field_mul(u, c)
      BY <1>4, <2>2, MulMonoid
    <3> QED BY <3>1, <3>2, <3>3
  <2> QED BY <2>2, <2>8, <2>9
<1> HIDE DEF g, P, c
<1>7. FieldTotal(g, 0, n) = field_mul(c, FieldTotal(P, 0, n))
  BY <1>4, <1>5, <1>6, TotalScales
<1> QED BY <1>2, <1>7 DEF c, P, ValueAt

\* A product is zero where one of its factors is, and starts with the product
\* of their first coefficients.
LEMMA ProductVanishes ==
    ASSUME N >= 2, NEW a \in Nat, NEW f, Terms(f, a), NEW b \in Nat, NEW g, Terms(g, b),
           NEW x \in 1 .. N, ValueAt(f, a, x) = 0 \/ ValueAt(g, b, x) = 0
    PROVE  ValueAt(polynomial_mul(f, a, g, b, a + b), a + b, x) = 0
<1> DEFINE c == a + b
           h == polynomial_mul(f, a, g, b, c)
           y == field_div(1, x)
           S == [i \in 0 .. c |-> field_pow(y, i)]
           U == [i \in 0 .. c |-> Conv(g, b, S, i)]
           v == ValueAt(g, b, x)
           R == [i \in 0 .. c |-> field_mul(v, S[i])]
<1>1. /\ c \in Nat /\ c \in a .. c /\ c \in 0 .. c /\ c \in c .. c
      /\ y \in 1 .. N /\ field_mul(y, x) = 1
  BY Nonzero
<1>2. Terms(h, c)
  <2>1. h \in [0 .. c -> Elements]
    BY <1>1, MulType
  <2> HIDE DEF h
  <2> QED BY <2>1 DEF Terms
<1>3. ArePowers(S, y, c) /\ IsConv(U, g, b, S, c) /\ IsMultiple(R, v, S, c)
  <2> HIDE DEF y, v
  <2>1. ArePowers(S, y, c)
    BY DEF ArePowers
  <2>2. IsMultiple(R, v, S, c)
    BY DEF IsMultiple
  <2> HIDE DEF S
  <2> QED BY <2>1, <2>2 DEF IsConv
<1> HIDE DEF y, h
<1>4. Terms(S, c)
  <2> SUFFICES ASSUME NEW i \in 0 .. c PROVE S[i] \in Elements
    BY DEF Terms
  <2>1. i \in Nat /\ S[i] = field_pow(y, i)
    OBVIOUS
  <2> QED BY <1>1, <2>1, PowLaws, Nonzero
<1>5. v \in Elements
  BY ValueType
<1>6. \A i \in b .. c : U[i] = R[i]
  <2> SUFFICES ASSUME NEW i \in b .. c PROVE U[i] = R[i]
    OBVIOUS
  <2>1. i \in 0 .. c
    OBVIOUS
  <2>2. U[i] = Conv(g, b, S, i) /\ R[i] = field_mul(v, S[i]) /\ S[i] = field_pow(y, i)
    BY <2>1
  <2> HIDE DEF U, R, S
  <2>3. Conv(g, b, S, i) = field_mul(field_pow(y, i), v)
    <3> HIDE DEF c
    <3> QED BY <1>1, <1>3, ConvIsValue
  <2> HIDE DEF v
  <2>4. field_pow(y, i) \in Elements
    <3>1. S[i] \in Elements
      BY <1>4, <2>1 DEF Terms
    <3> QED BY <2>2, <3>1
  <2>5. field_mul(field_pow(y, i), v) = field_mul(v, field_pow(y, i))
    BY <1>5, <2>4, MulMonoid
  <2> QED BY <2>2, <2>3, <2>5
<1> HIDE DEF S, U, R, v
<1>7. ConvTerms(f, a, U, c) = ConvTerms(f, a, R, c)
  <2>1. \A i \in 0 .. c : i <= a => U[c - i] = R[c - i]
    <3> SUFFICES ASSUME NEW i \in 0 .. c, i <= a PROVE U[c - i] = R[c - i]
      OBVIOUS
    <3>1. c - i \in b .. c
      OBVIOUS
    <3> QED BY <1>6, <3>1
  <2>2. \A i \in 0 .. c : (IF i <= a THEN field_mul(f[i], U[c - i]) ELSE 0)
                            = (IF i <= a THEN field_mul(f[i], R[c - i]) ELSE 0)
    BY <2>1
  <2> QED BY <2>2 DEF ConvTerms
<1> DEFINE w == ValueAt(f, a, x)
           p == field_pow(y, c)
           e == ValueAt(h, c, x)
<1>8. w \in Elements /\ p \in 1 .. N /\ e \in Elements
  <2> HIDE DEF c
  <2> QED BY <1>1, <1>2, ValueType, PowLaws
<1>9. Conv(h, c, S, c) = Conv(f, a, U, c)
  BY <1>1, <1>3, <1>4, ConvOfProduct DEF h
<1> HIDE DEF c
<1>10. Conv(h, c, S, c) = field_mul(p, e)
  BY <1>1, <1>2, <1>3, ConvIsValue
<1>11. Conv(f, a, R, c) = field_mul(v, Conv(f, a, S, c))
  BY <1>1, <1>3, <1>4, <1>5, ConvScales
<1>12. Conv(f, a, S, c) = field_mul(p, w)
  BY <1>1, <1>3, ConvIsValue
<1>13. field_mul(p, e) = field_mul(v, field_mul(p, w))
  BY <1>7, <1>9, <1>10, <1>11, <1>12 DEF Conv
<1>14. w = 0 \/ v = 0
  BY DEF v
<1> HIDE DEF w, p, e
<1>15. field_mul(p, e) = 0
  BY <1>13, <1>14, MulMonoid
<1>16. e = 0
  BY <1>8, <1>15, Nonzero
<1> QED BY <1>16 DEF e, h, c

\* And starts with the product of what they start with.
LEMMA ProductStarts ==
    ASSUME N >= 2, NEW a \in Nat, NEW f, Terms(f, a), NEW b \in Nat, NEW g, Terms(g, b)
    PROVE  polynomial_mul(f, a, g, b, a + b)[0] = field_mul(f[0], g[0])
<1> DEFINE t == [i \in 0 .. 0 |-> IF i <= a /\ 0 - i <= b THEN field_mul(f[i], g[0 - i]) ELSE 0]
<1>1. 0 \in 0 .. a + b /\ 0 \in 0 .. 0 /\ 0 - 0 = 0 /\ 0 <= a /\ 0 <= b /\ 0 \in 0 .. a /\ 0 \in 0 .. b
  OBVIOUS
<1>2. polynomial_mul(f, a, g, b, a + b)[0] = FieldTotal(t, 0, 0)
  BY <1>1 DEF polynomial_mul
<1>3. t[0] = field_mul(f[0], g[0])
  BY <1>1
<1>4. f[0] \in Elements /\ g[0] \in Elements
  BY <1>1 DEF Terms
<1>5. Terms(t, 0)
  <2>1. t[0] \in Elements
    <3> HIDE DEF t
    <3> QED BY <1>3, <1>4, MulMonoid
  <2> HIDE DEF t
  <2>2. \A k \in 0 .. 0 : k = 0
    OBVIOUS
  <2> QED BY <2>1, <2>2 DEF Terms
<1> HIDE DEF t
<1> QED BY <1>2, <1>3, <1>5, TotalOfOne

------------------------------------------------------------------------------
(* Sums of powers of points, and the registers that give them.             *)

\* The values of x over P.
ImageOf(x, P) == {x[p] : p \in P}

\* A function of a finite set takes no more values than the set has elements,
\* and as many when it is one to one.
LEMMA ImageCount ==
    ASSUME NEW P, IsFiniteSet(P), NEW x
    PROVE  /\ IsFiniteSet(ImageOf(x, P))
           /\ Cardinality(ImageOf(x, P)) <= Cardinality(P)
           /\ (\A p, q \in P : x[p] = x[q] => p = q)
                 => Cardinality(ImageOf(x, P)) = Cardinality(P)
<1> DEFINE R == ImageOf(x, P)
           b == [p \in P |-> x[p]]
<1>1. b \in Surjection(P, R)
  <2>1. b \in [P -> R]
    BY DEF ImageOf
  <2>2. \A y \in R : \E p \in P : b[p] = y
    BY DEF ImageOf
  <2> HIDE DEF b, R
  <2> QED BY <2>1, <2>2 DEF Surjection
<1>2. ASSUME \A p, q \in P : x[p] = x[q] => p = q
      PROVE  b \in Injection(P, R)
  <2>1. b \in [P -> R]
    BY DEF ImageOf
  <2>2. \A p, q \in P : b[p] = b[q] => p = q
    BY <1>2
  <2> HIDE DEF b, R
  <2> QED BY <2>1, <2>2 DEF Injection, IsInjective
<1> HIDE DEF b, R
<1>3. /\ IsFiniteSet(R)
      /\ Cardinality(R) <= Cardinality(P)
      /\ Cardinality(R) = Cardinality(P) <=> b \in Injection(P, R)
  BY <1>1, FS_Surjection
<1> QED BY <1>2, <1>3 DEF R

\* The same bound for coefficients that come as part of a longer array.
LEMMA RootsFew ==
    ASSUME N >= 2, NEW n \in Nat, NEW f, Terms(f, n), NEW R \in SUBSET (1 .. N),
           f[0] # 0, \A x \in R : ValueAt(f, n, x) = 0
    PROVE  IsFiniteSet(R) /\ Cardinality(R) <= n
<1> DEFINE F == [j \in 0 .. n |-> f[j]]
<1>1. F \in [0 .. n -> Elements] /\ \A j \in 0 .. n : F[j] = f[j]
  BY DEF Terms
<1>2. 0 \in 0 .. n
  OBVIOUS
<1>3. \E j \in 0 .. n : F[j] # 0
  BY <1>1, <1>2
<1>4. ASSUME NEW x \in R PROVE ValueAt(F, n, x) = 0
  <2>1. Powers(F, n, x) = Powers(f, n, x)
    BY <1>1 DEF Powers
  <2> QED BY <2>1 DEF ValueAt
<1> HIDE DEF F
<1> QED BY <1>1, <1>3, <1>4, RootsBound

\* f, of degree t, is 0 at the points of R and at no other.
IsLocator(f, t, R) ==
    /\ Terms(f, t)
    /\ f[0] = 1
    /\ \A x \in 1 .. N : ValueAt(f, t, x) = 0 <=> x \in R

\* Any set of elements but zero has a locator, of the order of its size.
LEMMA LocatorOf ==
    ASSUME N >= 2, NEW R \in SUBSET (1 .. N), NEW t \in Nat, Cardinality(R) = t
    PROVE  \E f : IsLocator(f, t, R)
<1>0. IsFiniteSet(R) /\ N \in Nat
  <2>1. IsFiniteSet(1 .. N) /\ N \in Nat
    BY Sizes, FS_Interval
  <2> QED BY <2>1, FS_Subset
<1>1. CASE t = 0
  <2> DEFINE f == [k \in 0 .. 0 |-> 1]
  <2>1. R = {}
    BY <1>0, <1>1, FS_EmptySet
  <2>2. Terms(f, 0) /\ f[0] = 1
    BY ZeroInElements DEF Terms
  <2> HIDE DEF f
  <2>3. \A x \in 1 .. N : ValueAt(f, 0, x) # 0
    BY <2>2, ValueOfConstant
  <2> QED BY <1>1, <2>1, <2>2, <2>3 DEF IsLocator
<1>2. CASE t >= 1
  <2>1. PICK b \in [1 .. t -> R] : \A y \in R : \E i \in 1 .. t : b[i] = y
    <3>1. ExistsBijection(1 .. t, R)
      BY <1>0, FS_CardinalityType
    <3> QED BY <3>1 DEF ExistsBijection, Bijection, Surjection
  <2> DEFINE zeros == [j \in 0 .. t - 1 |-> b[j + 1]]
  <2>2. \A j \in 0 .. t - 1 : zeros[j] \in R /\ zeros[j] \in 1 .. N /\ zeros[j] # 0
    <3> TAKE j \in 0 .. t - 1
    <3>1. j + 1 \in 1 .. t /\ zeros[j] = b[j + 1]
      OBVIOUS
    <3>2. zeros[j] \in R
      BY <2>1, <3>1
    <3> HIDE DEF zeros
    <3>3. zeros[j] \in 1 .. N
      BY <3>2
    <3> QED BY <1>0, <3>2, <3>3
  <2>3. \A y \in R : \E j \in 0 .. t - 1 : zeros[j] = y
    <3> TAKE y \in R
    <3>1. PICK i \in 1 .. t : b[i] = y
      BY <2>1
    <3>2. i - 1 \in 0 .. t - 1 /\ (i - 1) + 1 = i
      OBVIOUS
    <3>3. zeros[i - 1] = y
      BY <3>1, <3>2
    <3> QED BY <3>2, <3>3
  <2> HIDE DEF zeros
  <2>4. Terms(zeros, t - 1)
    BY <2>2, Nonzero DEF Terms
  <2> DEFINE g == polynomial_from_roots(t, zeros)
  <2>5. /\ g \in [0 .. t -> Elements]
        /\ \A j \in 0 .. t - 1 : ValueAt(g, t, zeros[j]) = 0
    BY <1>2, <2>2, <2>4, FromRootsVanishes
  <2>6. g[0] \in 1 .. N
    BY <1>2, <2>2, FromRootsStart
  <2> HIDE DEF g
  <2>7. Terms(g, t)
    BY <2>5 DEF Terms
  <2> DEFINE c == field_div(1, g[0])
  <2>8. c \in 1 .. N /\ field_mul(c, g[0]) = 1
    BY <2>6, Nonzero
  <2> HIDE DEF c
  <2> DEFINE f == [k \in 0 .. t |-> field_mul(c, g[k])]
  <2>9. \A k \in 0 .. t : f[k] = field_mul(c, g[k])
    OBVIOUS
  <2>10. f[0] = 1
    BY <2>8
  <2> HIDE DEF f
  <2>11. c \in Elements
    BY <2>8, Nonzero
  <2>12. \A x \in 1 .. N : Terms(f, t) /\ ValueAt(f, t, x) = field_mul(c, ValueAt(g, t, x))
    BY <2>7, <2>9, <2>11, ValueScales
  <2>13. Terms(f, t)
    <3>1. 1 \in 1 .. N
      BY <1>0
    <3> QED BY <2>12, <3>1
  <2>14. ASSUME NEW x \in R PROVE x \in 1 .. N /\ ValueAt(f, t, x) = 0
    <3>1. ValueAt(g, t, x) = 0
      BY <2>3, <2>5
    <3>2. field_mul(c, 0) = 0
      BY MulMonoid
    <3> QED BY <2>12, <3>1, <3>2
  <2>15. ASSUME NEW x \in 1 .. N, ValueAt(f, t, x) = 0, x \notin R PROVE FALSE
    <3> DEFINE Y == R \cup {x}
    <3>1. Y \in SUBSET (1 .. N) /\ \A y \in Y : ValueAt(f, t, y) = 0
      BY <2>14, <2>15
    <3>2. Cardinality(Y) = t + 1
      BY <1>0, <2>15, FS_AddElement
    <3> HIDE DEF Y
    <3>3. f[0] # 0
      BY <2>10
    <3>4. Cardinality(Y) <= t
      BY <2>13, <3>1, <3>3, RootsFew
    <3> QED BY <3>2, <3>4
  <2> QED BY <2>10, <2>13, <2>14, <2>15 DEF IsLocator
<1> QED BY <1>1, <1>2

\* n + 1 different points x and their inverses y.
ArePoints(x, y, n) ==
    /\ \A p \in 0 .. n : x[p] \in 1 .. N /\ y[p] \in 1 .. N /\ field_mul(y[p], x[p]) = 1
    /\ \A p, q \in 0 .. n : x[p] = x[q] => p = q

\* Q, up to r, are the sums of the powers of the y, with weights v.
IsPowerSum(Q, v, y, n, r) ==
    \A k \in 0 .. r :
        Q[k] = FieldTotal([p \in 0 .. n |-> field_mul(v[p], field_pow(y[p], k))], 0, n)

\* The terms of the product of f with such sums, at place j.
IsEvaluated(B, v, x, y, f, m, j, n) ==
    \A p \in 0 .. n :
        B[p] = field_mul(v[p], field_mul(field_pow(y[p], j), ValueAt(f, m, x[p])))

\* The convolution of a polynomial with a sum of powers weighs every power with
\* the polynomial's value at the power's inverse.
LEMMA PowerSumConv ==
    ASSUME N >= 2, NEW n \in Nat, NEW x, NEW y, ArePoints(x, y, n), NEW v, Terms(v, n),
           NEW r \in Nat, NEW Q, IsPowerSum(Q, v, y, n, r),
           NEW m \in Nat, NEW f, Terms(f, m), NEW j \in m .. r,
           NEW B, IsEvaluated(B, v, x, y, f, m, j, n)
    PROVE  Terms(B, n) /\ Conv(f, m, Q, j) = FieldTotal(B, 0, n)
<1> DEFINE G == [p \in 0 .. n |-> [i \in 0 .. r |-> field_pow(y[p], i)]]
           F == [p \in 0 .. n |-> [i \in 0 .. r |-> field_mul(v[p], field_pow(y[p], i))]]
<1>1. ASSUME NEW p \in 0 .. n
      PROVE  /\ v[p] \in Elements /\ x[p] \in 1 .. N /\ y[p] \in 1 .. N
             /\ field_mul(y[p], x[p]) = 1
             /\ \A i \in 0 .. r : field_pow(y[p], i) \in Elements
  <2>1. v[p] \in Elements /\ x[p] \in 1 .. N /\ y[p] \in 1 .. N /\ field_mul(y[p], x[p]) = 1
    BY DEF Terms, ArePoints
  <2>2. \A i \in 0 .. r : i \in Nat
    OBVIOUS
  <2>3. \A i \in Nat : field_pow(y[p], i) \in 1 .. N
    BY <2>1, PowLaws
  <2> QED BY <2>1, <2>2, <2>3, Nonzero
<1>2. AllTerms(F, n, r)
  <2> SUFFICES ASSUME NEW p \in 0 .. n, NEW i \in 0 .. r
               PROVE  field_mul(v[p], field_pow(y[p], i)) \in Elements
    BY DEF AllTerms, Terms
  <2> QED BY <1>1, MulMonoid
<1>3. AreTotals(Q, r, F, n)
  <2> SUFFICES ASSUME NEW i \in 0 .. r
               PROVE  Q[i] = FieldTotal([k \in 0 .. n |-> F[k][i]], 0, n)
    BY DEF AreTotals
  <2>1. [k \in 0 .. n |-> F[k][i]] = [p \in 0 .. n |-> field_mul(v[p], field_pow(y[p], i))]
    OBVIOUS
  <2> HIDE DEF F
  <2> QED BY <2>1 DEF IsPowerSum
<1>4. \A p \in 0 .. n : IsMultiple(F[p], v[p], G[p], r) /\ ArePowers(G[p], y[p], r)
  BY DEF IsMultiple, ArePowers
<1>5. \A p \in 0 .. n : Terms(G[p], r)
  <2> SUFFICES ASSUME NEW p \in 0 .. n, NEW i \in 0 .. r PROVE field_pow(y[p], i) \in Elements
    BY DEF Terms
  <2> QED BY <1>1
<1> HIDE DEF F, G
<1>6. j \in 0 .. r /\ j \in Nat
  OBVIOUS
<1>7. AreConvs(B, f, m, F, j, n)
  <2> SUFFICES ASSUME NEW p \in 0 .. n PROVE B[p] = Conv(f, m, F[p], j)
    BY DEF AreConvs
  <2>1. /\ v[p] \in Elements /\ x[p] \in 1 .. N /\ y[p] \in 1 .. N /\ field_mul(y[p], x[p]) = 1
        /\ Terms(G[p], r) /\ IsMultiple(F[p], v[p], G[p], r) /\ ArePowers(G[p], y[p], r)
    BY <1>1, <1>4, <1>5
  <2> DEFINE g == G[p]
             h == F[p]
             a == x[p]
             b == y[p]
             c == v[p]
  <2>2. /\ c \in Elements /\ a \in 1 .. N /\ b \in 1 .. N /\ field_mul(b, a) = 1
        /\ Terms(g, r) /\ IsMultiple(h, c, g, r) /\ ArePowers(g, b, r)
    BY <2>1
  <2>3. B[p] = field_mul(c, field_mul(field_pow(b, j), ValueAt(f, m, a)))
    BY DEF IsEvaluated
  <2> HIDE DEF a, b, c, g, h
  <2>4. Conv(f, m, g, j) = field_mul(field_pow(b, j), ValueAt(f, m, a))
    BY <2>2, ConvIsValue
  <2>5. Conv(f, m, h, j) = field_mul(c, Conv(f, m, g, j))
    BY <1>6, <2>2, ConvScales
  <2> QED BY <2>3, <2>4, <2>5 DEF h
<1>8. Conv(f, m, Q, j) = FieldTotal(B, 0, n)
  BY <1>2, <1>3, <1>6, <1>7, ConvOfTotals
<1>9. Terms(B, n)
  <2> SUFFICES ASSUME NEW p \in 0 .. n PROVE B[p] \in Elements
    BY DEF Terms
  <2> DEFINE a == x[p]
             b == y[p]
             c == v[p]
  <2>1. c \in Elements /\ a \in 1 .. N /\ b \in 1 .. N
    BY <1>1
  <2>2. B[p] = field_mul(c, field_mul(field_pow(b, j), ValueAt(f, m, a)))
    BY DEF IsEvaluated
  <2> HIDE DEF a, b, c
  <2>3. ValueAt(f, m, a) \in Elements
    BY <2>1, ValueType
  <2>4. field_pow(b, j) \in Elements
    BY <1>6, <2>1, PowLaws, Nonzero
  <2> QED BY <2>1, <2>2, <2>3, <2>4, MulMonoid
<1> QED BY <1>8, <1>9

\* U is the product of f and Q, moved down by d.
IsShifted(U, f, m, Q, d, r) == \A k \in 0 .. r : U[k] = Conv(f, m, Q, k + d)

\* The weights of that product: those of Q, times the values of f.
IsWeighed(w, v, x, y, f, m, d, n) ==
    \A p \in 0 .. n :
        w[p] = field_mul(v[p], field_mul(field_pow(y[p], d), ValueAt(f, m, x[p])))

\* So it is a sum of powers itself, of the same points with other weights.
LEMMA PowerSumShift ==
    ASSUME N >= 2, NEW n \in Nat, NEW x, NEW y, ArePoints(x, y, n), NEW v, Terms(v, n),
           NEW r \in Int, NEW Q, IsPowerSum(Q, v, y, n, r),
           NEW m \in Nat, NEW f, Terms(f, m), NEW d \in Nat, m <= d,
           NEW U, IsShifted(U, f, m, Q, d, r - d), NEW w, IsWeighed(w, v, x, y, f, m, d, n)
    PROVE  Terms(w, n) /\ IsPowerSum(U, w, y, n, r - d)
<1>1. ASSUME NEW p \in 0 .. n
      PROVE  /\ v[p] \in Elements /\ x[p] \in 1 .. N /\ y[p] \in 1 .. N
             /\ ValueAt(f, m, x[p]) \in Elements
             /\ field_pow(y[p], d) \in Elements
             /\ w[p] = field_mul(v[p], field_mul(field_pow(y[p], d), ValueAt(f, m, x[p])))
             /\ w[p] \in Elements
  <2> DEFINE a == x[p]
             b == y[p]
             c == v[p]
  <2>1. c \in Elements /\ a \in 1 .. N /\ b \in 1 .. N
    BY DEF Terms, ArePoints
  <2>2. w[p] = field_mul(c, field_mul(field_pow(b, d), ValueAt(f, m, a)))
    BY DEF IsWeighed
  <2> HIDE DEF a, b, c
  <2>3. ValueAt(f, m, a) \in Elements
    BY <2>1, ValueType
  <2>4. field_pow(b, d) \in Elements
    BY <2>1, PowLaws, Nonzero
  <2>5. w[p] \in Elements
    BY <2>1, <2>2, <2>3, <2>4, MulMonoid
  <2> QED BY <2>1, <2>2, <2>3, <2>4, <2>5 DEF a, b, c
<1>2. ASSUME NEW k \in 0 .. r - d
      PROVE  U[k] = FieldTotal([p \in 0 .. n |-> field_mul(w[p], field_pow(y[p], k))], 0, n)
  <2> DEFINE j == k + d
             B == [p \in 0 .. n |-> field_mul(w[p], field_pow(y[p], k))]
  <2>1. j \in m .. r /\ r \in Nat /\ k \in Nat
    OBVIOUS
  <2>2. ASSUME NEW p \in 0 .. n
        PROVE  field_mul(w[p], field_pow(y[p], k))
                 = field_mul(v[p], field_mul(field_pow(y[p], j), ValueAt(f, m, x[p])))
    <3> DEFINE b == field_pow(y[p], k)
               e == field_pow(y[p], d)
               u == ValueAt(f, m, x[p])
               c == v[p]
    <3>1. b \in Elements
      BY <1>1, <2>1, PowLaws, Nonzero
    <3>2. field_pow(y[p], j) = field_mul(b, e)
      <4>1. y[p] \in 1 .. N /\ j = k + d /\ k \in Nat
        BY <1>1, <2>1
      <4> HIDE DEF j
      <4> QED BY <4>1, PowLaws
    <3>3. c \in Elements /\ e \in Elements /\ u \in Elements /\ w[p] = field_mul(c, field_mul(e, u))
      BY <1>1
    <3> HIDE DEF b, e, u, c
    <3>4. field_mul(e, u) \in Elements /\ field_mul(b, e) \in Elements
      BY <3>1, <3>3, MulMonoid
    <3>5. field_mul(field_mul(c, field_mul(e, u)), b) = field_mul(c, field_mul(field_mul(e, u), b))
      BY <3>1, <3>3, <3>4, MulMonoid
    <3>6. field_mul(field_mul(e, u), b) = field_mul(b, field_mul(e, u))
      BY <3>1, <3>4, MulMonoid
    <3>7. field_mul(b, field_mul(e, u)) = field_mul(field_mul(b, e), u)
      BY <3>1, <3>3, MulMonoid
    <3>8. field_mul(w[p], b) = field_mul(c, field_mul(field_mul(b, e), u))
      BY <3>3, <3>5, <3>6, <3>7
    <3> QED BY <3>2, <3>8 DEF b, c, u
  <2>3. IsEvaluated(B, v, x, y, f, m, j, n)
    <3>1. \A p \in 0 .. n : B[p] = field_mul(w[p], field_pow(y[p], k))
      OBVIOUS
    <3> HIDE DEF B, j
    <3> QED BY <2>2, <3>1 DEF IsEvaluated
  <2>4. U[k] = Conv(f, m, Q, j)
    BY DEF IsShifted
  <2> HIDE DEF B, j
  <2>5. Conv(f, m, Q, j) = FieldTotal(B, 0, n)
    BY <2>1, <2>3, PowerSumConv
  <2> QED BY <2>4, <2>5 DEF B
<1>3. Terms(w, n)
  BY <1>1 DEF Terms
<1> QED BY <1>2, <1>3 DEF IsPowerSum

\* A convolution with zeros is zero.
LEMMA ConvOfZeros ==
    ASSUME N >= 2, NEW m \in Nat, NEW f, NEW j \in Nat, NEW Q, \A k \in 0 .. j : Q[k] = 0
    PROVE  Conv(f, m, Q, j) = 0
<1> SUFFICES ASSUME NEW i \in 0 .. j PROVE ConvTerms(f, m, Q, j)[i] = 0
  BY TotalOfZeros DEF Conv
<1>1. j - i \in 0 .. j
  OBVIOUS
<1>2. Q[j - i] = 0
  BY <1>1
<1>3. field_mul(f[i], 0) = 0
  BY MulMonoid
<1> QED BY <1>2, <1>3 DEF ConvTerms

\* Where v is not zero.
Support(v, n) == {p \in 0 .. n : v[p] # 0}

\* Some of finitely many places are finitely many.
LEMMA SupportFinite ==
    ASSUME NEW n \in Nat, NEW P \in SUBSET (0 .. n)
    PROVE  IsFiniteSet(P) /\ Cardinality(P) \in Nat
<1>1. IsFiniteSet(0 .. n)
  BY FS_Interval
<1> QED BY <1>1, FS_Subset, FS_CardinalityType

\* As many sums of powers as there are points that may have a weight: if they
\* are all zero, so is every weight.
LEMMA PowerSumZero ==
    ASSUME N >= 2, NEW n \in Nat, NEW x, NEW y, ArePoints(x, y, n), NEW v, Terms(v, n),
           NEW P \in SUBSET (0 .. n), Support(v, n) \subseteq P,
           NEW r \in Int, Cardinality(P) <= r + 1,
           NEW Q, IsPowerSum(Q, v, y, n, r), \A k \in 0 .. r : Q[k] = 0
    PROVE  Support(v, n) = {}
<1> SUFFICES ASSUME NEW c \in 0 .. n, v[c] # 0 PROVE FALSE
  BY DEF Support
<1> DEFINE O == P \ {c}
           R == ImageOf(x, O)
           t == Cardinality(R)
<1>1. c \in P /\ IsFiniteSet(P) /\ Cardinality(P) \in Nat
  BY SupportFinite DEF Support
<1>2. IsFiniteSet(O) /\ Cardinality(O) = Cardinality(P) - 1
  BY <1>1, FS_RemoveElement
<1>3. IsFiniteSet(R) /\ t \in Nat /\ t <= r
  <2> HIDE DEF O
  <2>1. IsFiniteSet(R) /\ Cardinality(R) <= Cardinality(O)
    BY <1>2, ImageCount
  <2> HIDE DEF R
  <2>2. Cardinality(R) \in Nat
    BY <2>1, FS_CardinalityType
  <2> QED BY <1>1, <1>2, <2>1, <2>2
<1>4. R \in SUBSET (1 .. N)
  BY DEF ImageOf, ArePoints
<1>5. \A p \in O : x[p] \in R
  BY DEF ImageOf
<1>6. x[c] \notin R
  BY DEF ImageOf, ArePoints
<1>7. \A p \in 0 .. n : p # c => p \in O \/ v[p] = 0
  BY DEF Support
<1> HIDE DEF O, R
<1>8. PICK f : IsLocator(f, t, R)
  BY <1>3, <1>4, LocatorOf
<1>9. Terms(f, t) /\ \A a \in 1 .. N : ValueAt(f, t, a) = 0 <=> a \in R
  BY <1>8 DEF IsLocator
<1> HIDE DEF t
<1> DEFINE B == [p \in 0 .. n |->
                    field_mul(v[p], field_mul(field_pow(y[p], t), ValueAt(f, t, x[p])))]
<1>10. IsEvaluated(B, v, x, y, f, t, t, n)
  BY DEF IsEvaluated
<1>11. ASSUME NEW p \in 0 .. n, p # c PROVE B[p] = 0
  <2>1. CASE v[p] = 0
    BY <2>1, MulMonoid
  <2>2. CASE p \in O
    <3>1. x[p] \in 1 .. N
      BY DEF ArePoints
    <3>2. ValueAt(f, t, x[p]) = 0
      BY <1>5, <1>9, <2>2, <3>1
    <3>3. field_mul(field_pow(y[p], t), 0) = 0 /\ field_mul(v[p], 0) = 0
      BY MulMonoid
    <3> QED BY <3>2, <3>3
  <2> QED BY <1>7, <1>11, <2>1, <2>2
<1>12. B[c] \in 1 .. N
  <2> DEFINE a == x[c]
             b == y[c]
  <2>1. a \in 1 .. N /\ b \in 1 .. N /\ v[c] \in 1 .. N
    <3>1. v[c] \in Elements
      BY DEF Terms
    <3> QED BY <3>1, Nonzero DEF ArePoints
  <2>2. B[c] = field_mul(v[c], field_mul(field_pow(b, t), ValueAt(f, t, a)))
    OBVIOUS
  <2>3. a \notin R
    BY <1>6
  <2> HIDE DEF a, b, B
  <2>4. ValueAt(f, t, a) \in Elements /\ ValueAt(f, t, a) # 0
    BY <1>3, <1>9, <2>1, <2>3, ValueType
  <2>5. ValueAt(f, t, a) \in 1 .. N
    BY <2>4, Nonzero
  <2>6. field_pow(b, t) \in 1 .. N
    BY <1>3, <2>1, PowLaws
  <2>7. field_mul(field_pow(b, t), ValueAt(f, t, a)) \in 1 .. N
    BY <2>5, <2>6, Nonzero
  <2>8. field_mul(v[c], field_mul(field_pow(b, t), ValueAt(f, t, a))) \in 1 .. N
    BY <2>1, <2>7, Nonzero
  <2> QED BY <2>2, <2>8
<1> HIDE DEF B
<1>13. t \in t .. r /\ r \in Nat /\ t \in 0 .. r
  BY <1>3
<1>14. Conv(f, t, Q, t) = FieldTotal(B, 0, n)
  BY <1>3, <1>9, <1>10, <1>13, PowerSumConv
<1>15. \A k \in 0 .. t : Q[k] = 0
  <2> TAKE k \in 0 .. t
  <2>1. k \in 0 .. r
    BY <1>3
  <2> QED BY <2>1
<1>16. Conv(f, t, Q, t) = 0
  BY <1>3, <1>15, ConvOfZeros
<1>17. FieldTotal(B, 0, n) = B[c]
  <2>1. B[c] \in Elements
    BY <1>12, Nonzero
  <2>2. \A p \in 0 .. n : p # c => B[p] = 0
    BY <1>11
  <2> QED BY <2>1, <2>2, TotalSingle
<1>18. B[c] # 0
  BY <1>12, Nonzero
<1> QED BY <1>14, <1>16, <1>17, <1>18

\* C, as a register of L taps, gives all of T up to r.
AllZero(C, L, T, r) == \A k \in L .. r : Conv(C, L, T, k) = 0

\* A register with no more taps than there are weights, and at least twice as
\* many sums of powers: it has as many taps, and its roots are the inverses of
\* the points with a weight.
LEMMA RegisterFindsErrors ==
    ASSUME N >= 2, NEW n \in Nat, NEW x, NEW y, ArePoints(x, y, n), NEW w, Terms(w, n),
           NEW r \in Int, 2 * Cardinality(Support(w, n)) <= r + 1,
           NEW T, IsPowerSum(T, w, y, n, r),
           NEW L \in Nat, L <= Cardinality(Support(w, n)),
           NEW C, Terms(C, L), C[0] # 0, AllZero(C, L, T, r)
    PROVE  /\ L = Cardinality(Support(w, n))
           /\ \A z \in 1 .. N : ValueAt(C, L, z) = 0 <=> z \in ImageOf(x, Support(w, n))
<1> DEFINE P == Support(w, n)
           t == Cardinality(P)
           R == ImageOf(x, P)
           U == [k \in 0 .. r - L |-> Conv(C, L, T, k + L)]
           u == [p \in 0 .. n |-> field_mul(w[p], field_mul(field_pow(y[p], L), ValueAt(C, L, x[p])))]
<1>1. P \in SUBSET (0 .. n)
  BY DEF Support
<1>2. IsFiniteSet(P) /\ t \in Nat
  BY <1>1, SupportFinite
<1>3. /\ IsShifted(U, C, L, T, L, r - L)
      /\ IsWeighed(u, w, x, y, C, L, L, n)
  BY DEF IsShifted, IsWeighed
<1>4. ASSUME NEW k \in 0 .. r - L PROVE U[k] = 0
  <2>1. k + L \in L .. r
    OBVIOUS
  <2> QED BY <2>1 DEF AllZero
<1>5. ASSUME NEW p \in 0 .. n, w[p] = 0 PROVE u[p] = 0
  BY <1>5, MulMonoid
<1>6. \A p \in 0 .. n : u[p] = field_mul(w[p], field_mul(field_pow(y[p], L), ValueAt(C, L, x[p])))
  OBVIOUS
<1> HIDE DEF U, u
<1>7. Terms(u, n) /\ IsPowerSum(U, u, y, n, r - L)
  BY <1>3, PowerSumShift
<1>8. Support(u, n) = {}
  <2>1. Support(u, n) \subseteq P
    BY <1>5 DEF Support
  <2> HIDE DEF P
  <2>2. r - L \in Int /\ Cardinality(P) <= (r - L) + 1
    BY <1>2 DEF P
  <2> QED BY <1>1, <1>4, <1>7, <2>1, <2>2, PowerSumZero
<1>9. ASSUME NEW p \in P PROVE x[p] \in 1 .. N /\ ValueAt(C, L, x[p]) = 0
  <2> DEFINE a == x[p]
             b == y[p]
  <2>1. p \in 0 .. n /\ w[p] # 0
    BY DEF Support
  <2>2. a \in 1 .. N /\ b \in 1 .. N /\ w[p] \in Elements
    BY <2>1 DEF ArePoints, Terms
  <2>3. field_mul(w[p], field_mul(field_pow(b, L), ValueAt(C, L, a))) = 0
    <3>1. u[p] = 0
      BY <1>8, <2>1 DEF Support
    <3> QED BY <1>6, <2>1, <3>1
  <2> HIDE DEF a, b
  <2>4. ValueAt(C, L, a) \in Elements
    BY <2>2, ValueType
  <2>5. field_pow(b, L) \in 1 .. N
    BY <2>2, PowLaws
  <2>6. field_pow(b, L) \in Elements /\ field_pow(b, L) # 0
    BY <2>5, Nonzero
  <2>7. field_mul(field_pow(b, L), ValueAt(C, L, a)) = 0
    <3>1. field_mul(field_pow(b, L), ValueAt(C, L, a)) \in Elements
      BY <2>4, <2>6, MulMonoid
    <3> QED BY <2>1, <2>2, <2>3, <3>1, Nonzero
  <2>8. ValueAt(C, L, a) = 0
    BY <2>4, <2>6, <2>7, Nonzero
  <2> QED BY <2>2, <2>8 DEF a
<1>10. R \in SUBSET (1 .. N) /\ \A z \in R : ValueAt(C, L, z) = 0
  BY <1>9 DEF ImageOf
<1>11. IsFiniteSet(R) /\ Cardinality(R) = t
  <2>1. \A p, q \in P : x[p] = x[q] => p = q
    BY <1>1 DEF ArePoints
  <2> HIDE DEF P
  <2> QED BY <1>2, <2>1, ImageCount
<1> HIDE DEF P, R, t
<1>12. t <= L
  BY <1>10, <1>11, RootsFew
<1>13. L = t
  BY <1>2, <1>12 DEF t, P
<1>14. ASSUME NEW z \in 1 .. N, ValueAt(C, L, z) = 0, z \notin R PROVE FALSE
  <2> DEFINE Y == R \cup {z}
  <2>1. Y \in SUBSET (1 .. N) /\ \A a \in Y : ValueAt(C, L, a) = 0
    BY <1>10, <1>14
  <2>2. Cardinality(Y) = t + 1
    BY <1>11, <1>14, FS_AddElement
  <2> HIDE DEF Y
  <2>3. Cardinality(Y) <= L
    BY <2>1, RootsFew
  <2> QED BY <1>2, <1>13, <2>2, <2>3
<1> QED BY <1>10, <1>13, <1>14 DEF P, R, t

\* There is a register with as many taps.
LEMMA RegisterOfErrors ==
    ASSUME N >= 2, NEW n \in Nat, NEW x, NEW y, ArePoints(x, y, n), NEW w, Terms(w, n),
           NEW r \in Int, NEW T, IsPowerSum(T, w, y, n, r),
           NEW t \in Nat, t = Cardinality(Support(w, n))
    PROVE  \E f : Terms(f, t) /\ f[0] = 1 /\ AllZero(f, t, T, r)
<1> DEFINE P == Support(w, n)
           R == ImageOf(x, P)
<1>1. P \in SUBSET (0 .. n)
  BY DEF Support
<1>2. IsFiniteSet(P)
  BY <1>1, SupportFinite
<1>3. Cardinality(R) = t
  <2>1. \A p, q \in P : x[p] = x[q] => p = q
    BY <1>1 DEF ArePoints
  <2>2. Cardinality(P) = t
    OBVIOUS
  <2> HIDE DEF P
  <2> QED BY <1>2, <2>1, <2>2, ImageCount
<1>4. R \in SUBSET (1 .. N)
  BY <1>1 DEF ImageOf, ArePoints
<1>5. \A p \in P : x[p] \in R
  BY DEF ImageOf
<1>6. \A p \in 0 .. n : p \in P \/ w[p] = 0
  BY DEF Support
<1> HIDE DEF P, R
<1>7. PICK f : IsLocator(f, t, R)
  BY <1>3, <1>4, LocatorOf
<1>8. Terms(f, t) /\ f[0] = 1 /\ \A a \in R : ValueAt(f, t, a) = 0
  BY <1>4, <1>7 DEF IsLocator
<1>9. ASSUME NEW k \in t .. r PROVE Conv(f, t, T, k) = 0
  <2> DEFINE B == [p \in 0 .. n |->
                      field_mul(w[p], field_mul(field_pow(y[p], k), ValueAt(f, t, x[p])))]
  <2>1. IsEvaluated(B, w, x, y, f, t, k, n)
    BY DEF IsEvaluated
  <2>2. ASSUME NEW p \in 0 .. n PROVE B[p] = 0
    <3>1. CASE w[p] = 0
      BY <3>1, MulMonoid
    <3>2. CASE p \in P
      <4>1. ValueAt(f, t, x[p]) = 0
        BY <1>5, <1>8, <3>2
      <4>2. field_mul(field_pow(y[p], k), 0) = 0 /\ field_mul(w[p], 0) = 0
        BY MulMonoid
      <4> QED BY <4>1, <4>2
    <3> QED BY <1>6, <3>1, <3>2
  <2> HIDE DEF B
  <2>3. r \in Nat
    OBVIOUS
  <2>4. Conv(f, t, T, k) = FieldTotal(B, 0, n)
    BY <1>8, <2>1, <2>3, PowerSumConv
  <2>5. FieldTotal(B, 0, n) = 0
    BY <2>2, TotalOfZeros
  <2> QED BY <2>4, <2>5
<1> QED BY <1>8, <1>9 DEF AllZero

------------------------------------------------------------------------------
(* The field by its definition: digits, shifts and sums, no tables.        *)

\* Below bit Width, a power of two is the power of x in the table.
LEMMA PowerOfTwo ==
    ASSUME N >= 2, NEW k \in 0 .. Width - 1
    PROVE  2^k \in 1 .. N /\ Exp[k] = 2^k /\ k \in 0 .. N
<1> DEFINE S == {j \in Nat : j < Width => 2^j \in 1 .. N /\ Exp[j] = 2^j /\ j <= N}
<1>0. N \in Nat /\ Width \in Nat /\ N + 1 = 2^Width
  BY Sizes
<1>1. 0 \in S
  BY <1>0, PowerZero, PowerTable
<1>2. ASSUME NEW j \in Nat, j \in S PROVE j + 1 \in S
  <2> SUFFICES ASSUME j + 1 < Width
               PROVE  2^(j + 1) \in 1 .. N /\ Exp[j + 1] = 2^(j + 1) /\ j + 1 <= N
    OBVIOUS
  <2>1. 2^j \in 1 .. N /\ Exp[j] = 2^j /\ j <= N
    BY <1>2, <1>0
  <2>2. 2^(j + 1) = 2 * 2^j /\ 2^(j + 1) \in Nat \ {0}
    BY PowerStep
  <2>3. 2^(j + 1) < 2^Width /\ 2^Width \in Nat
    <3>1. ~ (Width <= j + 1) /\ j + 1 \in Nat
      BY <1>0
    <3> QED BY <3>1, <1>0, PowerOrder
  <2>4. 2^(j + 1) \in 1 .. N /\ ~ (2 * 2^j > N)
    BY <2>2, <2>3, <1>0
  <2>5. Exp[j + 1] = Doubled[Exp[j]] /\ 2^j \in Elements
    <3>1. j \in 0 .. 2 * N
      BY <2>1, <1>0
    <3>2. Exp[j + 1] = Doubled[Exp[j]]
      BY <3>1, PowerTable
    <3> QED BY <3>2, <2>1, <1>0 DEF Elements
  <2>6. Doubled[2^j] = 2 * 2^j
    BY <2>4, <2>5 DEF Doubled, DoubledBy
  <2>7. j + 1 <= 2^(j + 1)
    <3> DEFINE a == 2^j
    <3> HIDE DEF a
    <3>1. \A m \in Nat : m < 2^m
      <4> DEFINE R == {m \in Nat : m < 2^m}
      <4>1. 0 \in R
        BY PowerZero
      <4>2. ASSUME NEW m \in Nat, m \in R PROVE m + 1 \in R
        <5>1. 2^(m + 1) = 2 * 2^m /\ 2^m \in Nat \ {0} /\ m < 2^m
          BY <4>2, PowerStep
        <5> QED BY <5>1
      <4> HIDE DEF R
      <4>3. \A m \in Nat : m \in R
        BY <4>1, <4>2, SetInduction
      <4> QED BY <4>3 DEF R
    <3> QED BY <3>1, <2>2
  <2> QED BY <2>1, <2>2, <2>4, <2>5, <2>6, <2>7, <1>0
<1> HIDE DEF S
<1>3. k \in S
  <2>1. \A j \in Nat : j \in S
    BY <1>1, <1>2, SetInduction
  <2> QED BY <2>1, <1>0
<1> QED BY <1>3, <1>0 DEF S

\* Doubling is the product by x.
LEMMA DoubledIsProduct ==
    ASSUME N >= 2, NEW x \in Elements, NEW y \in 1 .. N
    PROVE  Doubled[field_mul(x, y)] = field_mul(x, Doubled[y])
<1>0. N \in Nat /\ y \in Elements /\ \A v \in Elements : v = 0 \/ v \in 1 .. N
  BY Sizes DEF Elements
<1>1. CASE x = 0
  <2>1. field_mul(x, y) = 0 /\ field_mul(x, Doubled[y]) = 0
    BY <1>1 DEF field_mul
  <2> QED BY <2>1, DoubledLinear
<1>2. CASE x \in 1 .. N
  <2>1. Log[x] \in 1 .. N /\ Exp[Log[x]] = x
    BY <1>2, LogTable
  <2>2. Log[y] \in 1 .. N /\ Exp[Log[y]] = y
    BY LogTable
  <2> DEFINE a == Log[x]
             b == Log[y]
  <2> HIDE DEF a, b
  <2>3. a \in 1 .. N /\ b \in 1 .. N /\ Exp[b] = y
    BY <2>1, <2>2 DEF a, b
  <2>4. field_mul(x, y) = Exp[a + b]
    BY <1>0, <1>2 DEF field_mul, a, b
  <2>5. Doubled[Exp[a + b]] = Exp[(a + b) + 1]
    <3>1. a + b \in 0 .. 2 * N
      BY <2>3, <1>0
    <3> QED BY <3>1, PowerTable
  <2>6. Doubled[y] = Exp[b + 1]
    <3>1. b \in 0 .. 2 * N
      BY <2>3, <1>0
    <3> QED BY <3>1, <2>3, PowerTable
  <2>7. CASE b < N
    <3>1. b + 1 \in 1 .. N
      BY <2>7, <2>3, <1>0
    <3>2. Exp[b + 1] \in 1 .. N /\ Log[Exp[b + 1]] = b + 1
      BY <3>1, LogTable
    <3>3. field_mul(x, Doubled[y]) = Exp[a + (b + 1)]
      BY <3>2, <2>6, <1>2, <1>0 DEF field_mul, a
    <3>4. a + (b + 1) = (a + b) + 1
      BY <2>3, <1>0
    <3> QED BY <2>4, <2>5, <3>3, <3>4
  <2>8. CASE b = N
    <3>1. Exp[b + 1] = Exp[1] /\ Exp[1] \in 1 .. N /\ Log[Exp[1]] = 1
      <4>1. 1 \in 1 .. N /\ N + 1 \in N + 1 .. 2 * N /\ (N + 1) - N = 1
        BY <1>0
      <4> QED BY <4>1, <2>8, LogTable
    <3>2. field_mul(x, Doubled[y]) = Exp[a + 1]
      BY <3>1, <2>6, <1>2, <1>0 DEF field_mul, a
    <3>3. Exp[(a + b) + 1] = Exp[a + 1]
      <4>1. a + 1 \in 0 .. N + 1 /\ (a + 1) + N = (a + b) + 1
        BY <2>3, <2>8, <1>0
      <4> QED BY <4>1, PowersCycle
    <3> QED BY <2>4, <2>5, <3>2, <3>3
  <2> QED BY <2>3, <2>7, <2>8, <1>0
<1> QED BY <1>0, <1>1, <1>2

\* The products of x by the powers of two, as Shifts makes them.
LEMMA ShiftsAreProducts ==
    ASSUME N >= 2, NEW x \in Elements
    PROVE  \A k \in 1 .. Width : Shifts[x][k] = field_mul(x, 2^(k - 1))
<1> DEFINE n == Width - 1
           Is(f) == f = [k \in 1 .. Width |-> IF k = 1 THEN x ELSE Doubled[f[k - 1]]]
           h == [k \in 1 .. Width |-> field_mul(x, 2^(k - 1))]
           F == CHOOSE f : Is(f)
<1>0. Width \in Nat \ {0} /\ N \in Nat
  BY Sizes
<1>1. h[1] = x
  <2>1. 2^(1 - 1) = 1 /\ 1 \in 1 .. Width
    BY PowerZero, <1>0
  <2>2. field_mul(x, 1) = x
    BY MulMonoid, ZeroInElements
  <2> QED BY <2>1, <2>2
<1>2. ASSUME NEW k \in 2 .. Width PROVE h[k] = Doubled[h[k - 1]]
  <2>1. k - 2 \in 0 .. Width - 1 /\ k - 1 \in 0 .. Width - 1 /\ (k - 2) + 1 = k - 1
        /\ (k - 1) - 1 = k - 2 /\ k \in 1 .. Width /\ k - 1 \in 1 .. Width
    BY <1>0
  <2> DEFINE y == 2^(k - 2)
  <2>2. y \in 1 .. N /\ Exp[k - 2] = y
    BY <2>1, PowerOfTwo
  <2>3. 2^(k - 1) = Doubled[y]
    <3>1. Exp[k - 1] = 2^(k - 1)
      BY <2>1, PowerOfTwo
    <3>2. k - 2 \in 0 .. 2 * N
      BY <2>1, PowerOfTwo, <1>0
    <3>3. Exp[(k - 2) + 1] = Doubled[Exp[k - 2]]
      BY <3>2, PowerTable
    <3> QED BY <3>1, <3>3, <2>1, <2>2
  <2>4. h[k] = field_mul(x, 2^(k - 1)) /\ h[k - 1] = field_mul(x, y)
    BY <2>1
  <2> HIDE DEF y, h
  <2>5. Doubled[field_mul(x, y)] = field_mul(x, Doubled[y])
    BY <2>2, DoubledIsProduct
  <2> QED BY <2>3, <2>4, <2>5
<1>3. Is(h)
  <2>1. ASSUME NEW k \in 1 .. Width PROVE h[k] = IF k = 1 THEN x ELSE Doubled[h[k - 1]]
    <3>1. k = 1 \/ k \in 2 .. Width
      BY <1>0
    <3> HIDE DEF h
    <3> QED BY <3>1, <1>1, <1>2
  <2>2. h = [k \in 1 .. Width |-> h[k]]
    OBVIOUS
  <2> HIDE DEF h
  <2> QED BY <2>1, <2>2
<1>4. Is(F)
  <2> HIDE DEF Is, h
  <2> QED BY <1>3
<1>5. F[1] = x /\ \A k \in 2 .. Width : F[k] = Doubled[F[k - 1]]
  <2> HIDE DEF F
  <2>1. 1 \in 1 .. Width /\ \A k \in 2 .. Width : k \in 1 .. Width /\ ~ (k = 1)
    BY <1>0
  <2> QED BY <1>4, <2>1
<1>6. Shifts[x] = [k \in 1 .. Width |-> F[k]]
  BY DEF Shifts
<1> HIDE DEF F, h
<1> DEFINE S == {k \in Nat : k < Width => F[k + 1] = h[k + 1]}
<1>7. 0 \in S
  BY <1>1, <1>5
<1>8. ASSUME NEW k \in Nat, k \in S PROVE k + 1 \in S
  <2> SUFFICES ASSUME k + 1 < Width PROVE F[(k + 1) + 1] = h[(k + 1) + 1]
    OBVIOUS
  <2>1. (k + 1) + 1 \in 2 .. Width /\ ((k + 1) + 1) - 1 = k + 1 /\ F[k + 1] = h[k + 1]
    BY <1>8, <1>0
  <2> QED BY <2>1, <1>2, <1>5
<1>9. ASSUME NEW k \in 1 .. Width PROVE F[k] = h[k]
  <2>1. \A j \in Nat : j \in S
    <3> HIDE DEF S
    <3> QED BY <1>7, <1>8, SetInduction
  <2>2. k - 1 \in Nat /\ k - 1 < Width /\ (k - 1) + 1 = k
    BY <1>0
  <2> QED BY <2>1, <2>2
<1> QED BY <1>6, <1>9 DEF h

\* A bit above a number joins it.
LEMMA BitJoins ==
    ASSUME NEW m \in 0 .. Width - 1, NEW y \in 0 .. 2^m - 1, 2^m \in Elements
    PROVE  y \in Elements /\ y + 2^m \in Elements /\ field_add(y, 2^m) = y + 2^m
<1> DEFINE p == 2^m
<1>0. /\ Width \in Nat /\ N \in Nat /\ m \in Nat /\ N + 1 = 2^Width /\ Elements \subseteq W2
      /\ p \in Nat \ {0} /\ 2^(m + 1) = 2 * p
  BY Sizes, PowerStep
<1>1. /\ y + 1 * 2^m \in 0 .. 2^(m + 1) - 1
      /\ Digit(y + 1 * 2^m, m) = 1
      /\ \A j \in 0 .. m - 1 : Digit(y + 1 * 2^m, j) = Digit(y, j)
  BY <1>0, BitAdded
<1>2. /\ 0 + 1 * 2^m \in 0 .. 2^(m + 1) - 1
      /\ Digit(0 + 1 * 2^m, m) = 1
      /\ \A j \in 0 .. m - 1 : Digit(0 + 1 * 2^m, j) = Digit(0, j)
  <2>1. 0 \in 0 .. 2^m - 1
    BY <1>0
  <2> QED BY <1>0, <2>1, BitAdded
<1>3. y + 1 * 2^m = y + p /\ 0 + 1 * 2^m = p
  BY <1>0
<1>4. y \in Elements /\ y + p \in Elements
  <2>1. 2^(m + 1) <= 2^Width
    BY <1>0, PowerOrder
  <2> HIDE DEF p
  <2> QED BY <1>0, <1>1, <1>3, <2>1 DEF Elements
<1>5. y \in W2 /\ y + p \in W2 /\ p \in W2
  BY <1>0, <1>4
<1>6. ASSUME NEW k \in 0 .. Width
      PROVE  Digit(BitXor(y, p), k) = Digit(y + p, k)
  <2>1. Digit(BitXor(y, p), k) = (Digit(y, k) + Digit(p, k)) % 2
    BY <1>5, XorBits
  <2>2. CASE k < m
    <3>1. Digit(p, k) = 0
      BY <1>2, <1>3, <2>2, ZeroBit
    <3>2. Digit(y + p, k) = Digit(y, k)
      BY <1>1, <1>3, <2>2
    <3>3. Digit(y, k) \in {0, 1}
      BY <1>5, WideBit
    <3>4. (Digit(y, k) + 0) % 2 = Digit(y, k)
      BY <3>3
    <3> QED BY <2>1, <3>1, <3>2, <3>4
  <2>3. CASE k = m
    <3>1. Digit(y, k) = 0
      BY <2>3, <1>0, BitAbove
    <3> QED BY <2>1, <2>3, <3>1, <1>1, <1>2, <1>3
  <2>4. CASE k > m
    <3>1. m + 1 \in Nat /\ m + 1 <= k /\ m <= k /\ k \in Nat
      BY <2>4, <1>0
    <3>2. Digit(y, k) = 0
      BY <3>1, <1>0, BitAbove
    <3>3. p \in 0 .. 2^(m + 1) - 1 /\ y + p \in 0 .. 2^(m + 1) - 1
      BY <1>1, <1>2, <1>3
    <3>4. Digit(p, k) = 0 /\ Digit(y + p, k) = 0
      BY <3>1, <3>3, BitAbove
    <3> QED BY <2>1, <3>2, <3>4
  <2> QED BY <2>2, <2>3, <2>4, <1>0
<1>7. BitXor(y, p) \in W2
  BY <1>5, XorBits
<1>8. BitXor(y, p) = y + p
  BY <1>5, <1>6, <1>7, SameBits
<1>9. field_add(y, p) = BitXor(y, p)
  BY <1>4, AddIsXor
<1> QED BY <1>4, <1>8, <1>9

\* What field_mul looks up is the product, digit by digit.
LEMMA ProductIsMul ==
    ASSUME N >= 2, NEW x \in Elements, NEW b \in Elements
    PROVE  Product(x, b) = field_mul(x, b)
<1> DEFINE t == [k \in 1 .. Width |->
                    IF (b \div 2^(k - 1)) % 2 = 1 THEN Shifts[x][k] ELSE 0]
           Is(f) == f = [k \in 1 - 1 .. Width |->
                            IF k = 1 - 1 THEN 0 ELSE field_add(f[k - 1], t[k])]
           h == [k \in 0 .. Width |-> field_mul(x, b % 2^k)]
           F == CHOOSE f : Is(f)
<1>0. /\ Width \in Nat \ {0} /\ N \in Nat /\ b \in Nat /\ N + 1 = 2^Width
      /\ \A y \in Elements : field_mul(x, y) \in Elements
  BY Sizes, MulMonoid DEF Elements
<1>1. h[0] = 0
  <2>1. 2^0 = 1 /\ b % 1 = 0 /\ 0 \in 0 .. Width
    BY <1>0, PowerZero
  <2> QED BY <2>1, MulMonoid
<1>2. ASSUME NEW k \in 1 .. Width PROVE h[k] = field_add(h[k - 1], t[k])
  <2> DEFINE m == k - 1
             y == b % 2^m
  <2>1. m \in 0 .. Width - 1 /\ m \in Nat /\ m + 1 = k /\ k \in 0 .. Width /\ m \in 0 .. Width
    BY <1>0
  <2>2. 2^m \in Nat \ {0} /\ 2^m \in Elements
    BY <2>1, <1>0, PowerStep, PowerOfTwo DEF Elements
  <2>3. y \in 0 .. 2^m - 1
    BY <2>2, <1>0, Division
  <2>4. b % 2^(m + 1) = y + Digit(b, m) * 2^m /\ Digit(b, m) \in {0, 1}
    BY <2>1, <1>0, NextBit, BitIsBit
  <2>5. y \in Elements /\ field_add(y, 2^m) = y + 2^m
    BY <2>1, <2>2, <2>3, BitJoins
  <2>6. h[k] = field_mul(x, b % 2^(m + 1)) /\ h[k - 1] = field_mul(x, y)
    BY <2>1
  <2>7. t[k] = IF Digit(b, m) = 1 THEN Shifts[x][k] ELSE 0
    BY DEF Digit
  <2>8. CASE Digit(b, m) = 1
    <3>1. b % 2^(m + 1) = field_add(y, 2^m)
      BY <2>2, <2>3, <2>4, <2>5, <2>8
    <3>2. t[k] = field_mul(x, 2^m)
      BY <2>7, <2>8, ShiftsAreProducts
    <3>3. field_mul(x, field_add(y, 2^m)) = field_add(field_mul(x, y), field_mul(x, 2^m))
      BY <2>2, <2>5, MulDistributes
    <3> QED BY <2>6, <3>1, <3>2, <3>3
  <2>9. CASE Digit(b, m) = 0
    <3>1. b % 2^(m + 1) = y
      BY <2>2, <2>3, <2>4, <2>9
    <3>2. field_add(field_mul(x, y), 0) = field_mul(x, y)
      BY <2>5, <1>0, AddGroup
    <3> QED BY <2>6, <2>7, <2>9, <3>1, <3>2
  <2> QED BY <2>4, <2>8, <2>9
<1>3. Is(h)
  <2>1. ASSUME NEW k \in 0 .. Width
        PROVE  h[k] = IF k = 0 THEN 0 ELSE field_add(h[k - 1], t[k])
    <3>1. k = 0 \/ k \in 1 .. Width
      BY <1>0
    <3> HIDE DEF h, t
    <3> QED BY <3>1, <1>1, <1>2
  <2>2. h = [k \in 0 .. Width |-> h[k]] /\ 1 - 1 = 0
    OBVIOUS
  <2> HIDE DEF h, t
  <2> QED BY <2>1, <2>2
<1>4. Is(F)
  <2> HIDE DEF Is, h, t
  <2> QED BY <1>3
<1>5. F[0] = 0 /\ \A k \in 1 .. Width : F[k] = field_add(F[k - 1], t[k])
  <2> HIDE DEF F, t
  <2>1. 1 - 1 = 0 /\ 0 \in 0 .. Width /\ \A k \in 1 .. Width : k \in 0 .. Width /\ ~ (k = 0)
    BY <1>0
  <2> QED BY <1>4, <2>1
<1>6. Product(x, b) = F[Width]
  <2>1. ~ (Width < 1)
    BY <1>0
  <2> QED BY <2>1 DEF Product, FieldTotal
<1> HIDE DEF F, h, t
<1> DEFINE S == {k \in Nat : k <= Width => F[k] = h[k]}
<1>7. 0 \in S
  BY <1>1, <1>5
<1>8. ASSUME NEW k \in Nat, k \in S PROVE k + 1 \in S
  <2> SUFFICES ASSUME k + 1 <= Width PROVE F[k + 1] = h[k + 1]
    OBVIOUS
  <2>1. k + 1 \in 1 .. Width /\ (k + 1) - 1 = k /\ F[k] = h[k]
    BY <1>8, <1>0
  <2> QED BY <2>1, <1>2, <1>5
<1>9. F[Width] = h[Width]
  <2>1. \A j \in Nat : j \in S
    <3> HIDE DEF S
    <3> QED BY <1>7, <1>8, SetInduction
  <2> QED BY <2>1, <1>0
<1>10. h[Width] = field_mul(x, b)
  <2>1. Width \in 0 .. Width /\ b < 2^Width
    BY <1>0 DEF Elements
  <2>2. b % 2^Width = b
    <3> DEFINE q == 2^Width
    <3>1. q \in Nat \ {0} /\ b < q
      BY <1>0, <2>1
    <3> HIDE DEF q
    <3>2. b % q = b
      BY <3>1, <1>0
    <3> QED BY <3>2 DEF q
  <2> QED BY <2>1, <2>2 DEF h
<1> QED BY <1>6, <1>9, <1>10

\* No step changes a pair.
LEMMA PairsStay ==
    PairSpec => [](left \in Elements /\ right \in Elements)
<1>1. PairInit => left \in Elements /\ right \in Elements
  BY DEF PairInit
<1>2. /\ left \in Elements /\ right \in Elements
      /\ [PairNext]_<<left, right>>
      => (left \in Elements /\ right \in Elements)'
  BY DEF PairNext
<1> QED
  BY <1>1, <1>2, PTL DEF PairSpec

\* In a field of any width of at least 2, field_mul is the product modulo the
\* polynomial and field_div undoes it (field.h:109-136).
THEOREM TablesMakeAField ==
    ASSUME N >= 2
    PROVE  PairSpec => []MulAndDivAreInverse
<1>1. ASSUME left \in Elements, right \in Elements
      PROVE  MulAndDivAreInverse
  <2>1. field_mul(left, right) = Product(left, right)
    BY <1>1, ProductIsMul
  <2>2. ASSUME right # 0
        PROVE  Product(field_div(left, right), right) = left
    <3>1. right \in 1 .. N
      BY <1>1, <2>2, Sizes DEF Elements
    <3>2. /\ field_div(left, right) \in Elements
          /\ field_mul(field_div(left, right), right) = left
      BY <1>1, <3>1, DivLaws
    <3> QED BY <1>1, <3>2, ProductIsMul
  <2> QED BY <2>1, <2>2 DEF MulAndDivAreInverse
<1> QED
  BY <1>1, PairsStay, PTL

\* Products and quotients of logarithms are logarithms, those of the products
\* and quotients, in every such field (field.h:138-154).
THEOREM LogarithmsAreClosed ==
    ASSUME N >= 2
    PROVE  PairSpec => []LogsStayLogs
<1>1. ASSUME left \in Elements, right \in Elements
      PROVE  LogsStayLogs
  <2> SUFFICES ASSUME left # 0, right # 0
               PROVE  /\ field_mul_log(Log[left], Log[right]) \in 1 .. N
                      /\ Exp[field_mul_log(Log[left], Log[right])] = Product(left, right)
                      /\ field_div_log(Log[left], Log[right]) \in 1 .. N
                      /\ Product(Exp[field_div_log(Log[left], Log[right])], right) = left
    BY DEF LogsStayLogs
  <2>1. left \in 1 .. N /\ right \in 1 .. N
    BY <1>1, Sizes DEF Elements
  <2>2. /\ field_mul(left, right) \in 1 .. N
        /\ Log[field_mul(left, right)] = field_mul_log(Log[left], Log[right])
    BY <2>1, MulOfNonzero DEF field_mul_log
  <2>3. /\ field_div(left, right) \in 1 .. N
        /\ Log[field_div(left, right)] = field_div_log(Log[left], Log[right])
    BY <2>1, DivOfNonzero DEF field_div_log
  <2>4. \A x \in 1 .. N : Log[x] \in 1 .. N /\ Exp[Log[x]] = x
    BY LogTable
  <2>5. /\ field_div(left, right) \in Elements
        /\ field_mul(field_div(left, right), right) = left
    BY <1>1, <2>1, DivLaws
  <2>6. /\ Product(left, right) = field_mul(left, right)
        /\ Product(field_div(left, right), right) = left
    BY <1>1, <2>5, ProductIsMul
  <2> QED BY <2>2, <2>3, <2>4, <2>6
<1> QED
  BY <1>1, PairsStay, PTL

\* field_pow is the product of as many factors, and the inverse for -1, in every
\* such field (field.h:156-172).
THEOREM PowersAreProducts ==
    ASSUME N >= 2
    PROVE  PairSpec => []PowIsProduct
<1>1. ASSUME left \in Elements, right \in Elements
      PROVE  PowIsProduct
  <2>1. \A x \in 1 .. N : x \in Elements /\ x # 0
    BY Sizes DEF Elements
  <2>2. ASSUME left # 0
        PROVE  Product(field_pow(left, -1), left) = 1
    <3>1. left \in 1 .. N
      BY <1>1, <2>2, Sizes DEF Elements
    <3>2. /\ field_pow(left, 0 - 1) \in 1 .. N
          /\ field_mul(field_pow(left, 0 - 1), left) = field_pow(left, 0)
      BY <3>1, PowBefore
    <3>3. field_pow(left, 0) = 1
      BY <3>1, PowLaws
    <3>4. -1 = 0 - 1
      OBVIOUS
    <3> QED BY <1>1, <2>1, <3>2, <3>3, <3>4, ProductIsMul
  <2>3. ASSUME left # 0, right < N
        PROVE  field_pow(left, right + 1) = Product(field_pow(left, right), left)
    <3>1. left \in 1 .. N /\ right \in Nat /\ 1 \in Nat
      BY <1>1, <2>3, Sizes DEF Elements
    <3>2. /\ field_pow(left, right) \in 1 .. N /\ field_pow(left, 1) = left
          /\ field_pow(left, right + 1)
                 = field_mul(field_pow(left, right), field_pow(left, 1))
      BY <3>1, PowLaws
    <3> QED BY <1>1, <2>1, <3>2, ProductIsMul
  <2> QED BY <2>2, <2>3 DEF PowIsProduct
<1> QED
  BY <1>1, PairsStay, PTL
==============================================================================

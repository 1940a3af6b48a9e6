----------------------------- MODULE GaloisField -----------------------------
(***************************************************************************)
(* field.h: arithmetic of GF(2^Width) over a table of powers and a table   *)
(* of logarithms, and polynomial.c: polynomials over that field.           *)
(*                                                                         *)
(* A polynomial is a function of its exponents; an array that is longer    *)
(* than its polynomial comes with the order as an argument of its own.     *)
(***************************************************************************)
EXTENDS Integers, Sequences, FiniteSets

CONSTANTS Width,           \* bits in an element, 8 in the code
          PrimitivePoly    \* its highest bit is bit Width

N        == 2^Width - 1    \* 255: the order of the group, and the block length
Elements == 0 .. N         \* field_element_t, field_logarithm_t

BitXor(l, r) ==
    LET xor[k \in 0 .. Width + 1] ==
            IF k = 0 THEN 0
            ELSE xor[k - 1] + ((l \div 2^(k - 1) + r \div 2^(k - 1)) % 2) * 2^(k - 1)
    IN  xor[Width + 1]

XorTable == [l \in Elements |-> [r \in Elements |-> BitXor(l, r)]]

\* One step of the loop of field_init.
DoubledBy(poly) == [x \in Elements |-> IF 2 * x > N THEN BitXor(2 * x, poly) ELSE 2 * x]
Doubled == DoubledBy(PrimitivePoly)

\* trypoly of find_rs_primitive_poly.c, the tool that says which polynomials
\* there are to choose from: no element comes twice.
trypoly(poly) ==
    LET double == DoubledBy(poly)
        element[i \in 0 .. N] == IF i = 0 THEN 1 ELSE double[element[i - 1]]
    IN  Cardinality({element[i] : i \in 1 .. N}) = N

Power[i \in 0 .. 2 * N + 1] == IF i = 0 THEN 1 ELSE Doubled[Power[i - 1]]

\* field->exp: two periods and two entries.
Exp == [i \in 0 .. 2 * N + 1 |-> Power[i]]

ASSUME GaloisFieldAssumption ==
    /\ Width \in Nat \ {0}
    /\ PrimitivePoly \in 2^Width .. 2^(Width + 1) - 1
    /\ trypoly(PrimitivePoly)      \* it is primitive

\* field->log: the last of the exponents 1..N, so that the logarithm of 1 is
\* N and 0 is free to say that there is none.
Log == [x \in Elements |-> IF x = 0 THEN 0 ELSE CHOOSE i \in 1 .. N : Exp[i] = x]

\* Addition and subtraction.
field_add(l, r) == XorTable[l][r]

\* elem added n times.
field_sum(elem, n) == IF n % 2 = 1 THEN elem ELSE 0

field_mul_log_element(l, r) == Exp[l + r]

\* Mutant: a zero factor is looked up like any other.
field_mul_NoZero(l, r) == Exp[Log[l] + Log[r]]

field_mul(l, r) == IF l = 0 \/ r = 0 THEN 0 ELSE Exp[Log[l] + Log[r]]

field_div(l, r) == IF l = 0 \/ r = 0 THEN 0 ELSE Exp[N + Log[l] - Log[r]]

Wrapped(log) == IF log > N THEN log - N ELSE log

\* Mutant: the wrap-around takes N to 0, which stands for no logarithm.
field_mul_log_WrapsN(l, r) == (l + r) % N

field_mul_log(l, r) == Wrapped(l + r)

field_div_log(l, r) == Wrapped(N + l - r)

\* Mutant: a negative remainder is not brought back into the table.
field_pow_Positive(elem, pow) ==
    IF elem = 0 THEN 0
    ELSE Exp[IF pow < 0 THEN 0 ELSE (Log[elem] * pow) % N]

field_pow(elem, pow) == IF elem = 0 THEN 0 ELSE Exp[(Log[elem] * pow) % N]

------------------------------------------------------------------------------
(* Polynomials.                                                            *)

\* The sum of f[from] .. f[to].
FieldTotal(f, from, to) ==
    LET sum[k \in from - 1 .. to] ==
            IF k = from - 1 THEN 0 ELSE field_add(sum[k - 1], f[k])
    IN  IF to < from THEN 0 ELSE sum[to]

\* The product of l and r, of the orders lo and ro, but for the powers above
\* `order`.
polynomial_mul(l, lo, r, ro, order) ==
    [k \in 0 .. order |->
        FieldTotal([i \in 0 .. k |-> IF i <= lo /\ k - i <= ro
                                     THEN field_mul(l[i], r[k - i]) ELSE 0], 0, k)]

\* The quotient's coefficient for the power i of mod, and mod less that many
\* divisors.
Subtracted(mod, i, order, divisor, degree) ==
    LET q_coeff == field_div_log(Log[mod[i]], Log[divisor[degree]])
    IN  [k \in 0 .. order |->
            IF k \in i - degree .. i /\ divisor[k - i + degree] # 0
            THEN field_add(mod[k], field_mul_log_element(Log[divisor[k - i + degree]], q_coeff))
            ELSE mod[k]]

\* Mutant: the long division stops one power early.
polynomial_mod_StopsEarly(dividend, order, divisor, degree) ==
    LET mod[i \in degree + 1 .. order + 1] ==
            IF i = order + 1 THEN dividend
            ELSE IF mod[i + 1][i] = 0 THEN mod[i + 1]
            ELSE Subtracted(mod[i + 1], i, order, divisor, degree)
    IN  mod[degree + 1]

\* The dividend after the steps of the long division down to the power i.  The
\* remainder is below the degree of the divisor, which is positive.
polynomial_mod(dividend, order, divisor, degree) ==
    LET mod[i \in degree .. order + 1] ==
            IF i = order + 1 THEN dividend
            ELSE IF mod[i + 1][i] = 0 THEN mod[i + 1]
            ELSE Subtracted(mod[i + 1], i, order, divisor, degree)
    IN  mod[degree]

polynomial_formal_derivative(poly, order) ==
    [i \in 0 .. order - 1 |-> field_sum(poly[i + 1], i + 1)]

\* The logarithms of the powers of val; all 0 when val is 0.
polynomial_build_exp_lut(val, order) ==
    LET power[i \in 0 .. order] ==
            IF val = 0 THEN 0
            ELSE IF i = 0 THEN Log[1] ELSE field_mul_log(power[i - 1], Log[val])
    IN  [i \in 0 .. order |-> power[i]]

\* polynomial_eval_lut: the value at the element with the powers valExp.
polynomial_eval_lut(poly, order, valExp) ==
    IF valExp[0] = 0 THEN poly[0]
    ELSE FieldTotal([i \in 0 .. order |->
                        IF poly[i] = 0 THEN 0
                        ELSE field_mul_log_element(Log[poly[i]], valExp[i])], 0, order)

\* polynomial_eval_log_lut: the same for a polynomial of logarithms, where 0
\* says that the coefficient is zero.
polynomial_eval_log_lut(logs, order, valExp) ==
    IF valExp[0] = 0 THEN (IF logs[0] = 0 THEN 0 ELSE Exp[logs[0]])
    ELSE FieldTotal([i \in 0 .. order |->
                        IF logs[i] = 0 THEN 0
                        ELSE field_mul_log_element(logs[i], valExp[i])], 0, order)

\* The product of x + zeros[i] for i < nroots.
polynomial_from_roots(nroots, zeros) ==
    LET product[n \in 1 .. nroots] ==
            LET factor == [k \in 0 .. 1 |-> IF k = 0 THEN zeros[n - 1] ELSE 1]
            IN  IF n = 1 THEN factor
                ELSE polynomial_mul(factor, 1, product[n - 1], n - 1, n)
    IN  product[nroots]
==============================================================================

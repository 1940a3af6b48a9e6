----------------------------- MODULE FieldPairs -----------------------------
(***************************************************************************)
(* The tables of field.h against the definition of the field: products of  *)
(* polynomials over GF(2) modulo the primitive one, which use neither the  *)
(* table of powers nor that of logarithms.  A state is a pair of elements. *)
(***************************************************************************)
EXTENDS GaloisField

VARIABLES left, right

PairInit == left \in Elements /\ right \in Elements
PairNext == UNCHANGED <<left, right>>
PairSpec == PairInit /\ [][PairNext]_<<left, right>>

\* The products by the powers of x, and the product of a and b, digit by digit
\* of b.
Shifts == [x \in Elements |->
              LET s[k \in 1 .. Width] == IF k = 1 THEN x ELSE Doubled[s[k - 1]]
              IN  [k \in 1 .. Width |-> s[k]]]
Product(a, b) ==
    FieldTotal([k \in 1 .. Width |->
                   IF (b \div 2^(k - 1)) % 2 = 1 THEN Shifts[a][k] ELSE 0], 1, Width)

\* field_mul adds logarithms without a wrap-around, because the table of powers
\* is two periods long: it is the product of the field for every pair, the
\* alias log(1) = 255 and the zeros included, and field_div undoes it for every
\* nonzero divisor (field.h:109-136).
MulAndDivAreInverse ==
    /\ field_mul(left, right) = Product(left, right)
    /\ right # 0 => Product(field_div(left, right), right) = left

\* field_mul_log and field_div_log stay among the logarithms 1..255 of nonzero
\* elements and never return 0, which polynomial_eval_lut and Chien's search
\* take for "no logarithm"; two of them still fit the table of powers
\* (field.h:138-154).
LogsStayLogs ==
    (left # 0 /\ right # 0) =>
        /\ field_mul_log(Log[left], Log[right]) \in 1 .. N
        /\ Exp[field_mul_log(Log[left], Log[right])] = Product(left, right)
        /\ field_div_log(Log[left], Log[right]) \in 1 .. N
        /\ Product(Exp[field_div_log(Log[left], Log[right])], right) = left

\* field_pow agrees with products for the powers Forney's formula takes, -1 for
\* a first root of 0 included (field.h:156-172, rs_decode.c:194).
PowIsProduct ==
    /\ left # 0 => Product(field_pow(left, -1), left) = 1
    /\ (left # 0 /\ right < N) => field_pow(left, right + 1) = Product(field_pow(left, right), left)
==============================================================================

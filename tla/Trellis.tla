------------------------------ MODULE Trellis ------------------------------
(***************************************************************************)
(* The code itself: the table of outputs of the shift register and the     *)
(* lookups of distances made of it (lookup.c), the encoder built on it     *)
(* (cv_encode.c), and the metrics that say how far a received symbol is    *)
(* from an output (metric.h).  The quadratic metric of metric.c is left    *)
(* out: nothing sets soft_measurement to it.                               *)
(*                                                                         *)
(* A register is a number with the newest bit lowest; an output is the     *)
(* tuple of its Rate bits, first sent first; a received symbol is a tuple  *)
(* of Rate numbers 0..SoftMax, where a hard decision is 0 or SoftMax.      *)
(***************************************************************************)
EXTENDS Integers, Sequences, FiniteSets, SequencesExt

CONSTANTS Order,         \* bits in the shift register
          Rate,          \* output bits for each input bit
          Poly,          \* Rate polynomials, as masks of the register
          SoftMax,       \* a received bit that is certainly 1
          DistanceMax    \* the largest distance_t

ASSUME TrellisAssumption ==
    /\ Order \in Nat /\ Order >= 4     \* the inner loop takes 8 states a time
    /\ Rate \in Nat /\ Rate >= 2
    /\ Poly \in [1 .. Rate -> 0 .. 2^Order - 1]
    /\ SoftMax \in Nat \ {0}
    /\ DistanceMax \in Nat \ {0}

Registers == 0 .. 2^Order - 1
Highbit   == 2^(Order - 1)
States    == 0 .. Highbit - 1
Outputs   == [1 .. Rate -> {0, 1}]

\* The sum of a sequence of numbers.
Total(f) ==
    LET sum[n \in 0 .. Len(f)] == IF n = 0 THEN 0 ELSE sum[n - 1] + f[n]
    IN  sum[Len(f)]

Capped(n) == IF n > DistanceMax THEN DistanceMax ELSE n
Gap(x, y) == IF x >= y THEN x - y ELSE y - x

-----------------------------------------------------------------------------
(* The table and the encoder.                                              *)

BitOf(x, k) == (x \div 2^k) % 2

\* popcount(x & y) % 2
Parity(x, y) ==
    Cardinality({k \in 0 .. Order - 1 : BitOf(x, k) = 1 /\ BitOf(y, k) = 1}) % 2

\* fill_table
Table == [r \in Registers |-> [j \in 1 .. Rate |-> Parity(r, Poly[j])]]

\* The register when bit k of `bits` (from 1) has been shifted in, from 0.
RegisterAt(bits, k) ==
    Total([b \in 1 .. Order |-> IF b <= k THEN bits[k + 1 - b] * 2^(b - 1) ELSE 0])

Zeros(n) == [k \in 1 .. n |-> 0]

\* The outputs for `bits` from an empty register.
Outs(bits) == [k \in 1 .. Len(bits) |-> Table[RegisterAt(bits, k)]]

\* correct_convolutional_encode: the message, then order+1 zeros.
Encode(message) == Outs(message \o Zeros(Order + 1))

-----------------------------------------------------------------------------
(* The lookups of distances by groups of registers: n = 2 in lookup.c, 8   *)
(* in sse/lookup.c.  A group's key is its place in the list of groups.     *)

\* The outputs of the registers n * g, ..., n * g + n-1.
Group(g, n) == [j \in 0 .. n - 1 |-> Table[n * g + j]]

\* Group g, if no group before it is the same.
IfNew(g, n) ==
    IF \E h \in 0 .. g - 1 : Group(h, n) = Group(g, n) THEN <<>> ELSE <<Group(g, n)>>

\* The distinct groups, in the order in which create meets them.
GroupOutputs(n) ==
    LET found[g \in 0 .. 2^Order \div n] ==
            IF g = 0 THEN <<>> ELSE found[g - 1] \o IfNew(g - 1, n)
    IN  found[2^Order \div n]

\* The key of each group.
GroupKeys(n, outputs) ==
    [g \in 0 .. 2^Order \div n - 1 |->
        CHOOSE k \in DOMAIN outputs : outputs[k] = Group(g, n)]

\* fill_distance, from the distances of the outputs of one slice.
FillDistance(outputs, dist) ==
    [k \in DOMAIN outputs |-> [j \in DOMAIN outputs[k] |-> dist[outputs[k][j]]]]

PairOutputs == GroupOutputs(2)
PairKeys    == GroupKeys(2, PairOutputs)

-----------------------------------------------------------------------------
(* The metrics.                                                            *)

HardDistance(output, symbol) ==
    Cardinality({j \in 1 .. Rate : output[j] * SoftMax # symbol[j]})

LinearDistance(output, symbol) ==
    Capped(Total([j \in 1 .. Rate |-> Gap(symbol[j], output[j] * SoftMax)]))

\* soft: the caller handed in soft decisions.
Distance(output, symbol, soft) ==
    IF soft THEN LinearDistance(output, symbol) ELSE HardDistance(output, symbol)
=============================================================================

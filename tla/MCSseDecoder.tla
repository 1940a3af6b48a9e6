---------------------------- MODULE MCSseDecoder ----------------------------
(***************************************************************************)
(* The code correct_conv_r12_6_polynomial with soft decisions of few       *)
(* levels, on blocks long enough for several renormalisations and group    *)
(* tracebacks in the inner loop.                                           *)
(***************************************************************************)
EXTENDS SseDecoder

\* Octal 73 and 61.
Poly6 == <<59, 49>>

\* A message of many turns, and the zeros of the tail.
Sent(n) == [k \in 1 .. n |-> IF k <= n - 5 /\ (k * k) % 7 \in {1, 2, 3} THEN 1 ELSE 0]

\* Every `clear`-th symbol is received as it was sent, `flipped` ones are
\* changed, the others are erased (half of SoftMax).
SoftBlock(n, clear, flipped) ==
    LET codeword == Outs(Sent(n))
        symbol(k, j) ==
            IF k \in flipped THEN SoftMax * (1 - codeword[k][j])
            ELSE IF clear # 0 /\ k % clear = 0 THEN SoftMax * codeword[k][j]
            ELSE SoftMax \div 2
    IN  [sent |-> Sent(n),
         symbols |-> [k \in 1 .. n |-> [j \in 1 .. Rate |-> symbol(k, j)]],
         soft |-> TRUE, flips |-> Rate * Cardinality(flipped)]

MCInputs ==
    { SoftBlock(45, 0, {}), SoftBlock(45, 1, {}), SoftBlock(45, 3, {}),
      SoftBlock(30, 1, {7, 12, 13, 20}), SoftBlock(30, 2, {9, 18}),
      SoftBlock(14, 1, {6}) }
=============================================================================

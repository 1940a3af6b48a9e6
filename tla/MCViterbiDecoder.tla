-------------------------- MODULE MCViterbiDecoder --------------------------
(***************************************************************************)
(* Instances of ViterbiDecoder: the code, the messages and the channel.    *)
(***************************************************************************)
EXTENDS ViterbiDecoder

\* A rate 1/2 code of order 4 (octal 15 and 17), free distance 6.
Poly4 == <<13, 15>>

\* What a hard channel delivers of `sent` when it changes the bits of `flips`,
\* given as <<slice, bit>>.
Received(sent, flips) ==
    LET codeword == Outs(sent)
    IN  [k \in 1 .. Len(sent) |->
            LET o == codeword[k]
            IN  [j \in 1 .. Rate |->
                    SoftMax * (IF <<k, j>> \in flips THEN 1 - o[j] ELSE o[j])]]

Block(sent, flips) ==
    [sent |-> sent, symbols |-> Received(sent, flips), soft |-> FALSE,
     flips |-> Cardinality(flips)]

Bits(sent) == (1 .. Len(sent)) \X (1 .. Rate)

\* Hard decisions on 4 bits and the three zeros of the register, under all
\* patterns of up to three changed bits.
Sent7 == <<1, 0, 1, 1, 0, 0, 0>>
HardNoise == {Block(Sent7, {a, b, c}) : a, b, c \in Bits(Sent7)}

\* Blocks of 9 slices with soft decisions: some bits are flipped, some erased
\* (half of SoftMax).
SoftBlock(sent, flips, erased) ==
    LET hard == Received(sent, flips)
    IN  [sent |-> sent,
         symbols |-> [k \in 1 .. Len(sent) |->
                         [j \in 1 .. Rate |-> IF <<k, j>> \in erased
                                               THEN SoftMax \div 2 ELSE hard[k][j]]],
         soft |-> TRUE, flips |-> Cardinality(flips \cup erased)]

Sent9 == { <<1, 0, 1, 1, 0, 1, 0, 0, 0>>, <<0, 1, 0, 0, 1, 1, 0, 0, 0>> }
SoftNoise ==
    UNION { { SoftBlock(sent, {}, {}),
              SoftBlock(sent, {<<4, 1>>}, {}),
              SoftBlock(sent, {<<2, 1>>, <<5, 2>>}, {<<7, 1>>}),
              SoftBlock(sent, {}, {<<k, 1>> : k \in 3 .. 6}),
              SoftBlock(sent, {<<6, 1>>, <<6, 2>>}, {<<5, 1>>, <<9, 2>>}) } :
            sent \in Sent9 }

\* Two longer ones, whose group tracebacks fall into the inner loop.
Sent12 == <<1, 1, 0, 1, 0, 0, 1, 1, 0, 0, 0, 0>>
SoftInputs ==
    SoftNoise \cup { SoftBlock(Sent12, {<<3, 2>>}, {<<8, 1>>}),
                     SoftBlock(Sent12, {<<4, 1>>, <<7, 2>>}, {}) }

\* One codec takes soft and hard decisions in turn.
MixedInputs == SoftInputs \cup {Block(Sent7, {}), Block(Sent7, {<<1, 1>>, <<5, 2>>})}

MCInputs == MixedInputs \cup HardNoise
=============================================================================

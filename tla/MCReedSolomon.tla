---------------------------- MODULE MCReedSolomon ----------------------------
(***************************************************************************)
(* ReedSolomon over GF(8): blocks of up to 7 symbols, 4 of them parity.    *)
(* The code is linear, so one message under all noise of a kind stands for *)
(* all messages.                                                           *)
(*                                                                         *)
(* Beside the codec stand the tables it rests on, at the real width: in    *)
(* every state but those of the codec a pair of bytes is looked at, in the *)
(* field of 0x187, one of the polynomials of correct.h.                    *)
(***************************************************************************)
EXTENDS ReedSolomonShim

VARIABLES left, right

Bytes8 == INSTANCE FieldPairs WITH Width <- 8, PrimitivePoly <- 391

\* No pair is looked at: the codec is.
AtCodec == left = 0 /\ right = 0

\* The pairs are looked at beside one of the new codecs.
MCInit ==
    /\ ShimInit
    /\ \/ AtCodec
       \/ Bytes8!PairInit /\ pad = Library /\ received[0] = 0

MCNext ==
    \/ /\ AtCodec
       /\ ShimNext
       /\ UNCHANGED <<left, right>>
    \/ /\ ~AtCodec
       /\ Bytes8!PairNext
       /\ UNCHANGED shimVars

MCSpec == MCInit /\ [][MCNext]_<<shimVars, left, right>>

\* The tables of field.h agree with the definition of the field: see FieldPairs.
MulAndDivAreInverse == Bytes8!MulAndDivAreInverse

\* Sums of logarithms stay logarithms: see FieldPairs.
LogsStayLogs == Bytes8!LogsStayLogs

\* Powers are products: see FieldPairs.
PowIsProduct == Bytes8!PowIsProduct

Block(n) == 1 .. n + MinDistance

Clean(n) == [k \in Block(n) |-> 0]

\* The message of n symbols under noise and erasures.
Sent(n, noise, erased) ==
    [message |-> SubSeq(<<5, 0, 3, 6>>, 1, n), noise |-> noise, erased |-> erased]

\* All patterns of up to two errors in a full block.
UpToTwoErrors ==
    {Sent(3, [Clean(3) EXCEPT ![j] = a, ![k] = b], <<>>) :
        j \in Block(3), k \in Block(3), a \in Elements, b \in Elements}

\* Three errors, in a full block and in one with a symbol of padding.
ThreeErrors ==
    {Sent(n, [Clean(n) EXCEPT ![1] = a, ![k] = b, ![6] = c], <<>>) :
        n \in {2, 3}, k \in 2 .. 5, a \in {1, 6}, b \in {1, 3, 4}, c \in {1, 2, 5, 7}}

\* Multiples of all factors of the generator but the last: three syndromes are
\* zero, and the first discrepancy makes a locator of order MinDistance.
ThreeZeroSyndromes ==
    LET factor == polynomial_from_roots(3, generator_roots)
    IN  {Sent(3, [k \in Block(3) |->
                     IF k - s \in 0 .. 3 THEN field_mul(a, factor[3 + s - k]) ELSE 0], <<>>) :
            s \in 1 .. 4, a \in {1, 5}}

BeyondTheBound == ThreeErrors \cup ThreeZeroSyndromes

\* Erasures at the front and at the end of full and of short blocks, right and
\* wrong bytes among them, with and without an error besides, as many as there
\* are parity symbols, more than that, and a message that is too long.
ErasuresAndErrors ==
    {Sent(n, [Clean(n) EXCEPT ![j] = 3, ![k] = a], erased) :
        n \in {1, 3}, j \in {1, 4}, k \in {2, 5}, a \in {0, 6},
        erased \in {<<>>, <<0>>, <<4, 0>>, <<1, 4>>, <<2, 3, 0>>, <<3, 0, 4, 1>>}}
    \cup {Sent(1, Clean(1), <<0, 1, 2, 3, 4>>), Sent(3, Clean(3), <<1, 4>>),
           Sent(4, Clean(4), <<>>)}

AllTransmissions == UpToTwoErrors \cup BeyondTheBound \cup ErasuresAndErrors

\* Blocks of 7 and of 5 symbols through the shim: an error besides erasures in
\* the message, the parity and the padding, more than the code corrects, and as
\* many erasures as it has parity.
MCShimTransmissions ==
    [pd \in Pads |->
        LET n == 3 - pd
        IN  {Sent(n, [Clean(n) EXCEPT ![1] = a, ![k] = b], ps) :
                k \in {2, 4}, a \in {0, 3}, b \in {1, 6},
                ps \in {<<>>, <<pd>>, <<1, pd>>, <<6, pd>>, <<pd, 3, 4>>, <<6, 5, 4, 3>>}}]
==============================================================================

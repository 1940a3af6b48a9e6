------------------------- MODULE ReedSolomonProofs -------------------------
(***************************************************************************)
(* Seven things about the Reed-Solomon codec for every field, code and    *)
(* channel.                                                                *)
(*                                                                         *)
(* ScratchStaysInBounds: the arrays of MinDistance + 1 coefficients and of *)
(* MinDistance places that the codec allocates once are long enough for    *)
(* every decode, also for blocks beyond what the code corrects. The heart  *)
(* is an equation of the Berlekamp-Massey loop that none of its comments   *)
(* states: the order of the last locator, the delay since and the taps of  *)
(* the register make round + 1 (LoopInv).                                  *)
(*                                                                         *)
(* LocatorDescribesSyndromes: the locator is a register that gives all     *)
(* syndromes seen so far. The invariant (RegisterInv) has to speak of the  *)
(* last locator, too: it gave all syndromes before the one at which it was *)
(* left, and missed that one by lastDiscrepancy. Then the correction of a  *)
(* round adds to every output the last locator's output, scaled.           *)
(*                                                                         *)
(* NoShorterRegister: the loop never keeps a tap too many. When it         *)
(* lengthens the register, a shorter one would have to agree with the      *)
(* locator on a syndrome that the locator misses (SharedOutput).           *)
(*                                                                         *)
(* EncodesCodeword: a block is the message's polynomial plus its remainder *)
(* modulo the generator. Both have the same value at the generator's roots *)
(* and the field has characteristic 2, so their sum vanishes there.        *)
(*                                                                         *)
(* SuccessIsCodeword: so is what a decode repairs. The locator, times that *)
(* of the erasures, is a register for the syndromes of what was received;  *)
(* each of its roots has a place and gets Forney's value (DecodeInv). This *)
(* takes a gap between the generator's roots that has an inverse modulo N  *)
(* (GapIsUnit): with another a root may have no place.                     *)
(*                                                                         *)
(* CorrectsWithinBound: the message comes back. Within the bound the loop's*)
(* syndromes are sums of powers of the places in error that no erasure     *)
(* tells of, and the shortest register for so many sums of so few powers   *)
(* is zero exactly at these places (LocatorIsOfUnknown): the search finds  *)
(* them all (SearchSucceeds). Then what is repaired and what was sent are  *)
(* codewords that differ in at most MinDistance places, and are one        *)
(* (RepairIsSent).                                                         *)
(*                                                                         *)
(* BlockDecodedInPlace: so it does in the block of the shim's caller.      *)
(***************************************************************************)
EXTENDS ReedSolomonShim, GaloisFieldProofs, SequenceTheorems

LoopInv ==
    /\ numErasures <= MinDistance
    /\ lastLocator.order \in Nat
    /\ numerrors \in Nat
    /\ delay \in Nat
    /\ round \in Nat
    /\ round <= MinDistance - numErasures
    /\ numerrors <= round
    /\ locator.order = numerrors
    /\ lastLocator.order + delay + numerrors = round + 1

IInv ==
    /\ numErasures \in Nat
    /\ phase = "received" => numErasures <= MinDistance
    /\ phase = "massey" => LoopInv
    /\ phase = "factorized" => FullOrder <= MinDistance

PadInv == pad \in Pads \cup {Library}

-----------------------------------------------------------------------------
\* The parity of a code is a number of bytes (reed-solomon.c:124-126).
LEMMA MinDistanceType == MinDistance \in Nat
  BY CodeAssumption

\* The bound follows from the equation (rs_decode.c:77-91, 111-116, 585).
LEMMA InvariantBounds ==
  ASSUME IInv
  PROVE  /\ InLoop => lastLocator.order + delay <= MinDistance /\ numerrors <= round
         /\ phase = "factorized" => FullOrder <= MinDistance
  BY MinDistanceType DEF IInv, LoopInv, InLoop

\* No decode is under way when a codec is created (rs_decode.c:261-394).
LEMMA InvariantInit == Init => IInv
  BY DEF Init, IInv, numErasures

\* An encode begins a transmission (rs_encode.c:3-34).
LEMMA InvariantEncode ==
  ASSUME NEW t, Len(t.erased) \in Nat, Encode(t) \/ EncodeTooLong(t)
  PROVE  IInv'
  BY DEF Encode, EncodeTooLong, IInv, numErasures

\* Steps that are in the loop neither before nor after.
LEMMA InvariantUnchanged == IInv /\ UNCHANGED vars => IInv'
  BY DEF IInv, vars, encoderVars, massey, places, results, LoopInv, numErasures, FullOrder

-----------------------------------------------------------------------------
\* The rounds of the loop keep the equation: a discrepancy of zero and a
\* correction add one to the delay, a longer register gets as many taps as the
\* last locator, shifted, has powers (rs_decode.c:55-118).
LEMMA RoundKeeps ==
  ASSUME IInv, NoDiscrepancy \/ Lengthen \/ Adjust
  PROVE  IInv'
<1> USE MinDistanceType
<1>1. InLoop /\ UNCHANGED <<phase, call>>
  BY DEF NoDiscrepancy, Lengthen, Adjust, UNCHANGEDbutMassey, encoderVars
<1>2. /\ phase = "massey" /\ phase' = "massey"
      /\ numErasures' = numErasures /\ numErasures \in Nat
  BY <1>1 DEF InLoop, IInv, numErasures
<1>3. LoopInv /\ round + 1 <= MinDistance - numErasures
  BY <1>1, <1>2 DEF IInv, InLoop, LoopInv
<1>4. LoopInv'
  <2>1. CASE NoDiscrepancy
    BY <1>2, <1>3, <2>1 DEF NoDiscrepancy, LoopInv
  <2>2. CASE Lengthen
    <3>1. /\ locator'.order = lastLocator.order + delay
          /\ lastLocator'.order = numerrors
      BY <1>3, <2>2 DEF Lengthen, LoopInv
    <3> QED BY <1>2, <1>3, <2>2, <3>1 DEF Lengthen, LoopInv
  <2>3. CASE Adjust
    <3>1. lastLocator.order + delay <= locator.order
      BY <1>3, <2>3 DEF Adjust, LoopInv
    <3>2. locator'.order = locator.order
      BY <1>3, <2>3, <3>1 DEF Adjust, LoopInv
    <3> QED BY <1>2, <1>3, <2>3, <3>2 DEF Adjust, LoopInv
  <2> QED BY <2>1, <2>2, <2>3
<1> QED BY <1>2, <1>4 DEF IInv

\* The stages around the loop: it starts with no taps, and what it leaves is
\* short enough for the erasures to come in front (rs_decode.c:42-53, 585).
LEMMA StageKeeps ==
  ASSUME IInv,
         TooManyErasures \/ Receive \/ NoErrors \/ FindSyndromes
           \/ Factorize \/ Locate \/ Correct
  PROVE  IInv'
<1> USE MinDistanceType
<1>1. UNCHANGED call
  BY DEF TooManyErasures, Receive, NoErrors, FindSyndromes, Factorize, Locate, Correct,
         encoderVars
<1>2. numErasures' = numErasures /\ numErasures \in Nat
  BY <1>1 DEF IInv, numErasures
<1>3. CASE TooManyErasures \/ NoErrors \/ Locate \/ Correct
  BY <1>2, <1>3 DEF IInv, TooManyErasures, NoErrors, Locate, Correct
<1>4. CASE Receive
  BY <1>2, <1>4 DEF IInv, Receive
<1>5. CASE FindSyndromes
  BY <1>2, <1>5 DEF IInv, FindSyndromes, LoopInv, One
<1>6. CASE Factorize
  <2>1. LoopInv /\ UNCHANGED locator
    BY <1>6 DEF IInv, Factorize, massey
  <2>2. FullOrder' <= MinDistance
    BY <1>2, <2>1 DEF LoopInv, FullOrder
  <2>3. phase' \in {"factorized", "done"}
    BY <1>6 DEF Factorize
  <2> QED BY <1>2, <2>2, <2>3 DEF IInv
<1> QED BY <1>3, <1>4, <1>5, <1>6

\* Every step of a decode.
LEMMA DecodeKeeps ==
  ASSUME IInv, DecodeStep
  PROVE  IInv'
  BY RoundKeeps, StageKeeps DEF DecodeStep

------------------------------------------------------------------------------
(* The register: what one correction does to all outputs.                  *)

\* What a register with the taps of C gives for syndrome k.
Output(C, S, L, k) ==
    FieldTotal([j \in 0 .. L |-> field_mul(C[j], S[k - j])], 0, L)

\* C has the order L at most.
Order(C, L) == \A j \in Coefficients : j > L => C[j] = 0

\* The correction of a round: B moved by m, times d over b.
IsCorrected(D, C, B, lB, m, d, b) ==
    /\ D \in [Coefficients -> Elements]
    /\ \A j \in Coefficients :
           D[j] = field_add(C[j], IF j \in m .. m + lB
                                  THEN field_div(field_mul(B[j - m], d), b) ELSE 0)

\* The sizes of the code; a field with room for parity has three elements or more.
LEMMA FieldSize == N >= 2 /\ N \in Nat /\ MinDistance \in Nat /\ MinDistance <= N - 1
                   /\ MinDistance >= 1
  BY CodeAssumption, Sizes

\* One output is made of elements.
LEMMA OutputTerms ==
    ASSUME NEW C \in [Coefficients -> Elements], NEW S \in [0 .. MinDistance - 1 -> Elements],
           NEW L \in Nat, NEW k \in Nat, L <= k, k < MinDistance
    PROVE  /\ Terms([j \in 0 .. L |-> field_mul(C[j], S[k - j])], L)
           /\ Output(C, S, L, k) \in Elements
<1> DEFINE f == [j \in 0 .. L |-> field_mul(C[j], S[k - j])]
<1>1. Terms(f, L)
  <2> SUFFICES ASSUME NEW j \in 0 .. L PROVE field_mul(C[j], S[k - j]) \in Elements
    BY DEF Terms
  <2>1. j \in Coefficients /\ k - j \in 0 .. MinDistance - 1
    BY FieldSize DEF Coefficients
  <2>2. C[j] \in Elements /\ S[k - j] \in Elements
    BY <2>1
  <2> QED BY <2>2, FieldSize, MulMonoid
<1>2. FieldTotal(f, 0, L) \in Elements
  <2> HIDE DEF f
  <2> QED BY <1>1, TotalType
<1> QED BY <1>1, <1>2 DEF Output

\* The output of the corrected register is that of the old one and, times the
\* ratio of the discrepancies, that of the last one m syndromes earlier.
LEMMA CorrectedOutput ==
    ASSUME NEW C \in [Coefficients -> Elements], NEW B \in [Coefficients -> Elements],
           NEW S \in [0 .. MinDistance - 1 -> Elements],
           NEW D, NEW L \in Nat, NEW lB \in Nat, NEW m \in Nat, NEW n \in Nat, NEW k \in Nat,
           NEW d \in Elements, NEW b \in 1 .. N,
           L <= n, m + lB <= n, n <= k, k < MinDistance,
           Order(C, L), IsCorrected(D, C, B, lB, m, d, b)
    PROVE  Output(D, S, n, k)
             = field_add(Output(C, S, L, k),
                         field_mul(field_div(d, b), Output(B, S, lB, k - m)))
<1> DEFINE q == field_div(d, b)
           f == [j \in 0 .. n |-> field_mul(C[j], S[k - j])]
           g == [j \in 0 .. n |-> IF j \in m .. m + lB THEN field_mul(B[j - m], S[k - j]) ELSE 0]
           h == [j \in 0 .. n |-> field_mul(D[j], S[k - j])]
           f0 == [j \in 0 .. L |-> field_mul(C[j], S[k - j])]
           g0 == [j \in 0 .. lB |-> field_mul(B[j], S[(k - m) - j])]
<1>0. /\ D \in [Coefficients -> Elements]
      /\ \A j \in Coefficients :
           D[j] = field_add(C[j], IF j \in m .. m + lB
                                  THEN field_div(field_mul(B[j - m], d), b) ELSE 0)
  BY DEF IsCorrected
<1>1. Terms(f0, L) /\ Terms(g0, lB) /\ Terms(f, n)
  <2>1. k - m \in Nat /\ lB <= k - m /\ k - m < MinDistance /\ L <= k
    BY FieldSize
  <2>2. Terms(f0, L) /\ Terms(f, n)
    BY <2>1, OutputTerms
  <2>3. Terms(g0, lB)
    <3> DEFINE kk == k - m
    <3> HIDE DEF kk
    <3>1. kk \in Nat /\ lB <= kk /\ kk < MinDistance
      BY <2>1 DEF kk
    <3>2. Terms([j \in 0 .. lB |-> field_mul(B[j], S[kk - j])], lB)
      BY <3>1, OutputTerms
    <3> QED BY <3>2 DEF kk
  <2> QED BY <2>2, <2>3
<1>2. b \in Elements /\ q \in Elements
  <2>1. b \in Elements
    BY FieldSize DEF Elements
  <2> QED BY <2>1, FieldSize, DivLaws
<1>3. MovedBy(f, n, 0, f0, L)
  <2> SUFFICES ASSUME NEW j \in 0 .. n
               PROVE  f[j] = IF j \in 0 .. 0 + L THEN f0[j - 0] ELSE 0
    BY DEF MovedBy
  <2>1. j \in Coefficients
    BY FieldSize DEF Coefficients
  <2>2. CASE j \in 0 .. L
    <3>1. j \in 0 .. 0 + L /\ j - 0 = j
      BY <2>2
    <3> QED BY <2>2, <3>1
  <2>3. CASE j \notin 0 .. L
    <3>1. j \notin 0 .. 0 + L /\ j > L
      BY <2>3
    <3>2. C[j] = 0
      BY <2>1, <3>1 DEF Order
    <3> QED BY <3>1, <3>2, FieldSize, MulMonoid
  <2> QED BY <2>2, <2>3
<1>4. MovedBy(g, n, m, g0, lB)
  <2> SUFFICES ASSUME NEW j \in 0 .. n
               PROVE  g[j] = IF j \in m .. m + lB THEN g0[j - m] ELSE 0
    BY DEF MovedBy
  <2>1. CASE j \in m .. m + lB
    <3>1. j - m \in 0 .. lB /\ (k - m) - (j - m) = k - j
      BY <2>1
    <3>2. g0[j - m] = field_mul(B[j - m], S[(k - m) - (j - m)])
      BY <3>1
    <3> QED BY <2>1, <3>1, <3>2
  <2>2. CASE j \notin m .. m + lB
    BY <2>2
  <2> QED BY <2>1, <2>2
<1>5. Terms(g, n)
  <2> HIDE DEF g, g0
  <2> QED BY <1>1, <1>4, TotalMoves
<1>6. ASSUME NEW j \in 0 .. n PROVE h[j] = field_add(f[j], field_mul(q, g[j]))
  <2> DEFINE c == C[j]
             s == S[k - j]
             e == IF j \in m .. m + lB THEN field_div(field_mul(B[j - m], d), b) ELSE 0
  <2>1. j \in Coefficients /\ k - j \in 0 .. MinDistance - 1
    BY FieldSize DEF Coefficients
  <2>2. c \in Elements /\ s \in Elements /\ D[j] = field_add(c, e)
    BY <2>1, <1>0
  <2>3. e \in Elements /\ field_mul(e, s) = field_mul(q, g[j])
    <3>1. CASE j \in m .. m + lB
      <4> DEFINE v == B[j - m]
      <4>1. j - m \in Coefficients
        BY <3>1, FieldSize DEF Coefficients
      <4>2. v \in Elements
        BY <4>1
      <4>3. e = field_div(field_mul(v, d), b) /\ g[j] = field_mul(v, s)
        BY <3>1
      <4> HIDE DEF v, s, e, g, q
      <4>4. field_div(field_mul(v, d), b) = field_mul(v, q)
        BY <4>2, FieldSize, DivLaws DEF q
      <4>5. /\ field_mul(v, q) \in Elements /\ field_mul(v, q) = field_mul(q, v)
            /\ field_mul(field_mul(q, v), s) = field_mul(q, field_mul(v, s))
        BY <4>2, <2>2, <1>2, FieldSize, MulMonoid
      <4> QED BY <4>3, <4>4, <4>5
    <3>2. CASE j \notin m .. m + lB
      <4>1. e = 0 /\ g[j] = 0
        BY <3>2
      <4> HIDE DEF e, s, g, q
      <4> QED BY <4>1, FieldSize, MulMonoid, ZeroInElements
    <3> QED BY <3>1, <3>2
  <2>4. h[j] = field_mul(field_add(c, e), s) /\ f[j] = field_mul(c, s)
    <3>1. h[j] = field_mul(D[j], s) /\ f[j] = field_mul(c, s)
      OBVIOUS
    <3> QED BY <3>1, <2>2
  <2> HIDE DEF c, s, e, h, f, g, q
  <2>5. field_mul(field_add(c, e), s) = field_add(field_mul(c, s), field_mul(e, s))
    <3>1. field_add(c, e) \in Elements
      BY <2>2, <2>3, AddGroup
    <3>2. /\ field_mul(field_add(c, e), s) = field_mul(s, field_add(c, e))
          /\ field_mul(c, s) = field_mul(s, c) /\ field_mul(e, s) = field_mul(s, e)
      BY <3>1, <2>2, <2>3, FieldSize, MulMonoid
    <3>3. field_mul(s, field_add(c, e)) = field_add(field_mul(s, c), field_mul(s, e))
      BY <2>2, <2>3, FieldSize, MulDistributes
    <3> QED BY <3>2, <3>3
  <2> QED BY <2>3, <2>4, <2>5
<1>7. /\ Output(D, S, n, k) = FieldTotal(h, 0, n)
      /\ Output(C, S, L, k) = FieldTotal(f0, 0, L)
      /\ Output(B, S, lB, k - m) = FieldTotal(g0, 0, lB)
  BY DEF Output
<1> HIDE DEF f, g, h, f0, g0, q
<1>8. FieldTotal(h, 0, n) = field_add(FieldTotal(f, 0, n), field_mul(q, FieldTotal(g, 0, n)))
  BY <1>1, <1>2, <1>5, <1>6, FieldSize, TotalAdds
<1>9. FieldTotal(f, 0, n) = FieldTotal(f0, 0, L) /\ FieldTotal(g, 0, n) = FieldTotal(g0, 0, lB)
  BY <1>1, <1>3, <1>4, TotalMoves
<1> QED BY <1>7, <1>8, <1>9 DEF q

\* The coefficients of a register, in an array of MinDistance + 1.
Taps == [Coefficients -> Elements]

\* The register gives the syndromes seen so far; the last one gave those before
\* the round in which it was left, and missed that one by lastDiscrepancy.
RegisterInv ==
    /\ syndromes \in [0 .. MinDistance - 1 -> Elements]
    /\ locator.coeff \in Taps /\ lastLocator.coeff \in Taps
    /\ locator.coeff[0] = 1
    /\ Order(locator.coeff, numerrors)
    /\ delay >= 1
    /\ lastDiscrepancy \in 1 .. N
    /\ \A k \in numerrors .. round - 1 :
           Output(locator.coeff, syndromes, numerrors, k) = 0
    /\ \A k \in lastLocator.order .. round - delay - 1 :
           Output(lastLocator.coeff, syndromes, lastLocator.order, k) = 0
    /\ round >= delay =>
           Output(lastLocator.coeff, syndromes, lastLocator.order, round - delay)
               = lastDiscrepancy

\* The counters of the loop in a round.
LEMMA LoopNumbers ==
    ASSUME IInv, InLoop
    PROVE  /\ LoopInv
           /\ numerrors \in Nat /\ round \in Nat /\ delay \in Nat /\ lastLocator.order \in Nat
           /\ round < MinDistance /\ numerrors <= round
           /\ locator.order = numerrors
           /\ lastLocator.order + delay + numerrors = round + 1
<1>1. LoopInv /\ numErasures \in Nat /\ round < MinDistance - numErasures
  BY DEF IInv, InLoop
<1> QED BY <1>1, FieldSize DEF LoopInv

\* The discrepancy is the output for the next syndrome.
LEMMA DiscrepancyIsOutput ==
    ASSUME IInv, InLoop, RegisterInv
    PROVE  /\ Discrepancy = Output(locator.coeff, syndromes, numerrors, round)
           /\ Discrepancy \in Elements
<1>1. numerrors \in Nat /\ round \in Nat /\ round < MinDistance /\ numerrors <= round
  BY LoopNumbers
<1> DEFINE C == locator.coeff
           f == [j \in 0 .. numerrors |-> field_mul(C[j], syndromes[round - j])]
           g == [j \in 0 .. numerrors |->
                   IF j = 0 THEN syndromes[round] ELSE field_mul(C[j], syndromes[round - j])]
<1>2. f = g
  <2> SUFFICES ASSUME NEW j \in 0 .. numerrors, j = 0
               PROVE  field_mul(C[j], syndromes[round - j]) = syndromes[round]
    OBVIOUS
  <2>1. C[j] = 1 /\ round - j = round /\ round \in 0 .. MinDistance - 1
    BY <1>1, FieldSize DEF RegisterInv
  <2>2. syndromes[round] \in Elements
    BY <2>1 DEF RegisterInv
  <2> QED BY <2>1, <2>2, FieldSize, MulMonoid
<1>3. Discrepancy = FieldTotal(g, 0, numerrors)
  BY DEF Discrepancy
<1>4. Output(C, syndromes, numerrors, round) = FieldTotal(f, 0, numerrors)
  BY DEF Output
<1>5. Output(C, syndromes, numerrors, round) \in Elements
  BY <1>1, OutputTerms DEF RegisterInv, Taps
<1> QED BY <1>2, <1>3, <1>4, <1>5

\* The correction of a round.
LEMMA CorrectedFacts ==
    ASSUME IInv, InLoop, RegisterInv
    PROVE  /\ IsCorrected(Corrected, locator.coeff, lastLocator.coeff, lastLocator.order,
                          delay, Discrepancy, lastDiscrepancy)
           /\ Corrected \in Taps
           /\ Corrected[0] = 1
           /\ \A n \in Nat : numerrors <= n /\ delay + lastLocator.order <= n => Order(Corrected, n)
<1> DEFINE C == locator.coeff
           B == lastLocator.coeff
           lB == lastLocator.order
           d == Discrepancy
           b == lastDiscrepancy
           e(k) == IF k \in delay .. delay + lB
                   THEN field_div(field_mul(B[k - delay], d), b) ELSE 0
<1>0. /\ numerrors \in Nat /\ round \in Nat /\ delay \in Nat /\ lB \in Nat /\ delay >= 1
      /\ round < MinDistance /\ lB + delay + numerrors = round + 1
  BY LoopNumbers DEF RegisterInv
<1>1. /\ C \in Taps /\ B \in Taps /\ C[0] = 1 /\ Order(C, numerrors) /\ b \in 1 .. N
      /\ d \in Elements
  BY DiscrepancyIsOutput DEF RegisterInv
<1>2. Corrected = [k \in Coefficients |-> field_add(C[k], e(k))]
  BY DEF Corrected, Shifted
<1> HIDE DEF C, B, lB, d, b
<1>3. \A k \in Coefficients : C[k] \in Elements /\ e(k) \in Elements
  <2> SUFFICES ASSUME NEW k \in Coefficients PROVE C[k] \in Elements /\ e(k) \in Elements
    OBVIOUS
  <2>1. CASE k \in delay .. delay + lB
    <3>1. k - delay \in Coefficients
      BY <2>1, <1>0, FieldSize DEF Coefficients
    <3>2. B[k - delay] \in Elements /\ b \in Elements
      BY <3>1, <1>1, FieldSize DEF Taps, Elements
    <3>3. field_mul(B[k - delay], d) \in Elements
      BY <3>2, <1>1, FieldSize, MulMonoid
    <3>4. field_div(field_mul(B[k - delay], d), b) \in Elements
      BY <3>2, <3>3, FieldSize, DivLaws
    <3> QED BY <3>4, <2>1, <1>1 DEF Taps
  <2>2. CASE k \notin delay .. delay + lB
    BY <2>2, <1>1, ZeroInElements DEF Taps
  <2> QED BY <2>1, <2>2
<1>4. Corrected \in Taps /\ \A k \in Coefficients : Corrected[k] = field_add(C[k], e(k))
  <2> HIDE DEF e
  <2>1. \A k \in Coefficients : field_add(C[k], e(k)) \in Elements
    BY <1>3, AddGroup
  <2> QED BY <2>1, <1>2 DEF Taps
<1>5. IsCorrected(Corrected, C, B, lB, delay, d, b)
  BY <1>4 DEF IsCorrected, Taps
<1>6. Corrected[0] = 1
  <2>1. 0 \in Coefficients /\ e(0) = 0
    BY <1>0, FieldSize DEF Coefficients
  <2> HIDE DEF e
  <2>2. field_add(1, 0) = 1
    BY AddGroup, ZeroInElements
  <2> QED BY <2>1, <2>2, <1>1, <1>4
<1>7. ASSUME NEW n \in Nat, numerrors <= n, delay + lB <= n PROVE Order(Corrected, n)
  <2> SUFFICES ASSUME NEW j \in Coefficients, j > n PROVE Corrected[j] = 0
    BY DEF Order
  <2>1. e(j) = 0 /\ j > numerrors
    BY <1>0, <1>7, FieldSize DEF Coefficients
  <2> HIDE DEF e
  <2>2. C[j] = 0 /\ Corrected[j] = field_add(C[j], e(j))
    BY <2>1, <1>1, <1>4 DEF Order
  <2> QED BY <2>1, <2>2, AddGroup, ZeroInElements
<1> QED BY <1>4, <1>5, <1>6, <1>7 DEF C, B, lB, d, b

\* With the correction the register of order n gives the next syndrome, too.
LEMMA CorrectedGives ==
    ASSUME IInv, InLoop, RegisterInv, NEW n \in Nat, numerrors <= n,
           delay + lastLocator.order <= n, NEW k \in n .. round
    PROVE  Output(Corrected, syndromes, n, k) = 0
<1> DEFINE C == locator.coeff
           B == lastLocator.coeff
           lB == lastLocator.order
           d == Discrepancy
           b == lastDiscrepancy
           S == syndromes
           L == numerrors
           m == delay
<1>0. /\ L \in Nat /\ round \in Nat /\ m \in Nat /\ lB \in Nat /\ m >= 1
      /\ round < MinDistance /\ lB + m + L = round + 1 /\ L <= round
  BY LoopNumbers DEF RegisterInv
<1>1. /\ C \in [Coefficients -> Elements] /\ B \in [Coefficients -> Elements]
      /\ S \in [0 .. MinDistance - 1 -> Elements] /\ Order(C, L) /\ b \in 1 .. N
      /\ \A i \in L .. round - 1 : Output(C, S, L, i) = 0
      /\ \A i \in lB .. round - m - 1 : Output(B, S, lB, i) = 0
      /\ round >= m => Output(B, S, lB, round - m) = b
  BY DEF RegisterInv, Taps
<1>2. d = Output(C, S, L, round) /\ d \in Elements
  BY DiscrepancyIsOutput
<1>3. IsCorrected(Corrected, C, B, lB, m, d, b)
  BY CorrectedFacts
<1>6. m + lB <= n /\ L <= n
  OBVIOUS
<1> HIDE DEF C, B, lB, d, b, S, L, m
<1>4. k \in Nat /\ n <= k /\ k < MinDistance /\ m + lB <= n
  BY <1>0, <1>6, FieldSize
<1>5. Output(Corrected, S, n, k)
        = field_add(Output(C, S, L, k), field_mul(field_div(d, b), Output(B, S, lB, k - m)))
  BY <1>0, <1>1, <1>2, <1>3, <1>4, <1>6, CorrectedOutput
<1>7. field_div(d, b) \in Elements
  <2>1. b \in Elements
    BY <1>1, FieldSize DEF Elements
  <2> QED BY <2>1, <1>2, FieldSize, DivLaws
<1>8. CASE k = round
  <2>1. round >= m /\ k - m = round - m
    BY <1>0, <1>4, <1>8
  <2>2. Output(B, S, lB, k - m) = b /\ Output(C, S, L, k) = d
    BY <2>1, <1>1, <1>2, <1>8
  <2>3. field_mul(field_div(d, b), b) = d
    BY <1>1, <1>2, FieldSize, DivLaws
  <2>4. field_add(d, d) = 0
    BY <1>2, AddGroup
  <2> QED BY <1>5, <2>2, <2>3, <2>4, <1>8 DEF S
<1>9. CASE k # round
  <2>1. k \in L .. round - 1 /\ k - m \in lB .. round - m - 1
    BY <1>0, <1>4, <1>6, <1>9
  <2>2. Output(C, S, L, k) = 0 /\ Output(B, S, lB, k - m) = 0
    BY <2>1, <1>1
  <2>3. field_mul(field_div(d, b), 0) = 0 /\ field_add(0, 0) = 0
    BY FieldSize, MulMonoid, AddGroup, ZeroInElements
  <2> QED BY <1>5, <2>2, <2>3 DEF S
<1> QED BY <1>8, <1>9

\* The rounds of the loop keep the register right (rs_decode.c:54-118).
LEMMA RegisterRound ==
    ASSUME IInv, RegisterInv, NoDiscrepancy \/ Lengthen \/ Adjust
    PROVE  RegisterInv'
<1> DEFINE C == locator.coeff
           B == lastLocator.coeff
           lB == lastLocator.order
           L == numerrors
<1>1. InLoop /\ syndromes' = syndromes
  BY DEF NoDiscrepancy, Lengthen, Adjust, InLoop, UNCHANGEDbutMassey
<1>2. /\ L \in Nat /\ round \in Nat /\ delay \in Nat /\ lB \in Nat /\ delay >= 1
      /\ round < MinDistance /\ locator.order = L
      /\ lB + delay + L = round + 1 /\ L <= round
  BY <1>1, LoopNumbers DEF RegisterInv
<1>3. Discrepancy \in Elements /\ Discrepancy = Output(C, syndromes, L, round)
  BY <1>1, DiscrepancyIsOutput
<1>4. /\ syndromes \in [0 .. MinDistance - 1 -> Elements]
      /\ C \in Taps /\ B \in Taps /\ C[0] = 1 /\ Order(C, L)
      /\ lastDiscrepancy \in 1 .. N
      /\ \A k \in L .. round - 1 : Output(C, syndromes, L, k) = 0
      /\ \A k \in lB .. round - delay - 1 : Output(B, syndromes, lB, k) = 0
      /\ round >= delay => Output(B, syndromes, lB, round - delay) = lastDiscrepancy
  BY DEF RegisterInv
<1>5. CASE NoDiscrepancy
  <2>1. /\ locator' = locator /\ lastLocator' = lastLocator /\ numerrors' = numerrors
        /\ lastDiscrepancy' = lastDiscrepancy /\ delay' = delay + 1 /\ round' = round + 1
        /\ Discrepancy = 0
    BY <1>5 DEF NoDiscrepancy
  <2>2. /\ round' - 1 = round /\ delay' >= 1 /\ round' - delay' = round - delay
        /\ (round' >= delay' <=> round >= delay)
    BY <2>1, <1>2
  <2>3. \A k \in L .. round : Output(C, syndromes, L, k) = 0
    <3> SUFFICES ASSUME NEW k \in L .. round PROVE Output(C, syndromes, L, k) = 0
      OBVIOUS
    <3>1. k = round \/ k \in L .. round - 1
      BY <1>2
    <3> HIDE DEF C, L
    <3> QED BY <3>1, <1>3, <1>4, <2>1
  <2> QED BY <2>1, <2>2, <2>3, <1>1, <1>4 DEF RegisterInv, Output, Order
<1>6. CASE Lengthen
  <2>1. /\ locator'.coeff = Corrected /\ lastLocator' = locator
        /\ numerrors' = round + 1 - L /\ lastDiscrepancy' = Discrepancy /\ Discrepancy # 0
        /\ delay' = 1 /\ round' = round + 1 /\ 2 * L <= round
    BY <1>6 DEF Lengthen
  <2> DEFINE n == round + 1 - L
  <2>2. n \in Nat /\ L <= n /\ delay + lB <= n /\ lastDiscrepancy' \in 1 .. N
    BY <1>2, <1>3, <2>1, FieldSize DEF Elements
  <2>3. Corrected \in Taps /\ Corrected[0] = 1 /\ Order(Corrected, n)
    <3> HIDE DEF n
    <3> QED BY <1>1, <2>2, CorrectedFacts
  <2>4. \A k \in n .. round : Output(Corrected, syndromes, n, k) = 0
    <3> HIDE DEF n
    <3> QED BY <1>1, <2>2, CorrectedGives
  <2>5. /\ round' - 1 = round /\ delay' >= 1 /\ round' - delay' = round
        /\ lastLocator'.order = L /\ lastLocator'.coeff = C
    BY <2>1, <1>2
  <2>6. \A k \in lastLocator'.order .. round' - delay' - 1 :
           Output(lastLocator'.coeff, syndromes', lastLocator'.order, k) = 0
    BY <1>1, <1>4, <2>5
  <2>7. Output(lastLocator'.coeff, syndromes', lastLocator'.order, round' - delay')
               = lastDiscrepancy'
    BY <1>1, <1>3, <2>1, <2>5
  <2>8. \A k \in numerrors' .. round' - 1 :
           Output(locator'.coeff, syndromes', numerrors', k) = 0
    BY <1>1, <2>1, <2>4, <2>5
  <2>10. locator'.coeff[0] = 1 /\ locator'.coeff \in Taps /\ Order(locator'.coeff, numerrors')
    BY <2>1, <2>3
  <2>11. lastLocator'.coeff \in Taps
    BY <2>5, <1>4
  <2>12. delay' >= 1 /\ lastDiscrepancy' \in 1 .. N /\ syndromes' \in [0 .. MinDistance - 1 -> Elements]
    BY <2>2, <2>5, <1>1, <1>4
  <2> QED BY <2>6, <2>7, <2>8, <2>10, <2>11, <2>12 DEF RegisterInv, Output, Order, Taps
<1>7. CASE Adjust
  <2>1. /\ locator'.coeff = Corrected /\ lastLocator' = lastLocator
        /\ numerrors' = L /\ lastDiscrepancy' = lastDiscrepancy
        /\ delay' = delay + 1 /\ round' = round + 1 /\ 2 * L > round
    BY <1>7 DEF Adjust
  <2>2. delay + lB <= L /\ L <= L
    BY <1>2, <2>1
  <2>3. Corrected \in Taps /\ Corrected[0] = 1 /\ Order(Corrected, L)
    BY <1>1, <1>2, <2>2, CorrectedFacts
  <2>4. \A k \in L .. round : Output(Corrected, syndromes, L, k) = 0
    BY <1>1, <1>2, <2>2, CorrectedGives
  <2>5. /\ round' - 1 = round /\ delay' >= 1 /\ round' - delay' = round - delay
        /\ (round' >= delay' <=> round >= delay)
    BY <2>1, <1>2
  <2> QED BY <2>1, <2>3, <2>4, <2>5, <1>1, <1>4 DEF RegisterInv, Output, Order, Taps
<1> QED BY <1>5, <1>6, <1>7

\* The property follows.
LEMMA RegisterDescribes ==
    ASSUME IInv, phase = "massey" => RegisterInv
    PROVE  LocatorDescribesSyndromes
<1> SUFFICES ASSUME phase = "massey" PROVE LocatorDescribesSyndromes
  BY DEF LocatorDescribesSyndromes
<1>1. RegisterInv /\ locator.order = numerrors /\ numerrors \in Nat
  BY DEF IInv, LoopInv
<1>2. \A k \in Coefficients : locator.coeff[k] # 0 => k <= locator.order
  <2> SUFFICES ASSUME NEW k \in Coefficients, ~ (k <= numerrors) PROVE locator.coeff[k] = 0
    BY <1>1
  <2>1. k > numerrors
    BY <1>1, FieldSize DEF Coefficients
  <2> QED BY <2>1, <1>1 DEF RegisterInv, Order
<1>3. /\ locator.coeff[0] = 1
      /\ \A k \in numerrors .. round - 1 :
           Output(locator.coeff, syndromes, numerrors, k) = 0
  BY <1>1 DEF RegisterInv
<1> QED BY <1>1, <1>2, <1>3 DEF LocatorDescribesSyndromes, Output

------------------------------------------------------------------------------
(* No shorter register gives the same.                                     *)

\* The terms of an output, times c.
Scaled(h, c, C, S, L, k) ==
    \A j \in 0 .. L : h[j] = field_mul(c, field_mul(C[j], S[k - j]))

\* Output as a row of the table of products.
LEMMA ScaledOutput ==
    ASSUME NEW C \in Taps, NEW S \in [0 .. MinDistance - 1 -> Elements], NEW L \in Nat,
           NEW k \in Nat, L <= k, k < MinDistance, NEW c \in Elements, NEW h,
           Scaled(h, c, C, S, L, k)
    PROVE  /\ Terms(h, L)
           /\ FieldTotal(h, 0, L) = field_mul(c, Output(C, S, L, k))
<1> DEFINE g == [j \in 0 .. L |-> field_mul(C[j], S[k - j])]
<1>1. Terms(g, L) /\ Output(C, S, L, k) = FieldTotal(g, 0, L)
  BY OutputTerms DEF Taps, Output
<1>2. \A j \in 0 .. L : h[j] = field_mul(c, g[j])
  BY DEF Scaled
<1> HIDE DEF g
<1> QED BY <1>1, <1>2, FieldSize, TotalScales

\* A register E that gives the syndromes up to n and a register C that gives those
\* before n: if the taps of both fit into n syndromes, C gives syndrome n, too.
\* The two sums are those of one table, by rows and by columns.
LEMMA SharedOutput ==
    ASSUME NEW C \in Taps, NEW E \in Taps, NEW S \in [0 .. MinDistance - 1 -> Elements],
           NEW L \in Nat, NEW l \in Nat, NEW n \in Nat, L + l <= n, n < MinDistance,
           E[0] = 1,
           \A k \in n - L .. n : Output(E, S, l, k) = 0,
           \A k \in n - l .. n - 1 : Output(C, S, L, k) = 0
    PROVE  Output(C, S, L, n) = 0
<1> DEFINE F == [p \in (0 .. L) \X (0 .. l) |->
                    field_mul(field_mul(C[p[1]], E[p[2]]), S[(n - p[1]) - p[2]])]
           Row == [i \in 0 .. L |-> field_mul(C[i], Output(E, S, l, n - i))]
           Column == [j \in 0 .. l |-> field_mul(E[j], Output(C, S, L, n - j))]
<1>1. ASSUME NEW i \in 0 .. L, NEW j \in 0 .. l
      PROVE  /\ F[<<i, j>>] \in Elements
             /\ F[<<i, j>>] = field_mul(C[i], field_mul(E[j], S[(n - i) - j]))
             /\ F[<<i, j>>] = field_mul(E[j], field_mul(C[i], S[(n - j) - i]))
             /\ C[i] \in Elements /\ E[j] \in Elements
  <2> DEFINE a == C[i]
             b == E[j]
             s == S[(n - i) - j]
  <2>1. i \in Coefficients /\ j \in Coefficients /\ (n - i) - j \in 0 .. MinDistance - 1
        /\ (n - i) - j = (n - j) - i
    BY FieldSize DEF Coefficients
  <2>2. a \in Elements /\ b \in Elements /\ s \in Elements
    BY <2>1 DEF Taps
  <2>3. F[<<i, j>>] = field_mul(field_mul(a, b), s) /\ s = S[(n - j) - i]
    BY <2>1
  <2> HIDE DEF a, b, s, F
  <2>4. /\ field_mul(a, b) \in Elements /\ field_mul(field_mul(a, b), s) \in Elements
        /\ field_mul(field_mul(a, b), s) = field_mul(a, field_mul(b, s))
        /\ field_mul(a, b) = field_mul(b, a)
        /\ field_mul(field_mul(b, a), s) = field_mul(b, field_mul(a, s))
    BY <2>2, FieldSize, MulMonoid
  <2>5. F[<<i, j>>] = field_mul(b, field_mul(a, s))
    BY <2>3, <2>4
  <2> QED BY <2>2, <2>3, <2>4, <2>5 DEF a, b, s
<1> HIDE DEF F
<1>2. Table(F, L, l)
  BY <1>1 DEF Table
<1>3. Rows(F, Row, L, l)
  <2> SUFFICES ASSUME NEW i \in 0 .. L
               PROVE  Row[i] = FieldTotal([j \in 0 .. l |-> F[<<i, j>>]], 0, l)
    BY DEF Rows
  <2> DEFINE k == n - i
             c == C[i]
             h == [j \in 0 .. l |-> F[<<i, j>>]]
  <2>1. k \in Nat /\ l <= k /\ k < MinDistance
    BY FieldSize
  <2>2. 0 \in 0 .. l
    OBVIOUS
  <2>3. c \in Elements
    BY <1>1, <2>2
  <2>4. Scaled(h, c, E, S, l, k)
    BY <1>1 DEF Scaled
  <2>5. Row[i] = field_mul(c, Output(E, S, l, k))
    OBVIOUS
  <2> HIDE DEF k, c, h, Row
  <2>6. FieldTotal(h, 0, l) = field_mul(c, Output(E, S, l, k))
    BY <2>1, <2>3, <2>4, ScaledOutput
  <2> QED BY <2>5, <2>6 DEF h
<1>4. Columns(F, Column, L, l)
  <2> SUFFICES ASSUME NEW j \in 0 .. l
               PROVE  Column[j] = FieldTotal([i \in 0 .. L |-> F[<<i, j>>]], 0, L)
    BY DEF Columns
  <2> DEFINE k == n - j
             c == E[j]
             h == [i \in 0 .. L |-> F[<<i, j>>]]
  <2>1. k \in Nat /\ L <= k /\ k < MinDistance
    BY FieldSize
  <2>2. 0 \in 0 .. L
    OBVIOUS
  <2>3. c \in Elements
    BY <1>1, <2>2
  <2>4. Scaled(h, c, C, S, L, k)
    BY <1>1 DEF Scaled
  <2>5. Column[j] = field_mul(c, Output(C, S, L, k))
    OBVIOUS
  <2> HIDE DEF k, c, h, Column
  <2>6. FieldTotal(h, 0, L) = field_mul(c, Output(C, S, L, k))
    BY <2>1, <2>3, <2>4, ScaledOutput
  <2> QED BY <2>5, <2>6 DEF h
<1>5. Terms(Column, l) /\ FieldTotal(Row, 0, L) = FieldTotal(Column, 0, l)
  <2> HIDE DEF Row, Column
  <2> QED BY <1>2, <1>3, <1>4, FieldSize, TotalExchange
<1>6. FieldTotal(Row, 0, L) = 0
  <2>1. \A i \in 0 .. L : Row[i] = 0
    <3> SUFFICES ASSUME NEW i \in 0 .. L PROVE field_mul(C[i], Output(E, S, l, n - i)) = 0
      OBVIOUS
    <3>1. n - i \in n - L .. n
      OBVIOUS
    <3>2. Output(E, S, l, n - i) = 0
      BY <3>1
    <3> QED BY <3>2, FieldSize, MulMonoid
  <2> HIDE DEF Row
  <2> QED BY <2>1, TotalOfZeros
<1> DEFINE only == [j \in 0 .. 0 |-> Column[0]]
<1>7. /\ Column[0] = Output(C, S, L, n)
      /\ \A j \in 1 .. l : Column[j] = 0
  <2>1. Column[0] = Output(C, S, L, n)
    <3>1. 0 \in 0 .. l /\ n - 0 = n /\ L <= n
      OBVIOUS
    <3>2. Column[0] = field_mul(1, Output(C, S, L, n))
      BY <3>1
    <3>3. Output(C, S, L, n) \in Elements
      BY <3>1, OutputTerms DEF Taps
    <3> QED BY <3>2, <3>3, FieldSize, MulMonoid
  <2>2. ASSUME NEW j \in 1 .. l PROVE Column[j] = 0
    <3>1. j \in 0 .. l /\ n - j \in n - l .. n - 1
      OBVIOUS
    <3>2. Output(C, S, L, n - j) = 0
      BY <3>1
    <3>3. Column[j] = field_mul(E[j], 0)
      BY <3>1, <3>2
    <3> QED BY <3>3, FieldSize, MulMonoid
  <2> QED BY <2>1, <2>2
<1>8. Terms(only, 0) /\ only[0] = Column[0] /\ 0 \in Nat
  BY <1>5 DEF Terms
<1>9. MovedBy(Column, l, 0, only, 0)
  <2> HIDE DEF Column
  <2> SUFFICES ASSUME NEW j \in 0 .. l
               PROVE  Column[j] = IF j \in 0 .. 0 + 0 THEN only[j - 0] ELSE 0
    BY DEF MovedBy
  <2>1. j = 0 \/ j \in 1 .. l
    OBVIOUS
  <2> QED BY <2>1, <1>7
<1>10. FieldTotal(Column, 0, l) = Column[0]
  <2> HIDE DEF Column, only
  <2>1. FieldTotal(Column, 0, l) = FieldTotal(only, 0, 0)
    BY <1>8, <1>9, TotalMoves
  <2> QED BY <2>1, <1>8, TotalOfOne
<1> QED BY <1>5, <1>6, <1>7, <1>10

\* No register with fewer taps gives the syndromes so far.
Shortest ==
    numerrors > 0 =>
        \A E \in Taps : E[0] = 1 =>
            \E k \in numerrors - 1 .. round - 1 : Output(E, syndromes, numerrors - 1, k) # 0

\* A round keeps the register as short as can be: when it is lengthened, a shorter
\* one would have to give the syndrome that the locator misses (rs_decode.c:69-101).
LEMMA ShortestRound ==
    ASSUME IInv, RegisterInv, Shortest, NoDiscrepancy \/ Lengthen \/ Adjust
    PROVE  Shortest'
<1> DEFINE C == locator.coeff
           L == numerrors
<1>1. InLoop /\ syndromes' = syndromes /\ round' = round + 1
  BY DEF NoDiscrepancy, Lengthen, Adjust, InLoop, UNCHANGEDbutMassey
<1>2. L \in Nat /\ round \in Nat /\ round < MinDistance /\ L <= round
  BY <1>1, LoopNumbers
<1>3. /\ syndromes \in [0 .. MinDistance - 1 -> Elements] /\ C \in Taps
      /\ \A k \in L .. round - 1 : Output(C, syndromes, L, k) = 0
      /\ Discrepancy = Output(C, syndromes, L, round)
  BY <1>1, DiscrepancyIsOutput DEF RegisterInv
<1>4. CASE NoDiscrepancy \/ Adjust
  <2>1. numerrors' = numerrors
    BY <1>4 DEF NoDiscrepancy, Adjust
  <2>2. \A k : k \in numerrors - 1 .. round - 1 => k \in numerrors - 1 .. round' - 1
    BY <1>1, <1>2
  <2> QED BY <1>1, <2>1, <2>2 DEF Shortest, Output
<1>5. CASE Lengthen
  <2> DEFINE l == round - L
  <2>1. /\ numerrors' = round + 1 - L /\ 2 * L <= round /\ Discrepancy # 0
    BY <1>5 DEF Lengthen
  <2>2. numerrors' - 1 = l /\ l \in Nat /\ L + l <= round /\ round' - 1 = round
        /\ round - L = l /\ round - l = L
    BY <1>1, <1>2, <2>1
  <2> HIDE DEF C, L, l
  <2>3. ASSUME NEW E \in Taps, E[0] = 1
        PROVE  \E k \in l .. round : Output(E, syndromes, l, k) # 0
    <3> SUFFICES ASSUME \A k \in round - L .. round : Output(E, syndromes, l, k) = 0
                 PROVE  FALSE
      BY <2>2
    <3>1. \A k \in round - l .. round - 1 : Output(C, syndromes, L, k) = 0
      BY <1>3, <2>2
    <3>2. \A k \in round - L .. round : Output(E, syndromes, l, k) = 0
      OBVIOUS
    <3>3. /\ L \in Nat /\ l \in Nat /\ round \in Nat /\ round < MinDistance
          /\ L + l <= round
      BY <1>2, <2>2
    <3>4. C \in Taps /\ syndromes \in [0 .. MinDistance - 1 -> Elements]
      BY <1>3
    <3>5. Output(C, syndromes, L, round) = 0
      BY <2>3, <3>1, <3>2, <3>3, <3>4, SharedOutput, SMTT(30)
    <3> QED BY <3>5, <1>3, <2>1
  <2>4. \A E \in Taps : E[0] = 1 =>
            \E k \in numerrors' - 1 .. round' - 1 : Output(E, syndromes', numerrors' - 1, k) # 0
    BY <2>2, <2>3, <1>1
  <2> QED BY <2>4 DEF Shortest, Output
<1> QED BY <1>4, <1>5

------------------------------------------------------------------------------
(* Types of what the stages compute.                                       *)

\* The roots of the generator and its coefficients are elements.
LEMMA GeneratorTypes ==
    /\ generator_roots \in [0 .. MinDistance - 1 -> Elements]
    /\ generator \in [Coefficients -> Elements]
    /\ \A k \in 0 .. MinDistance - 1 : Terms(generator_root_exp[k], N - 1)
    /\ \A x \in Elements : Terms(element_exp[x], MinDistance - 1)
<1>1. \A k \in 0 .. MinDistance - 1 : Exp[(RootGap * (k + FirstRoot)) % N] \in Elements
  <2> SUFFICES ASSUME NEW k \in 0 .. MinDistance - 1
               PROVE  Exp[(RootGap * (k + FirstRoot)) % N] \in Elements
    OBVIOUS
  <2> DEFINE e == RootGap * (k + FirstRoot)
  <2>1. RootGap \in Int /\ k + FirstRoot \in Int
    BY CodeAssumption, FieldSize DEF Elements
  <2>2. e \in Int
    BY <2>1
  <2> HIDE DEF e
  <2>3. e % N \in 0 .. 2 * N + 1
    BY <2>2, FieldSize
  <2> QED BY <2>3, FieldSize, PowersAreElements DEF e
<1>2. generator_roots \in [0 .. MinDistance - 1 -> Elements]
  BY <1>1 DEF generator_roots
<1>3. generator \in [Coefficients -> Elements]
  <2>1. Terms(generator_roots, MinDistance - 1)
    BY <1>2 DEF Terms
  <2> QED BY <2>1, FieldSize, FromRoots DEF generator, Coefficients
<1>4. ASSUME NEW k \in 0 .. MinDistance - 1 PROVE Terms(generator_root_exp[k], N - 1)
  <2>1. generator_roots[k] \in Elements /\ N - 1 \in Nat
    BY <1>2, FieldSize
  <2>2. polynomial_build_exp_lut(generator_roots[k], N - 1) \in [0 .. N - 1 -> Elements]
    BY <2>1, FieldSize, ExpLut
  <2>3. generator_root_exp[k] = polynomial_build_exp_lut(generator_roots[k], N - 1)
    BY DEF generator_root_exp
  <2> QED BY <2>2, <2>3 DEF Terms
<1>5. ASSUME NEW x \in Elements PROVE Terms(element_exp[x], MinDistance - 1)
  <2>1. MinDistance - 1 \in Nat
    BY FieldSize
  <2>2. polynomial_build_exp_lut(x, MinDistance - 1) \in [0 .. MinDistance - 1 -> Elements]
    BY <2>1, FieldSize, ExpLut
  <2>3. element_exp[x] = polynomial_build_exp_lut(x, MinDistance - 1)
    BY DEF element_exp
  <2> QED BY <2>2, <2>3 DEF Terms
<1> QED BY <1>2, <1>3, <1>4, <1>5

\* What encode writes is a block of elements (rs_encode.c:3-34).
LEMMA EncodedTypes ==
    ASSUME NEW m \in Seq(Elements), Len(m) <= message_length
    PROVE  /\ Encoded(m) \in Seq(Elements)
           /\ Len(Encoded(m)) = Len(m) + MinDistance
           /\ Len(m) + MinDistance \in 0 .. N
           /\ Remainder(m) \in [0 .. N - 1 -> Elements]
<1> DEFINE len == Len(m)
<1>1. /\ len \in Nat /\ \A k \in 1 .. len : m[k] \in Elements
      /\ len + MinDistance \in 0 .. N /\ len + MinDistance \in Nat
  BY FieldSize DEF message_length
<1>2. EncodedPolynomial(m) \in [0 .. N - 1 -> Elements]
  <2> DEFINE padding == message_length - len
  <2> SUFFICES ASSUME NEW k \in 0 .. N - 1, k \in MinDistance .. N - 1 - padding
               PROVE  m[N - padding - k] \in Elements
    BY ZeroInElements DEF EncodedPolynomial
  <2>1. N - padding - k \in 1 .. len
    BY <1>1, FieldSize DEF message_length
  <2> QED BY <2>1, <1>1
<1>3. Remainder(m) \in [0 .. N - 1 -> Elements]
  <2> DEFINE n == N - 1
             p == EncodedPolynomial(m)
  <2>1. n \in Nat /\ MinDistance <= n + 1 /\ MinDistance \in Nat /\ N >= 2
    BY FieldSize
  <2>2. p \in [0 .. n -> Elements] /\ Terms(generator, MinDistance)
    BY <1>2, GeneratorTypes DEF Terms, Coefficients
  <2> HIDE DEF n, p
  <2>3. polynomial_mod(p, n, generator, MinDistance) \in [0 .. n -> Elements]
    BY <2>1, <2>2, ModType
  <2> QED BY <2>3 DEF n, p, Remainder
<1>4. ASSUME NEW k \in 1 .. len + MinDistance
      PROVE  (IF k <= len THEN m[k] ELSE Remainder(m)[MinDistance + len - k]) \in Elements
  <2>1. CASE k <= len
    BY <1>1, <2>1
  <2>2. CASE ~(k <= len)
    <3>1. MinDistance + len - k \in 0 .. N - 1
      BY <1>1, <2>2, FieldSize
    <3> QED BY <2>2, <3>1, <1>3
  <2> QED BY <2>1, <2>2
<1>5. Encoded(m) \in [1 .. len + MinDistance -> Elements]
  BY <1>4 DEF Encoded
<1>6. Encoded(m) \in Seq(Elements) /\ Len(Encoded(m)) = len + MinDistance
  BY <1>1, <1>5
<1> QED BY <1>1, <1>3, <1>6

\* The generator leads with 1 and vanishes at its roots, none of which is 0
\* (reed-solomon.c:5-12).
LEMMA GeneratorVanishes ==
    /\ Terms(generator, MinDistance)
    /\ generator[MinDistance] = 1
    /\ \A k \in 0 .. MinDistance - 1 :
           /\ generator_roots[k] \in 1 .. N
           /\ ValueAt(generator, MinDistance, generator_roots[k]) = 0
<1>1. ASSUME NEW k \in 0 .. MinDistance - 1 PROVE generator_roots[k] \in 1 .. N
  <2> DEFINE e == RootGap * (k + FirstRoot)
  <2>1. RootGap \in Nat /\ k + FirstRoot \in Nat
    BY CodeAssumption, FieldSize DEF Elements
  <2>2. e \in Nat
    BY <2>1
  <2>3. generator_roots[k] = Exp[e % N]
    BY DEF generator_roots
  <2> HIDE DEF e
  <2> QED BY <2>2, <2>3, FieldSize, PowerOfExponent
<1>2. Terms(generator_roots, MinDistance - 1) /\ MinDistance >= 1
  BY GeneratorTypes, CodeAssumption DEF Terms
<1> DEFINE p == polynomial_from_roots(MinDistance, generator_roots)
<1>3. /\ p \in [0 .. MinDistance -> Elements]
      /\ p[MinDistance] = 1
      /\ \A j \in 0 .. MinDistance - 1 :
             generator_roots[j] # 0 => ValueAt(p, MinDistance, generator_roots[j]) = 0
  BY <1>2, FieldSize, FromRootsVanishes
<1>4. generator = p
  BY DEF generator
<1> HIDE DEF p
<1> QED BY <1>1, <1>3, <1>4 DEF Terms

\* What encode writes is the message followed by its remainder, and vanishes at
\* every root of the generator (rs_encode.c:8-31).
LEMMA EncodedVanishes ==
    ASSUME NEW m \in Seq(Elements), Len(m) <= message_length
    PROVE  /\ SubSeq(Encoded(m), 1, Len(m)) = m
           /\ IsCodeword(BlockPolynomial(Encoded(m)))
<1> DEFINE len == Len(m)
           t == len + MinDistance
           b == BlockPolynomial(Encoded(m))
           E == EncodedPolynomial(m)
           R == Remainder(m)
           n == N - 1
<1>0. len \in Nat /\ n \in Nat /\ t \in 0 .. N /\ len <= N - MinDistance /\ N \in Nat /\ n + 1 = N
      /\ \A k \in 1 .. len : m[k] \in Elements
  BY FieldSize DEF message_length
<1>1. Encoded(m) \in Seq(Elements) /\ Len(Encoded(m)) = t /\ R \in [0 .. n -> Elements]
  BY EncodedTypes
<1>2. \A k \in 1 .. t : Encoded(m)[k] = IF k <= len THEN m[k] ELSE R[t - k]
  <2> SUFFICES ASSUME NEW k \in 1 .. t
               PROVE  Encoded(m)[k] = IF k <= len THEN m[k] ELSE R[t - k]
    OBVIOUS
  <2>1. MinDistance + len - k = t - k
    BY <1>0, FieldSize
  <2> QED BY <2>1, FieldSize DEF Encoded
<1>3. SubSeq(Encoded(m), 1, len) = m
  <2> DEFINE e == Encoded(m)
  <2>1. \A k \in 1 .. len : e[k] = m[k]
    BY <1>0, <1>2, FieldSize
  <2>2. e \in Seq(Elements) /\ Len(e) = t /\ len <= t
    BY <1>0, <1>1, FieldSize
  <2> HIDE DEF e
  <2>3. SubSeq(e, 1, len) \in Seq(Elements) /\ Len(SubSeq(e, 1, len)) = len
        /\ \A k \in 1 .. len : SubSeq(e, 1, len)[k] = e[k]
    BY <1>0, <2>2
  <2>4. \A k \in 1 .. len : SubSeq(e, 1, len)[k] = m[k]
    BY <2>1, <2>3
  <2> HIDE DEF t
  <2>5. SubSeq(e, 1, len) = m
    BY <2>3, <2>4
  <2> QED BY <2>5 DEF e
<1>4. \A k \in 0 .. n : E[k] = IF k \in MinDistance .. t - 1 THEN m[t - k] ELSE 0
  <2> SUFFICES ASSUME NEW k \in 0 .. n
               PROVE  E[k] = IF k \in MinDistance .. t - 1 THEN m[t - k] ELSE 0
    OBVIOUS
  <2>1. N - 1 - (message_length - len) = t - 1 /\ N - (message_length - len) - k = t - k
    BY <1>0, FieldSize DEF message_length
  <2> QED BY <2>1 DEF EncodedPolynomial
<1>5. \A k \in 0 .. n : b[k] = IF k < t THEN Encoded(m)[t - k] ELSE 0
  BY <1>1 DEF BlockPolynomial
<1> HIDE DEF b, E, n
<1>6. E \in [0 .. n -> Elements]
  <2>1. \A k \in 0 .. n : E[k] \in Elements
    <3> SUFFICES ASSUME NEW k \in 0 .. n PROVE E[k] \in Elements
      OBVIOUS
    <3>1. k \in MinDistance .. t - 1 => t - k \in 1 .. len
      BY <1>0, FieldSize
    <3> QED BY <1>0, <1>4, <3>1, ZeroInElements
  <2>2. E = [k \in 0 .. n |-> E[k]]
    BY DEF E, n, EncodedPolynomial
  <2> QED BY <2>1, <2>2
<1>7. /\ \A k \in MinDistance .. n : R[k] = 0
      /\ \A x \in 1 .. N : ValueAt(generator, MinDistance, x) = 0
            => ValueAt(R, n, x) = ValueAt(E, n, x)
  <2>1. MinDistance <= n + 1 /\ MinDistance \in Nat /\ n \in Nat
    BY <1>0, FieldSize
  <2>2. R = polynomial_mod(E, n, generator, MinDistance)
    BY DEF Remainder, E, n
  <2>3. Terms(generator, MinDistance) /\ generator[MinDistance] = 1
    BY GeneratorVanishes
  <2> DEFINE g == generator
             d == MinDistance
  <2>4. /\ N >= 2 /\ n \in Nat /\ d \in Nat /\ d <= n + 1 /\ Terms(g, d) /\ g[d] = 1
        /\ E \in [0 .. n -> Elements] /\ R = polynomial_mod(E, n, g, d)
    BY <1>6, <2>1, <2>2, <2>3, FieldSize
  <2> HIDE DEF R, g, d
  <2>5. /\ \A k \in d .. n : R[k] = 0
        /\ \A x \in 1 .. N : ValueAt(g, d, x) = 0 => ValueAt(R, n, x) = ValueAt(E, n, x)
    BY <2>4, ModKeeps
  <2> QED BY <2>5 DEF g, d
<1> HIDE DEF R
<1>8. \A k \in 0 .. n : b[k] = field_add(E[k], field_mul(1, R[k]))
  <2> SUFFICES ASSUME NEW k \in 0 .. n PROVE b[k] = field_add(E[k], field_mul(1, R[k]))
    OBVIOUS
  <2>0. E[k] \in Elements /\ R[k] \in Elements
    BY <1>1, <1>6
  <2>1. field_mul(1, R[k]) = R[k]
    BY <2>0, FieldSize, MulMonoid
  <2>2. CASE k < MinDistance
    <3>1. E[k] = 0
      BY <1>4, <2>2, FieldSize
    <3>2. t - k \in 1 .. t /\ ~ (t - k <= len) /\ t - (t - k) = k /\ k < t
      BY <1>0, <2>2, FieldSize
    <3>3. b[k] = R[k]
      <4> HIDE DEF t
      <4> QED BY <1>2, <1>5, <3>2
    <3> QED BY <2>0, <2>1, <3>1, <3>3, AddGroup
  <2>3. CASE k \in MinDistance .. t - 1
    <3>1. t - k \in 1 .. t /\ t - k <= len /\ k < t /\ k \in MinDistance .. n
      BY <1>0, <2>3, FieldSize DEF n
    <3>2. b[k] = m[t - k] /\ E[k] = m[t - k] /\ R[k] = 0
      <4> HIDE DEF t
      <4> QED BY <1>2, <1>4, <1>5, <1>7, <2>3, <3>1
    <3> QED BY <2>0, <2>1, <3>2, AddGroup
  <2>4. CASE k \in t .. n
    <3>1. k \in MinDistance .. n /\ ~ (k < t) /\ k \notin MinDistance .. t - 1
      BY <1>0, <2>4, FieldSize
    <3>2. b[k] = 0 /\ E[k] = 0 /\ R[k] = 0
      <4> HIDE DEF t
      <4> QED BY <1>4, <1>5, <1>7, <3>1
    <3> QED BY <2>0, <2>1, <3>2, AddGroup
  <2> QED BY <1>0, <2>2, <2>3, <2>4, FieldSize
<1>9. ASSUME NEW k \in 0 .. MinDistance - 1 PROVE Value(b, generator_roots[k]) = 0
  <2> DEFINE x == generator_roots[k]
             v == ValueAt(E, n, x)
  <2>1. x \in 1 .. N /\ ValueAt(generator, MinDistance, x) = 0
    BY GeneratorVanishes
  <2> HIDE DEF x
  <2>2. Terms(E, n) /\ Terms(R, n) /\ 1 \in Elements /\ n \in Nat /\ N >= 2
    BY <1>0, <1>1, <1>6, ZeroInElements, FieldSize DEF Terms
  <2>3. ValueAt(R, n, x) = v
    BY <1>7, <2>1
  <2>4. ValueAt(b, n, x) = field_add(ValueAt(E, n, x), field_mul(1, ValueAt(R, n, x)))
    <3> HIDE DEF b, E, R, n
    <3> QED BY <1>8, <2>1, <2>2, ValueAdds
  <2>5. v \in Elements
    BY <2>1, <2>2, ValueType
  <2> HIDE DEF v
  <2>6. ValueAt(b, n, x) = 0
    BY <2>2, <2>3, <2>4, <2>5, MulMonoid, AddGroup DEF v
  <2>7. Value(b, x) = ValueAt(b, n, x)
    BY DEF Value, ValueAt, Powers, n
  <2> QED BY <2>6, <2>7 DEF x
<1>10. IsCodeword(b)
  BY <1>9 DEF IsCodeword
<1> QED BY <1>3, <1>10 DEF b

\* The syndromes of a block of elements (rs_decode.c:20-35).
LEMMA SyndromeTypes ==
    ASSUME NEW poly, Terms(poly, N - 1)
    PROVE  Syndromes(poly) \in [0 .. MinDistance - 1 -> Elements]
<1> SUFFICES ASSUME NEW k \in 0 .. MinDistance - 1
             PROVE  polynomial_eval_lut(poly, N - 1, generator_root_exp[k]) \in Elements
  BY DEF Syndromes
<1>1. N - 1 \in Nat /\ Terms(generator_root_exp[k], N - 1)
  BY FieldSize, GeneratorTypes
<1> QED BY <1>1, FieldSize, EvalType

\* The same without the erasures (rs_decode.c:249-259, 545-556).
LEMMA ModifiedTypes ==
    ASSUME NEW synd \in [0 .. MinDistance - 1 -> Elements], NEW loc,
           numErasures \in Nat, Terms(loc, numErasures)
    PROVE  WithoutErasures(synd, loc) \in [0 .. MinDistance - 1 -> Elements]
<1> DEFINE n == MinDistance - 1
           modified == polynomial_mul(loc, numErasures, synd, n, n)
<1>1. n \in Nat /\ Terms(synd, n)
  BY FieldSize DEF Terms
<1>2. modified \in [0 .. n -> Elements]
  <2> HIDE DEF n
  <2> QED BY <1>1, FieldSize, MulType
<1>3. WithoutErasures(synd, loc)
        = [k \in 0 .. n |-> IF k + numErasures < MinDistance THEN modified[k + numErasures]
                            ELSE synd[k]]
  BY DEF WithoutErasures
<1> HIDE DEF modified
<1>4. \A k \in 0 .. n : k + numErasures < MinDistance => k + numErasures \in 0 .. n
  BY FieldSize
<1> QED BY <1>1, <1>2, <1>3, <1>4

\* Their locator, from locations within the field (rs_decode.c:524-531).
LEMMA ErasureTypes ==
    ASSUME NEW locs \in [0 .. MinDistance - 1 -> Elements],
           NEW old \in [0 .. MinDistance + N - 1 -> Elements],
           numErasures \in 1 .. MinDistance
    PROVE  /\ ErasureRoots(old, locs) \in [0 .. MinDistance + N - 1 -> Elements]
           /\ polynomial_from_roots(numErasures, ErasureRoots(old, locs))
                \in [0 .. numErasures -> Elements]
<1> DEFINE rs == ErasureRoots(old, locs)
<1>1. rs \in [0 .. MinDistance + N - 1 -> Elements]
  <2> SUFFICES ASSUME NEW k \in 0 .. MinDistance + N - 1, k < numErasures
               PROVE  field_div(1, field_pow(Exp[locs[k]], RootGap)) \in Elements
    BY DEF ErasureRoots
  <2>1. k \in 0 .. MinDistance - 1
    BY FieldSize
  <2>2. locs[k] \in 0 .. 2 * N + 1
    BY <2>1, FieldSize DEF Elements
  <2>3. RootGap \in Int
    BY FieldSize, CodeAssumption DEF Elements
  <2>4. Exp[locs[k]] \in Elements
    BY <2>2, FieldSize, PowersAreElements
  <2>5. field_pow(Exp[locs[k]], RootGap) \in Elements
    BY <2>3, <2>4, FieldSize, PowType
  <2> QED BY <2>5, FieldSize, DivLaws, ZeroInElements
<1>2. Terms(rs, numErasures - 1) /\ numErasures \in Nat /\ numErasures >= 1
  <2> HIDE DEF rs
  <2>1. \A k \in 0 .. numErasures - 1 : k \in 0 .. MinDistance + N - 1
    BY FieldSize
  <2> QED BY <1>1, <2>1 DEF Terms
<1> HIDE DEF rs
<1>3. polynomial_from_roots(numErasures, rs) \in [0 .. numErasures -> Elements]
  BY <1>2, FieldSize, FromRoots
<1> QED BY <1>1, <1>3 DEF rs

\* A transmission, its block, and the room for its errors.
BlockInv ==
    /\ call \in TransmissionRecords
    /\ phase \in {"encoded", "received", "massey", "factorized", "located"} =>
           /\ Len(encoded) = Len(call.message) + MinDistance
           /\ Len(encoded) <= N
           /\ Len(call.noise) = Len(encoded)
    /\ phase = "located" => FullOrder <= MinDistance

\* The register of the loop describes the syndromes, with no tap too many.
MasseyInv == phase = "massey" => RegisterInv /\ Shortest

\* The inductive invariant.
TypeInv == TypeOK /\ BlockInv /\ IInv /\ MasseyInv

-----------------------------------------------------------------------------
\* Among finitely many numbers there is one with r smaller ones.
LEMMA NthElement ==
    ASSUME NEW S \in SUBSET Nat, IsFiniteSet(S), NEW r \in Nat, r < Cardinality(S)
    PROVE  \E x \in S : Cardinality({y \in S : y < x}) = r
<1> DEFINE Below(x) == {y \in S : y < x}
           T == {n \in Nat : n < Cardinality(S) => \E x \in S : Cardinality(Below(x)) = n}
<1>1. 0 \in T
  <2> SUFFICES ASSUME 0 < Cardinality(S) PROVE \E x \in S : Cardinality(Below(x)) = 0
    OBVIOUS
  <2>1. S # {}
    BY FS_EmptySet
  <2>2. PICK x \in S : \A y \in S : x <= y
    BY <2>1, LeastNatural
  <2>3. Below(x) = {}
    <3>1. \A y \in S : y \in Nat /\ x \in Nat /\ x <= y
      BY <2>2
    <3>2. \A y \in S : ~(y < x)
      BY <3>1
    <3> QED BY <3>2
  <2> QED BY <2>2, <2>3, FS_EmptySet
<1>2. ASSUME NEW n \in Nat, n \in T PROVE n + 1 \in T
  <2> SUFFICES ASSUME n + 1 < Cardinality(S) PROVE \E x \in S : Cardinality(Below(x)) = n + 1
    OBVIOUS
  <2>1. Cardinality(S) \in Nat
    BY FS_CardinalityType
  <2>2. PICK x \in S : Cardinality(Below(x)) = n
    BY <2>1, <1>2
  <2> DEFINE A == Below(x) \cup {x}
             R == S \ A
  <2>3. IsFiniteSet(Below(x)) /\ x \notin Below(x) /\ A \subseteq S
    BY <2>2, FS_Subset
  <2>4. IsFiniteSet(A) /\ Cardinality(A) = n + 1
    BY <2>2, <2>3, FS_AddElement
  <2>5. R # {}
    BY <2>3, <2>4
  <2>6. PICK z \in R : \A y \in R : z <= y
    BY <2>5, LeastNatural
  <2>7. Below(z) = A
    <3>1. /\ z \in S /\ z \in Nat /\ x \in Nat /\ z # x /\ ~(z < x)
          /\ \A y \in S : y \in Nat
      BY <2>6
    <3>2. ASSUME NEW y \in S PROVE y < z <=> y < x \/ y = x
      <4>1. y \in Nat /\ (~(y < x) /\ y # x => z <= y)
        BY <3>1, <2>6
      <4> QED BY <3>1, <4>1
    <3> QED BY <3>2
  <2> QED BY <2>4, <2>6, <2>7
<1>3. r \in T
  <2> HIDE DEF T
  <2> QED BY <1>1, <1>2, SetInduction
<1> QED BY <1>3

\* The roots that Chien's search finds are elements, and so is every place they
\* are put (rs_decode.c:125-148, polynomial.c).
LEMMA PlacedTypes ==
    ASSUME NEW found \in RootSets, NEW old \in [0 .. MinDistance + N - 1 -> Elements],
           numErasures \in Nat, locator.order \in Nat
    PROVE  Placed(old, found) \in [0 .. MinDistance + N - 1 -> Elements]
<1>1. found \subseteq Elements
  <2> DEFINE order == locator.order
             logs == [k \in 0 .. order |-> Log[locator.coeff[k]]]
             value(x, n) == polynomial_eval_log_lut(logs, n, element_exp[x])
  <2> HIDE DEF order, logs, value
  <2>1. found \in IF order = MinDistance /\ logs[order] # 0
                  THEN SUBSET {x \in 1 .. N : value(x, order - 1) # 0}
                  ELSE {{x \in Elements : value(x, order) = 0}}
    BY DEF RootSets, order, logs, value
  <2>2. 1 .. N \subseteq Elements
    BY FieldSize DEF Elements
  <2> QED BY <2>1, <2>2
<1>2. IsFiniteSet(found) /\ found \in SUBSET Nat
  <2>1. IsFiniteSet(0 .. N)
    BY FieldSize, FS_Interval
  <2> QED BY <2>1, <1>1, FS_Subset, Sizes DEF Elements
<1>3. Cardinality(found) \in Nat
  BY <1>2, FS_CardinalityType
<1> DEFINE nth(k) == CHOOSE x \in found : Cardinality({y \in found : y < x}) = k - numErasures
<1>4. ASSUME NEW k \in numErasures .. numErasures + Cardinality(found) - 1
      PROVE  nth(k) \in Elements
  <2>1. k - numErasures \in Nat /\ k - numErasures < Cardinality(found)
    BY <1>3
  <2>2. \E x \in found : Cardinality({y \in found : y < x}) = k - numErasures
    BY <2>1, <1>2, NthElement
  <2> QED BY <2>2, <1>1
<1> HIDE DEF nth
<1>5. Placed(old, found) = [k \in DOMAIN old |->
        CASE k \in numErasures .. numErasures + Cardinality(found) - 1 -> nth(k)
          [] k \in numErasures + Cardinality(found) .. numErasures + locator.order - 1 -> 0
          [] OTHER -> old[k]]
  BY DEF Placed, nth
<1>6. \A k \in DOMAIN old :
        (CASE k \in numErasures .. numErasures + Cardinality(found) - 1 -> nth(k)
          [] k \in numErasures + Cardinality(found) .. numErasures + locator.order - 1 -> 0
          [] OTHER -> old[k]) \in Elements
  BY <1>3, <1>4, ZeroInElements
<1> QED BY <1>5, <1>6

\* The locator of all errors (rs_decode.c:585-593).
LEMMA FullLocatorTypes ==
    ASSUME numErasures \in Nat, locator.order \in Nat, FullOrder <= MinDistance,
           locator.coeff \in [Coefficients -> Elements],
           erasureLocator \in [Coefficients -> Elements]
    PROVE  FullLocator \in [0 .. FullOrder -> Elements] /\ FullOrder \in Nat
<1>1. FullOrder \in Nat /\ FullOrder = locator.order + numErasures
  BY DEF FullOrder
<1>2. CASE numErasures = 0
  <2>1. \A k \in 0 .. FullOrder : k \in Coefficients
    BY <1>1, FieldSize DEF Coefficients
  <2> QED BY <2>1, <1>1, <1>2 DEF FullLocator
<1>3. CASE numErasures # 0
  <2>1. Terms(erasureLocator, numErasures) /\ Terms(locator.coeff, locator.order)
    BY <1>1, FieldSize DEF Terms, Coefficients
  <2>2. polynomial_mul(erasureLocator, numErasures, locator.coeff, locator.order, FullOrder)
          \in [0 .. FullOrder -> Elements]
    BY <2>1, <1>1, FieldSize, MulType
  <2> QED BY <2>2, <1>1, <1>3 DEF FullLocator
<1> QED BY <1>2, <1>3

\* The locations of errors are logarithms (rs_decode.c:206-229).
LEMMA LocationTypes ==
    ASSUME NEW old \in [0 .. MinDistance - 1 -> Elements]
    PROVE  ErrorLocations(old) \in [0 .. MinDistance - 1 -> Elements]
<1> DEFINE fits(k) == {x \in Elements : field_pow(x, RootGap) = field_div(1, roots[k])}
           first(k) == CHOOSE x \in fits(k) : \A y \in fits(k) : x <= y
<1>1. ASSUME NEW k \in 0 .. MinDistance - 1, fits(k) # {}
      PROVE  Log[first(k)] \in Elements
  <2>1. fits(k) \in SUBSET Nat
    BY Sizes
  <2>2. \E x \in fits(k) : \A y \in fits(k) : x <= y
    BY <1>1, <2>1, LeastNatural
  <2>3. first(k) \in Elements
    BY <2>2
  <2> HIDE DEF first
  <2>4. first(k) = 0 \/ first(k) \in 1 .. N
    BY <2>3, Sizes DEF Elements
  <2> QED BY <2>4, FieldSize, LogTable, ZeroInElements DEF Elements
<1>2. ErrorLocations(old) = [k \in DOMAIN old |->
            IF k \in numErasures .. FullOrder - 1 /\ roots[k] # 0 /\ fits(k) # {}
            THEN Log[first(k)] ELSE old[k]]
  BY DEF ErrorLocations
<1> HIDE DEF first, fits
<1> QED BY <1>1, <1>2

\* Forney's formula gives elements (rs_decode.c:167-201).
LEMMA ValueTypes ==
    ASSUME NEW old \in [0 .. MinDistance - 1 -> Elements],
           NEW synd \in [0 .. MinDistance - 1 -> Elements],
           roots \in [0 .. MinDistance + N - 1 -> Elements],
           FullOrder \in Nat, FullOrder <= MinDistance,
           FullLocator \in [0 .. FullOrder -> Elements]
    PROVE  ErrorValues(old, synd) \in [0 .. MinDistance - 1 -> Elements]
<1> DEFINE n == MinDistance - 1
           evaluator == polynomial_mul(FullLocator, FullOrder, synd, n, n)
           derivative == polynomial_formal_derivative(FullLocator, FullOrder)
           value(k) == field_mul(field_pow(roots[k], FirstRoot - 1),
                          field_div(polynomial_eval_lut(evaluator, n, element_exp[roots[k]]),
                                    polynomial_eval_lut(derivative, FullOrder - 1,
                                                        element_exp[roots[k]])))
<1>1. n \in Nat /\ Terms(synd, n) /\ Terms(FullLocator, FullOrder)
  BY FieldSize DEF Terms
<1>2. evaluator \in [0 .. n -> Elements]
  <2> HIDE DEF n
  <2> QED BY <1>1, FieldSize, MulType
<1>3. Terms(derivative, FullOrder - 1)
  <2> SUFFICES ASSUME NEW i \in 0 .. FullOrder - 1
               PROVE  field_sum(FullLocator[i + 1], i + 1) \in Elements
    BY DEF Terms, polynomial_formal_derivative
  <2>1. i + 1 \in 0 .. FullOrder
    OBVIOUS
  <2> QED BY <2>1, ZeroInElements DEF field_sum
<1>4. ErrorValues(old, synd) = [k \in DOMAIN old |->
            IF k >= FullOrder \/ roots[k] = 0 THEN old[k] ELSE value(k)]
  BY DEF ErrorValues
<1>5. ASSUME NEW k \in 0 .. n, ~ (k >= FullOrder) PROVE value(k) \in Elements
  <2> DEFINE x == roots[k]
  <2>1. x \in Elements /\ FullOrder - 1 \in Nat
    BY <1>5, <1>1, FieldSize
  <2> HIDE DEF x, evaluator, derivative
  <2>2. Terms(element_exp[x], n) /\ Terms(element_exp[x], FullOrder - 1)
    <3>1. Terms(element_exp[x], MinDistance - 1)
      BY <2>1, GeneratorTypes
    <3>2. \A i \in 0 .. FullOrder - 1 : i \in 0 .. MinDistance - 1
      BY <2>1, FieldSize
    <3> QED BY <3>1, <3>2 DEF Terms
  <2>3. Terms(evaluator, n)
    BY <1>2 DEF Terms
  <2> HIDE DEF n
  <2>4. /\ polynomial_eval_lut(evaluator, n, element_exp[x]) \in Elements
        /\ polynomial_eval_lut(derivative, FullOrder - 1, element_exp[x]) \in Elements
    BY <2>1, <2>2, <2>3, <1>1, <1>3, FieldSize, EvalType
  <2>5. field_div(polynomial_eval_lut(evaluator, n, element_exp[x]),
                  polynomial_eval_lut(derivative, FullOrder - 1, element_exp[x])) \in Elements
    BY <2>4, FieldSize, DivLaws
  <2>6. FirstRoot - 1 \in Int
    BY CodeAssumption, FieldSize DEF Elements
  <2>7. field_pow(x, FirstRoot - 1) \in Elements
    BY <2>1, <2>6, FieldSize, PowType
  <2>8. field_mul(field_pow(x, FirstRoot - 1),
                  field_div(polynomial_eval_lut(evaluator, n, element_exp[x]),
                            polynomial_eval_lut(derivative, FullOrder - 1, element_exp[x])))
          \in Elements
    BY <2>5, <2>7, FieldSize, MulMonoid
  <2> QED BY <2>8 DEF x
<1> HIDE DEF value
<1> QED BY <1>4, <1>5

\* The block is repaired with elements (rs_decode.c:472-475, 601-603).
LEMMA RepairedTypes ==
    ASSUME received \in [0 .. N -> Elements],
           vals \in [0 .. MinDistance - 1 -> Elements],
           FullOrder \in Nat, FullOrder <= MinDistance
    PROVE  Repaired \in [0 .. N -> Elements]
<1> SUFFICES ASSUME NEW p \in 0 .. N
             PROVE  FieldTotal([k \in 0 .. FullOrder |->
                       IF k = 0 THEN received[p]
                       ELSE IF locations[k - 1] = p THEN vals[k - 1] ELSE 0], 0, FullOrder)
                    \in Elements
  BY DEF Repaired
<1> DEFINE f == [k \in 0 .. FullOrder |->
                       IF k = 0 THEN received[p]
                       ELSE IF locations[k - 1] = p THEN vals[k - 1] ELSE 0]
<1>1. Terms(f, FullOrder)
  <2> SUFFICES ASSUME NEW k \in 0 .. FullOrder PROVE f[k] \in Elements
    BY DEF Terms
  <2>1. k # 0 => k - 1 \in 0 .. MinDistance - 1
    BY FieldSize
  <2> QED BY <2>1, ZeroInElements
<1> HIDE DEF f
<1>2. FieldTotal(f, 0, FullOrder) \in Elements
  BY <1>1, TotalType
<1> QED BY <1>2 DEF f

\* The message is as long as it was (rs_decode.c:477-480, 607-609).
LEMMA PayloadTypes ==
    ASSUME NEW poly, \A i \in 0 .. N - 1 : poly[i] \in Elements, encoded \in Seq(Elements),
           MinDistance <= Len(encoded), Len(encoded) <= N
    PROVE  Payload(poly) \in Seq(Elements) /\ msgLength \in 0 .. N
<1>1. msgLength \in Nat /\ msgLength = Len(encoded) - MinDistance /\ Len(encoded) \in Nat
  BY FieldSize DEF msgLength
<1>2. \A k \in 1 .. msgLength : poly[Len(encoded) - k] \in Elements
  <2> SUFFICES ASSUME NEW k \in 1 .. msgLength PROVE poly[Len(encoded) - k] \in Elements
    OBVIOUS
  <2>1. Len(encoded) - k \in 0 .. N - 1
    BY <1>1, FieldSize
  <2> QED BY <2>1
<1>3. Payload(poly) \in [1 .. msgLength -> Elements]
  BY <1>2 DEF Payload
<1>4. Payload(poly) \in Seq(Elements)
  BY <1>1, <1>3
<1> QED BY <1>1, <1>4, FieldSize

------------------------------------------------------------------------------
(* Every action keeps the types and the register.                          *)

\* A new codec (rs_decode.c:261-394, reed-solomon.c:79-150).
LEMMA TypeInit == Init => TypeInv
<1> SUFFICES ASSUME Init PROVE TypeInv
  OBVIOUS
<1>1. PICK junk \in {0, N} :
        /\ call = [message |-> <<>>, noise |-> <<>>, erased |-> <<>>]
        /\ encoded = <<>> /\ msg = <<>> /\ status = 0 /\ phase = "idle"
        /\ received = [p \in 0 .. N |-> junk]
        /\ syndromes = [k \in 0 .. MinDistance - 1 |-> 0]
        /\ savedSyndromes = syndromes
        /\ locator = [coeff |-> [k \in Coefficients |-> junk], order |-> MinDistance]
        /\ lastLocator = locator
        /\ erasureLocator = [k \in Coefficients |-> junk]
        /\ roots = [k \in 0 .. MinDistance + N - 1 |-> 0]
        /\ vals = [k \in 0 .. MinDistance - 1 |-> junk]
        /\ locations = vals
  BY DEF Init
<1>2. junk \in Elements /\ 0 \in Elements /\ MinDistance \in Coefficients /\ 0 \in -1 .. N
  BY FieldSize DEF Elements, Coefficients
<1>3. locator \in Polynomials
  BY <1>1, <1>2 DEF Polynomials
<1>4. TypeOK
  BY <1>1, <1>2, <1>3 DEF TypeOK
<1>5. BlockInv
  BY <1>1 DEF BlockInv, TransmissionRecords
<1> QED BY <1>1, <1>4, <1>5, InvariantInit DEF TypeInv, MasseyInv

\* A transmission as a caller makes it.
IsTransmission(t) ==
    t \in TransmissionRecords /\ Len(t.noise) = Len(t.message) + MinDistance

\* What callers of the library send is one,
LEMMA TransmissionTypes == \A t \in Transmissions : IsTransmission(t)
<1> SUFFICES ASSUME NEW t \in Transmissions PROVE IsTransmission(t)
  OBVIOUS
<1> DEFINE len == Len(t.message) + MinDistance
<1>1. t \in TransmissionRecords /\ t.noise \in [1 .. len -> Elements]
  BY TransmissionsAssumption
<1>2. len \in Nat /\ t.noise \in Seq(Elements)
  BY <1>1, FieldSize DEF TransmissionRecords
<1>3. Len(t.noise) = len
  BY <1>1, <1>2
<1> QED BY <1>1, <1>3 DEF IsTransmission

\* and so is what the shim makes of its callers' (fec_shim.c:79-87).
LEMMA ShimTransmissionTypes ==
    ASSUME pad \in Pads, NEW t \in ShimTransmissions[pad]
    PROVE  IsTransmission(ForLibrary(t))
<1> DEFINE e == [k \in DOMAIN t.erased |-> IndexOf(t.erased[k])]
<1>1. /\ t \in TransmissionRecords /\ t.noise \in [1 .. N - pad -> Elements]
      /\ t.message \in [1 .. N - pad - MinDistance -> Elements]
      /\ pad \in 0 .. N - MinDistance
  BY ShimAssumption
<1>2. /\ N - pad \in Nat /\ N - pad - MinDistance \in Nat
      /\ t.noise \in Seq(Elements) /\ t.message \in Seq(Elements) /\ t.erased \in Seq(Nat)
  BY <1>1, FieldSize DEF TransmissionRecords
<1>3. Len(t.noise) = N - pad /\ Len(t.message) = N - pad - MinDistance
  BY <1>1, <1>2
<1>4. e \in Seq(Nat)
  <2>1. Len(t.erased) \in Nat /\ DOMAIN t.erased = 1 .. Len(t.erased)
    BY <1>2
  <2>2. \A k \in 1 .. Len(t.erased) : IndexOf(t.erased[k]) \in Nat
    <3> SUFFICES ASSUME NEW k \in 1 .. Len(t.erased) PROVE IndexOf(t.erased[k]) \in Nat
      OBVIOUS
    <3> DEFINE place == t.erased[k] - pad
    <3>1. 2^Width = N + 1 /\ N + 1 \in Nat \ {0}
      BY Sizes
    <3>2. place \in Int
      BY <1>1, <1>2
    <3>3. IndexOf(t.erased[k]) = place % (N + 1)
      BY <3>1 DEF IndexOf
    <3> HIDE DEF place
    <3> QED BY <3>1, <3>2, <3>3
  <2> QED BY <2>1, <2>2
<1>5. ForLibrary(t) = [t EXCEPT !.erased = e]
  BY DEF ForLibrary
<1> HIDE DEF e
<1>6. ForLibrary(t) = [message |-> t.message, noise |-> t.noise, erased |-> e]
  BY <1>1, <1>5 DEF TransmissionRecords
<1>7. ForLibrary(t) \in TransmissionRecords
  BY <1>2, <1>4, <1>6 DEF TransmissionRecords
<1>8. ForLibrary(t).noise = t.noise /\ ForLibrary(t).message = t.message
  BY <1>6
<1>9. N - pad = (N - pad - MinDistance) + MinDistance
  BY <1>1, FieldSize
<1>10. Len(ForLibrary(t).noise) = Len(ForLibrary(t).message) + MinDistance
  BY <1>3, <1>8, <1>9
<1> QED BY <1>7, <1>10 DEF IsTransmission

\* An encode starts a transmission (rs_encode.c:3-34).
LEMMA TypeEncode ==
    ASSUME TypeInv, NEW t, IsTransmission(t), Encode(t) \/ EncodeTooLong(t)
    PROVE  TypeInv'
<1>1. /\ t \in TransmissionRecords /\ Len(t.noise) = Len(t.message) + MinDistance
      /\ t.message \in Seq(Elements) /\ t.erased \in Seq(Nat)
  BY DEF IsTransmission, TransmissionRecords
<1>2. IInv'
  BY <1>1, InvariantEncode
<1>3. CASE Encode(t)
  <2>1. /\ phase' = "encoded" /\ call' = t /\ encoded' = Encoded(t.message)
        /\ Len(t.message) <= message_length
        /\ UNCHANGED <<received, syndromes, savedSyndromes, massey, erasureLocator,
                       places, results>>
    BY <1>3 DEF Encode
  <2>2. /\ encoded' \in Seq(Elements) /\ Len(encoded') = Len(t.message) + MinDistance
        /\ Len(encoded') \in 0 .. N
    BY <1>1, <2>1, EncodedTypes
  <2>3. TypeOK'
    BY <2>1, <2>2 DEF TypeInv, TypeOK, massey, places, results
  <2>4. BlockInv'
    BY <1>1, <2>1, <2>2, FieldSize DEF BlockInv
  <2> QED BY <2>1, <2>3, <2>4, <1>2 DEF TypeInv, MasseyInv
<1>4. CASE EncodeTooLong(t)
  <2>1. /\ phase' = "done" /\ call' = t /\ encoded' = <<>> /\ msg' = <<>> /\ status' = -1
        /\ UNCHANGED <<received, syndromes, savedSyndromes, massey, erasureLocator, places>>
    BY <1>4 DEF EncodeTooLong
  <2>2. TypeOK'
    BY <2>1, FieldSize DEF TypeInv, TypeOK, massey, places, results
  <2>3. BlockInv'
    BY <1>1, <2>1 DEF BlockInv
  <2> QED BY <2>1, <2>2, <2>3, <1>2 DEF TypeInv, MasseyInv
<1> QED BY <1>3, <1>4

\* A step of the environment alone.
LEMMA TypeUnchanged == TypeInv /\ UNCHANGED vars => TypeInv'
<1> SUFFICES ASSUME TypeInv, UNCHANGED vars PROVE TypeInv'
  OBVIOUS
<1>1. IInv'
  BY InvariantUnchanged DEF TypeInv
<1>2. TypeOK'
  BY DEF TypeInv, TypeOK, vars, encoderVars, massey, places, results
<1>3. BlockInv'
  BY DEF TypeInv, BlockInv, vars, encoderVars, massey, places, results, FullOrder, numErasures
<1>4. MasseyInv'
  BY DEF TypeInv, MasseyInv, RegisterInv, Shortest, Output, Order, vars, encoderVars, massey, places, results
<1> QED BY <1>1, <1>2, <1>3, <1>4 DEF TypeInv

\* More erasures than parity.
LEMMA TypeTooMany == TypeInv /\ TooManyErasures => TypeInv'
<1> SUFFICES ASSUME TypeInv, TooManyErasures PROVE TypeInv'
  OBVIOUS
<1>1. IInv'
  BY StageKeeps DEF TypeInv
<1>2. /\ phase' = "done" /\ msg' = <<>> /\ status' = -1
      /\ UNCHANGED <<encoderVars, received, syndromes, savedSyndromes, massey,
                     erasureLocator, places>>
  BY DEF TooManyErasures
<1>3. TypeOK'
  BY <1>2, FieldSize DEF TypeInv, TypeOK, encoderVars, massey, places
<1>4. BlockInv'
  BY <1>2 DEF TypeInv, BlockInv, encoderVars
<1> QED BY <1>1, <1>2, <1>3, <1>4 DEF TypeInv, MasseyInv

\* The block is turned around, and the erasures become a locator
\* (rs_decode.c:402-438, 485-527).
LEMMA TypeReceive == TypeInv /\ Receive => TypeInv'
<1> SUFFICES ASSUME TypeInv, Receive PROVE TypeInv'
  OBVIOUS
<1>1. IInv'
  BY StageKeeps DEF TypeInv
<1>2. /\ phase = "encoded" /\ phase' = "received" /\ msg' = <<>>
      /\ UNCHANGED <<encoderVars, syndromes, savedSyndromes, massey, vals, status>>
      /\ numErasures <= MinDistance
  BY DEF Receive
<1>3. /\ call \in TransmissionRecords /\ encoded \in Seq(Elements)
      /\ Len(encoded) <= N /\ Len(encoded) \in Nat
      /\ call.noise \in Seq(Elements) /\ Len(call.noise) = Len(encoded)
      /\ call.erased \in Seq(Nat) /\ numErasures \in Nat /\ numErasures = Len(call.erased)
  BY <1>2 DEF TypeInv, BlockInv, TypeOK, TransmissionRecords, numErasures
<1>4. received' \in [0 .. N -> Elements]
  <2>1. received' =
         [p \in 0 .. N |->
            CASE p < Len(encoded) -> field_add(encoded[Len(encoded) - p],
                                               call.noise[Len(encoded) - p])
              [] p >= Len(encoded) /\ p < N -> 0
              [] p = N -> received[p]]
    BY DEF Receive
  <2>2. ASSUME NEW p \in 0 .. N, p < Len(encoded)
        PROVE  field_add(encoded[Len(encoded) - p], call.noise[Len(encoded) - p]) \in Elements
    <3> DEFINE i == Len(encoded) - p
    <3>1. i \in 1 .. Len(encoded) /\ i \in 1 .. Len(call.noise)
      BY <2>2, <1>3
    <3> HIDE DEF i
    <3>2. encoded[i] \in Elements /\ call.noise[i] \in Elements
      BY <3>1, <1>3
    <3>3. field_add(encoded[i], call.noise[i]) \in Elements
      BY <3>2, AddGroup
    <3> QED BY <3>3 DEF i
  <2>3. received[N] \in Elements
    BY FieldSize DEF TypeInv, TypeOK
  <2>4. ASSUME NEW p \in 0 .. N
        PROVE  (CASE p < Len(encoded) -> field_add(encoded[Len(encoded) - p],
                                               call.noise[Len(encoded) - p])
              [] p >= Len(encoded) /\ p < N -> 0
              [] p = N -> received[p]) \in Elements
    <3>1. CASE p < Len(encoded)
      <4>1. ~(p >= Len(encoded) /\ p < N) /\ ~(p = N)
        BY <3>1, <1>3, FieldSize
      <4> QED BY <3>1, <4>1, <2>2
    <3>2. CASE p >= Len(encoded) /\ p < N
      <4>1. ~(p < Len(encoded)) /\ ~(p = N)
        BY <3>2, <1>3, FieldSize
      <4> QED BY <3>2, <4>1, ZeroInElements
    <3>3. CASE p = N
      <4>1. ~(p < Len(encoded)) /\ ~(p >= Len(encoded) /\ p < N)
        BY <3>3, <1>3, FieldSize
      <4> QED BY <3>3, <4>1, <2>3
    <3> QED BY <3>1, <3>2, <3>3, <1>3, FieldSize
  <2> QED BY <2>1, <2>4
<1>5. /\ locations' \in [0 .. MinDistance - 1 -> Elements]
      /\ roots' \in [0 .. MinDistance + N - 1 -> Elements]
      /\ erasureLocator' \in [Coefficients -> Elements]
  <2>0. /\ locations \in [0 .. MinDistance - 1 -> Elements]
        /\ roots \in [0 .. MinDistance + N - 1 -> Elements]
        /\ erasureLocator \in [Coefficients -> Elements]
    BY DEF TypeInv, TypeOK
  <2>1. CASE numErasures = 0
    <3>1. UNCHANGED <<locations, roots, erasureLocator>>
      BY <2>1 DEF Receive
    <3> QED BY <3>1, <2>0
  <2>2. CASE numErasures # 0
    <3> DEFINE q == polynomial_from_roots(numErasures, roots')
    <3>1. /\ locations' = ErasureLocations(locations)
          /\ roots' = ErasureRoots(roots, locations')
          /\ erasureLocator' = [k \in Coefficients |-> IF k <= numErasures THEN q[k]
                                                       ELSE erasureLocator[k]]
      BY <2>2 DEF Receive
    <3>2. locations' \in [0 .. MinDistance - 1 -> Elements]
      <4> SUFFICES ASSUME NEW k \in 0 .. MinDistance - 1, k < numErasures
                   PROVE  ((N - (call.erased[k + 1] + padLength + 1)) % 2^Width) \in Elements
        BY <2>0, <3>1 DEF ErasureLocations
      <4> DEFINE e == N - (call.erased[k + 1] + padLength + 1)
      <4>1. e \in Int
        <5>1. k + 1 \in 1 .. Len(call.erased)
          BY <1>3
        <5>2. call.erased[k + 1] \in Nat /\ padLength \in Int
          BY <5>1, <1>3, FieldSize DEF padLength
        <5> QED BY <5>2, FieldSize
      <4> HIDE DEF e
      <4>2. e % (N + 1) \in 0 .. N /\ 2^Width = N + 1
        BY <4>1, FieldSize, Sizes
      <4> QED BY <4>2 DEF e, Elements
    <3>3. numErasures \in 1 .. MinDistance
      BY <1>2, <1>3, <2>2, FieldSize
    <3>4. /\ roots' \in [0 .. MinDistance + N - 1 -> Elements]
          /\ q \in [0 .. numErasures -> Elements]
      BY <3>1, <3>2, <3>3, <2>0, ErasureTypes
    <3> HIDE DEF q
    <3>5. \A k \in Coefficients : k <= numErasures => k \in 0 .. numErasures
      BY FieldSize DEF Coefficients
    <3>6. erasureLocator' \in [Coefficients -> Elements]
      BY <3>1, <3>4, <3>5, <2>0
    <3> QED BY <3>2, <3>4, <3>6
  <2> QED BY <2>1, <2>2
<1>6. TypeOK'
  BY <1>2, <1>4, <1>5 DEF TypeInv, TypeOK, encoderVars, massey
<1>7. BlockInv'
  BY <1>2 DEF TypeInv, BlockInv, encoderVars
<1> QED BY <1>1, <1>2, <1>6, <1>7 DEF TypeInv, MasseyInv

\* The syndromes of a block are zero, and it is taken (rs_decode.c:442-450, 535-543).
LEMMA TypeNoErrors == TypeInv /\ NoErrors => TypeInv'
<1> SUFFICES ASSUME TypeInv, NoErrors PROVE TypeInv'
  OBVIOUS
<1>1. IInv'
  BY StageKeeps DEF TypeInv
<1>2. /\ phase = "received" /\ phase' = "done" /\ syndromes' = Syndromes(received)
      /\ msg' = Payload(received)
      /\ status' = IF numErasures = 0 THEN 0 ELSE msgLength
      /\ UNCHANGED <<encoderVars, received, savedSyndromes, massey, erasureLocator, places>>
  BY DEF NoErrors
<1>3. received \in [0 .. N -> Elements] /\ encoded \in Seq(Elements)
  BY DEF TypeInv, TypeOK
<1>4. MinDistance <= Len(encoded) /\ Len(encoded) <= N
  <2>1. Len(encoded) = Len(call.message) + MinDistance /\ Len(call.message) \in Nat
        /\ Len(encoded) <= N
    BY <1>2 DEF TypeInv, BlockInv, TransmissionRecords
  <2> QED BY <2>1, FieldSize
<1>5. /\ \A i \in 0 .. N - 1 : received[i] \in Elements
      /\ Terms(received, N - 1)
  BY <1>3, FieldSize DEF Terms
<1>6. syndromes' \in [0 .. MinDistance - 1 -> Elements]
  BY <1>2, <1>5, SyndromeTypes
<1>7. msg' \in Seq(Elements) /\ msgLength \in 0 .. N
  BY <1>2, <1>3, <1>4, <1>5, PayloadTypes
<1>8. status' \in -1 .. N
  BY <1>2, <1>7, FieldSize
<1>9. TypeOK'
  BY <1>2, <1>6, <1>7, <1>8 DEF TypeInv, TypeOK, encoderVars, massey, places
<1>10. BlockInv'
  BY <1>2 DEF TypeInv, BlockInv, encoderVars
<1> QED BY <1>1, <1>2, <1>9, <1>10 DEF TypeInv, MasseyInv

\* The loop starts with a register without taps (rs_decode.c:40-53, 545-558).
LEMMA TypeFindSyndromes == TypeInv /\ FindSyndromes => TypeInv'
<1> SUFFICES ASSUME TypeInv, FindSyndromes PROVE TypeInv'
  OBVIOUS
<1>1. IInv'
  BY StageKeeps DEF TypeInv
<1>2. /\ phase = "received" /\ phase' = "massey"
      /\ locator' = One /\ lastLocator' = One
      /\ numerrors' = 0 /\ delay' = 1 /\ lastDiscrepancy' = 1 /\ round' = 0
      /\ UNCHANGED <<encoderVars, received, erasureLocator, places, results>>
  BY DEF FindSyndromes
<1>3. /\ received \in [0 .. N -> Elements] /\ erasureLocator \in [Coefficients -> Elements]
      /\ savedSyndromes \in [0 .. MinDistance - 1 -> Elements]
      /\ numErasures \in Nat /\ numErasures <= MinDistance
  BY <1>2 DEF TypeInv, TypeOK, IInv
<1>4. Syndromes(received) \in [0 .. MinDistance - 1 -> Elements]
  <2>1. Terms(received, N - 1)
    BY <1>3, FieldSize DEF Terms
  <2> QED BY <2>1, SyndromeTypes
<1>5. WithoutErasures(Syndromes(received), erasureLocator) \in [0 .. MinDistance - 1 -> Elements]
  <2>1. Terms(erasureLocator, numErasures)
    BY <1>3, FieldSize DEF Terms, Coefficients
  <2> QED BY <2>1, <1>3, <1>4, ModifiedTypes
<1>6. /\ syndromes' \in [0 .. MinDistance - 1 -> Elements]
      /\ savedSyndromes' \in [0 .. MinDistance - 1 -> Elements]
  BY <1>3, <1>4, <1>5 DEF FindSyndromes
<1>7. One \in Polynomials /\ One.coeff \in Taps /\ One.coeff[0] = 1 /\ One.order = 0
      /\ Order(One.coeff, 0)
  BY FieldSize, ZeroInElements DEF One, Polynomials, Taps, Order, Coefficients
<1>8. TypeOK'
  BY <1>2, <1>6, <1>7 DEF TypeInv, TypeOK, encoderVars, places, results
<1>9. BlockInv'
  BY <1>2 DEF TypeInv, BlockInv, encoderVars
<1>10. RegisterInv'
  <2>1. 1 \in 1 .. N /\ 0 .. 0 - 1 = {} /\ 0 .. (0 - 1) - 1 = {} /\ ~(0 >= 1)
    BY FieldSize
  <2> QED BY <1>2, <1>6, <1>7, <2>1 DEF RegisterInv, Order
<1>11. Shortest'
  BY <1>2 DEF Shortest
<1> QED BY <1>1, <1>8, <1>9, <1>10, <1>11 DEF TypeInv, MasseyInv

\* A round of the loop (rs_decode.c:55-118).
LEMMA TypeRound == TypeInv /\ (NoDiscrepancy \/ Lengthen \/ Adjust) => TypeInv'
<1> SUFFICES ASSUME TypeInv, NoDiscrepancy \/ Lengthen \/ Adjust PROVE TypeInv'
  OBVIOUS
<1>1. IInv'
  BY RoundKeeps DEF TypeInv
<1>2. InLoop /\ UNCHANGEDbutMassey /\ phase = "massey"
  BY DEF NoDiscrepancy, Lengthen, Adjust, InLoop
<1>3. UNCHANGED <<encoderVars, phase, received, syndromes, savedSyndromes,
                  erasureLocator, places, results>>
  BY <1>2 DEF UNCHANGEDbutMassey
<1>4. RegisterInv /\ IInv /\ Shortest
  BY <1>2 DEF TypeInv, MasseyInv
<1>5. RegisterInv' /\ Shortest'
  BY <1>4, RegisterRound, ShortestRound
<1>6. /\ Corrected \in [Coefficients -> Elements]
      /\ lastLocator.order + delay \in Coefficients
      /\ locator \in Polynomials /\ lastLocator \in Polynomials
  <2>1. Corrected \in [Coefficients -> Elements]
    BY <1>2, <1>4, CorrectedFacts DEF Taps
  <2>2. lastLocator.order + delay \in Coefficients
    BY <1>2, <1>4, LoopNumbers, FieldSize DEF Coefficients
  <2> QED BY <2>1, <2>2 DEF TypeInv, TypeOK
<1>7. locator' \in Polynomials /\ lastLocator' \in Polynomials
  <2>1. locator.order \in Coefficients
    BY <1>6 DEF Polynomials
  <2> QED BY <1>6, <2>1 DEF NoDiscrepancy, Lengthen, Adjust, Polynomials
<1>8. TypeOK'
  BY <1>3, <1>7 DEF TypeInv, TypeOK, encoderVars, places, results
<1>9. BlockInv'
  BY <1>2, <1>3 DEF TypeInv, BlockInv, encoderVars
<1> QED BY <1>1, <1>5, <1>8, <1>9 DEF TypeInv, MasseyInv

\* Chien's search (rs_decode.c:125-148).
LEMMA TypeFactorize == TypeInv /\ Factorize => TypeInv'
<1> SUFFICES ASSUME TypeInv, Factorize PROVE TypeInv'
  OBVIOUS
<1>1. IInv'
  BY StageKeeps DEF TypeInv
<1>2. PICK found \in RootSets :
        /\ roots' = Placed(roots, found)
        /\ IF EnoughRoots(found)
           THEN phase' = "factorized" /\ UNCHANGED status
           ELSE phase' = "done" /\ status' = -1
  BY DEF Factorize
<1>3. /\ phase = "massey"
      /\ UNCHANGED <<encoderVars, received, syndromes, savedSyndromes, massey,
                     erasureLocator, vals, locations, msg>>
  BY DEF Factorize
<1>4. roots' \in [0 .. MinDistance + N - 1 -> Elements]
  <2>1. numErasures \in Nat /\ locator.order \in Nat
        /\ roots \in [0 .. MinDistance + N - 1 -> Elements]
    BY <1>3 DEF TypeInv, TypeOK, IInv, LoopInv
  <2> QED BY <1>2, <2>1, PlacedTypes
<1>5. phase' \in {"factorized", "done"} /\ status' \in -1 .. N
  BY <1>2, FieldSize DEF TypeInv, TypeOK
<1>6. TypeOK'
  BY <1>3, <1>4, <1>5 DEF TypeInv, TypeOK, encoderVars, massey
<1>7. BlockInv'
  BY <1>3, <1>5 DEF TypeInv, BlockInv, encoderVars
<1> QED BY <1>1, <1>5, <1>6, <1>7 DEF TypeInv, MasseyInv

\* Locations and values (rs_decode.c:465-467, 585-599).
LEMMA TypeLocate == TypeInv /\ Locate => TypeInv'
<1> SUFFICES ASSUME TypeInv, Locate PROVE TypeInv'
  OBVIOUS
<1>1. IInv'
  BY StageKeeps DEF TypeInv
<1>2. /\ phase = "factorized" /\ phase' = "located"
      /\ locations' = ErrorLocations(locations)
      /\ syndromes' = IF numErasures = 0 THEN syndromes ELSE savedSyndromes
      /\ vals' = ErrorValues(vals, syndromes')
      /\ UNCHANGED <<encoderVars, received, savedSyndromes, massey, erasureLocator,
                     roots, results>>
  BY DEF Locate
<1>3. /\ TypeOK /\ numErasures \in Nat /\ FullOrder <= MinDistance
      /\ locator.order \in Nat /\ locator.coeff \in [Coefficients -> Elements]
      /\ erasureLocator \in [Coefficients -> Elements]
      /\ syndromes' \in [0 .. MinDistance - 1 -> Elements]
      /\ roots \in [0 .. MinDistance + N - 1 -> Elements]
  BY <1>2 DEF TypeInv, TypeOK, IInv, Polynomials, Coefficients
<1>4. FullOrder \in Nat /\ FullLocator \in [0 .. FullOrder -> Elements]
  BY <1>3, FullLocatorTypes
<1>5. locations' \in [0 .. MinDistance - 1 -> Elements]
  BY <1>2, <1>3, LocationTypes DEF TypeOK
<1>6. vals' \in [0 .. MinDistance - 1 -> Elements]
  <2> DEFINE synd == syndromes'
  <2>1. synd \in [0 .. MinDistance - 1 -> Elements] /\ vals \in [0 .. MinDistance - 1 -> Elements]
    BY <1>3 DEF TypeOK
  <2>2. vals' = ErrorValues(vals, synd)
    BY <1>2
  <2> HIDE DEF synd
  <2>3. ErrorValues(vals, synd) \in [0 .. MinDistance - 1 -> Elements]
    BY <2>1, <1>3, <1>4, ValueTypes
  <2> QED BY <2>2, <2>3
<1>7. TypeOK'
  BY <1>2, <1>3, <1>5, <1>6 DEF TypeOK, encoderVars, massey, results
<1>8. FullOrder' = FullOrder
  BY <1>2 DEF FullOrder, numErasures, encoderVars, massey
<1>9. BlockInv'
  BY <1>2, <1>3, <1>8 DEF TypeInv, BlockInv, encoderVars
<1> QED BY <1>1, <1>2, <1>7, <1>9 DEF TypeInv, MasseyInv

\* The block is repaired and the message copied out (rs_decode.c:472-482, 601-614).
LEMMA TypeCorrect == TypeInv /\ Correct => TypeInv'
<1> SUFFICES ASSUME TypeInv, Correct PROVE TypeInv'
  OBVIOUS
<1>1. IInv'
  BY StageKeeps DEF TypeInv
<1>2. /\ phase = "located" /\ phase' = "done" /\ received' = Repaired
      /\ msg' = Payload(Repaired)
      /\ status' = IF numErasures = 0 THEN FullOrder ELSE msgLength
      /\ UNCHANGED <<encoderVars, syndromes, savedSyndromes, massey, erasureLocator, places>>
  BY DEF Correct
<1>3. /\ TypeOK /\ numErasures \in Nat /\ FullOrder <= MinDistance /\ locator.order \in Nat
      /\ encoded \in Seq(Elements)
  BY <1>2 DEF TypeInv, TypeOK, BlockInv, IInv, Polynomials, Coefficients
<1>4. FullOrder \in Nat
  BY <1>3 DEF FullOrder
<1>5. Repaired \in [0 .. N -> Elements]
  BY <1>3, <1>4, RepairedTypes DEF TypeOK
<1>6. MinDistance <= Len(encoded) /\ Len(encoded) <= N
  <2>1. Len(encoded) = Len(call.message) + MinDistance /\ Len(call.message) \in Nat
        /\ Len(encoded) <= N
    BY <1>2 DEF TypeInv, BlockInv, TransmissionRecords
  <2> QED BY <2>1, FieldSize
<1>7. Payload(Repaired) \in Seq(Elements) /\ msgLength \in 0 .. N
  <2>1. \A i \in 0 .. N - 1 : Repaired[i] \in Elements
    BY <1>5, FieldSize
  <2> QED BY <2>1, <1>3, <1>6, PayloadTypes
<1>8. status' \in -1 .. N
  BY <1>2, <1>3, <1>4, <1>7, FieldSize
<1>9. TypeOK'
  BY <1>2, <1>3, <1>5, <1>7, <1>8 DEF TypeOK, encoderVars, massey, places
<1>10. BlockInv'
  BY <1>2 DEF TypeInv, BlockInv, encoderVars
<1> QED BY <1>1, <1>2, <1>9, <1>10 DEF TypeInv, MasseyInv

\* Every step of a decode.
LEMMA TypeDecode == TypeInv /\ DecodeStep => TypeInv'
  BY TypeTooMany, TypeReceive, TypeNoErrors, TypeFindSyndromes, TypeRound, TypeFactorize,
     TypeLocate, TypeCorrect
     DEF DecodeStep

\* The library's own steps.
LEMMA TypeNext ==
    ASSUME TypeInv, [Next]_vars
    PROVE  TypeInv'
<1>1. ASSUME NEW t \in Pending, Encode(t) \/ EncodeTooLong(t) PROVE TypeInv'
  <2>1. t \in Transmissions
    BY <1>1, TransmissionsAssumption DEF Pending
  <2> QED BY <1>1, <2>1, TransmissionTypes, TypeEncode
<1>2. CASE Rest \/ UNCHANGED vars
  BY <1>2, TypeUnchanged DEF Rest
<1> QED BY <1>1, <1>2, TypeDecode DEF Next

\* The steps through libfec's interface.
LEMMA TypeShimNext ==
    ASSUME PadInv, TypeInv, [ShimNext]_shimVars
    PROVE  TypeInv'
<1>1. ASSUME ThroughShim, NEW t \in ShimTransmissions[pad], EncodeRsChar(t) PROVE TypeInv'
  <2>1. pad \in Pads
    BY <1>1 DEF PadInv, ThroughShim
  <2>2. IsTransmission(ForLibrary(t)) /\ Encode(ForLibrary(t))
    BY <1>1, <2>1, ShimTransmissionTypes DEF EncodeRsChar
  <2> QED BY <2>2, TypeEncode
<1>2. CASE Next
  BY <1>2, TypeNext
<1>3. CASE ShimRest \/ UNCHANGED shimVars
  BY <1>3, TypeUnchanged DEF ShimRest, shimVars
<1>4. CASE DecodeRsChar
  BY <1>4, TypeDecode DEF DecodeRsChar
<1> QED BY <1>1, <1>2, <1>3, <1>4 DEF ShimNext

\* A shim keeps its padding.
LEMMA PadKept == PadInv /\ [ShimNext]_shimVars => PadInv'
  BY DEF PadInv, ShimNext, shimVars

\* A new codec behind either interface.
LEMMA ShimTypeInit == ShimInit => PadInv /\ TypeInv
  BY TypeInit DEF ShimInit, PadInv

\* What the invariant says of registers with fewer taps.
LEMMA ShortestMeans ==
    ASSUME TypeInv
    PROVE  NoShorterRegister
<1> SUFFICES ASSUME phase = "massey", numerrors > 0,
                    NEW taps \in [1 .. numerrors - 1 -> Elements],
                    \A k \in numerrors - 1 .. round - 1 :
                        syndromes[k] = FieldTotal([j \in 1 .. numerrors - 1 |->
                                   field_mul(taps[j], syndromes[k - j])], 1, numerrors - 1)
             PROVE  FALSE
  BY DEF NoShorterRegister
<1> DEFINE l == numerrors - 1
           E == [j \in Coefficients |-> IF j = 0 THEN 1 ELSE IF j \in 1 .. l THEN taps[j] ELSE 0]
<1>1. /\ l \in Nat /\ round \in Nat /\ round <= MinDistance /\ l < MinDistance
      /\ syndromes \in [0 .. MinDistance - 1 -> Elements]
  <2>1. LoopInv /\ numErasures \in Nat /\ syndromes \in [0 .. MinDistance - 1 -> Elements]
    BY DEF TypeInv, IInv, MasseyInv, RegisterInv
  <2> QED BY <2>1, FieldSize DEF LoopInv
<1>2. E \in Taps /\ E[0] = 1
  BY ZeroInElements, FieldSize DEF Taps, Coefficients
<1>3. ASSUME NEW k \in l .. round - 1 PROVE Output(E, syndromes, l, k) = 0
  <2> DEFINE g == [j \in 0 .. l |-> field_mul(E[j], syndromes[k - j])]
             f == [j \in 1 .. l |-> field_mul(taps[j], syndromes[k - j])]
  <2>1. k \in Nat /\ l <= k /\ k < MinDistance /\ k \in 0 .. MinDistance - 1 /\ k - 0 = k
    BY <1>1, <1>3, FieldSize
  <2>2. Terms(g, l) /\ Output(E, syndromes, l, k) = FieldTotal(g, 0, l)
    <3> HIDE DEF l, E
    <3> QED BY <1>1, <1>2, <2>1, OutputTerms DEF Taps, Output
  <2>3. \A j \in 1 .. l : f[j] = g[j]
    BY <1>1, FieldSize DEF Coefficients
  <2>4. g[0] = syndromes[k] /\ syndromes[k] \in Elements
    <3>1. syndromes[k] \in Elements
      BY <1>1, <2>1
    <3>2. 0 \in 0 .. l
      BY <1>1
    <3>3. g[0] = field_mul(1, syndromes[k])
      BY <1>2, <2>1, <3>2
    <3> QED BY <3>1, <3>3, FieldSize, MulMonoid
  <2>5. syndromes[k] = FieldTotal(f, 1, l)
    OBVIOUS
  <2> HIDE DEF f, g, l, E
  <2>6. FieldTotal(g, 0, l) = field_add(g[0], FieldTotal(f, 1, l))
    BY <1>1, <2>2, <2>3, TotalFromOne
  <2> QED BY <2>2, <2>4, <2>5, <2>6, AddGroup
<1> HIDE DEF E
<1> QED BY <1>2, <1>3 DEF TypeInv, MasseyInv, Shortest

\* What it says of the properties.
LEMMA TypeMeans == TypeInv => TypeOK /\ LocatorDescribesSyndromes /\ NoShorterRegister
<1>1. TypeInv => LocatorDescribesSyndromes
  BY RegisterDescribes DEF TypeInv, MasseyInv
<1> QED BY <1>1, ShortestMeans DEF TypeInv

\* Every array of the codec and every result keep their types: no logarithm is
\* taken beyond the tables, whatever is received (reed-solomon.c, rs_decode.c).
THEOREM TypeCorrectness == Spec => []TypeOK
<1>1. TypeInv /\ [Next]_vars => TypeInv'
  BY TypeNext
<1> QED BY <1>1, TypeInit, TypeMeans, PTL DEF Spec

\* After every round the locator is a register that gives the syndromes so far
\* (rs_decode.c:55-118).
THEOREM LocatorIsRegister == Spec => []LocatorDescribesSyndromes
<1>1. TypeInv /\ [Next]_vars => TypeInv'
  BY TypeNext
<1> QED BY <1>1, TypeInit, TypeMeans, PTL DEF Spec

\* And the loop ends with the shortest one there is (rs_decode.c:69-101).
THEOREM LocatorIsShortest == Spec => []NoShorterRegister
<1>1. TypeInv /\ [Next]_vars => TypeInv'
  BY TypeNext
<1> QED BY <1>1, TypeInit, TypeMeans, PTL DEF Spec

\* All three behind libfec's interface as well (fec_shim.c:73-87).
THEOREM LocatorThroughShim ==
    ShimSpec => [](TypeOK /\ LocatorDescribesSyndromes /\ NoShorterRegister)
<1>1. PadInv /\ TypeInv /\ [ShimNext]_shimVars => TypeInv'
  BY TypeShimNext
<1> QED BY <1>1, PadKept, ShimTypeInit, TypeMeans, PTL DEF ShimSpec

\* An encode writes its message as a codeword (rs_encode.c:3-34),
LEMMA CodewordEncode ==
    ASSUME NEW t, IsTransmission(t), Encode(t)
    PROVE  EncodesCodeword'
<1> DEFINE m == t.message
<1>1. m \in Seq(Elements) /\ Len(m) \in Nat
  BY DEF IsTransmission, TransmissionRecords
<1>2. Len(m) <= message_length /\ call' = t /\ encoded' = Encoded(m)
  BY DEF Encode
<1>3. Len(Encoded(m)) = Len(m) + MinDistance
  BY <1>1, <1>2, EncodedTypes
<1>4. msgLength' = Len(m)
  <2>1. msgLength' = Len(Encoded(m)) - MinDistance
    BY <1>2 DEF msgLength
  <2> QED BY <1>1, <1>3, <2>1, FieldSize
<1>5. SubSeq(Encoded(m), 1, Len(m)) = m /\ IsCodeword(BlockPolynomial(Encoded(m)))
  BY <1>1, <1>2, EncodedVanishes
<1> HIDE DEF m
<1>6. IsCodeword(BlockPolynomial(encoded))' = IsCodeword(BlockPolynomial(Encoded(m)))
  BY <1>2 DEF IsCodeword, BlockPolynomial
<1> QED BY <1>2, <1>4, <1>5, <1>6 DEF EncodesCodeword, m

\* and no other step changes it before it is sent.
LEMMA CodewordKept ==
    ASSUME EncodesCodeword,
           (\E t : EncodeTooLong(t)) \/ DecodeStep \/ UNCHANGED vars
    PROVE  EncodesCodeword'
<1>1. ASSUME NEW t, EncodeTooLong(t) PROVE EncodesCodeword'
  BY <1>1 DEF EncodeTooLong, EncodesCodeword
<1>2. CASE DecodeStep
  <2>1. phase' # "encoded"
    <3>1. CASE TooManyErasures
      BY <3>1 DEF TooManyErasures
    <3>2. CASE Receive \/ NoErrors \/ FindSyndromes
      BY <3>2 DEF Receive, NoErrors, FindSyndromes
    <3>3. CASE NoDiscrepancy \/ Lengthen \/ Adjust
      BY <3>3 DEF NoDiscrepancy, Lengthen, Adjust, InLoop, UNCHANGEDbutMassey
    <3>4. CASE Factorize
      BY <3>4 DEF Factorize
    <3>5. CASE Locate \/ Correct
      BY <3>5 DEF Locate, Correct
    <3> QED BY <1>2, <3>1, <3>2, <3>3, <3>4, <3>5 DEF DecodeStep
  <2> QED BY <2>1 DEF EncodesCodeword
<1>3. CASE UNCHANGED vars
  <2>1. UNCHANGED <<phase, call, encoded>>
    BY <1>3 DEF vars, encoderVars
  <2> QED BY <2>1 DEF EncodesCodeword, msgLength, IsCodeword, BlockPolynomial
<1> QED BY <1>1, <1>2, <1>3

\* So it is in every step of a codec,
LEMMA CodewordNext ==
    ASSUME EncodesCodeword, [Next]_vars
    PROVE  EncodesCodeword'
<1>1. ASSUME NEW t \in Pending, Encode(t) PROVE EncodesCodeword'
  <2>1. t \in Transmissions
    BY <1>1, TransmissionsAssumption DEF Pending
  <2> QED BY <1>1, <2>1, TransmissionTypes, CodewordEncode
<1> QED BY <1>1, CodewordKept DEF Next, Rest

\* of libfec's interface, too.
LEMMA CodewordShimNext ==
    ASSUME PadInv, EncodesCodeword, [ShimNext]_shimVars
    PROVE  EncodesCodeword'
<1>1. ASSUME ThroughShim, NEW t \in ShimTransmissions[pad], EncodeRsChar(t) PROVE EncodesCodeword'
  <2>1. pad \in Pads
    BY <1>1 DEF PadInv, ThroughShim
  <2>2. IsTransmission(ForLibrary(t)) /\ Encode(ForLibrary(t))
    BY <1>1, <2>1, ShimTransmissionTypes DEF EncodeRsChar
  <2> QED BY <2>2, CodewordEncode
<1>2. CASE Next
  BY <1>2, CodewordNext
<1>3. CASE ShimRest \/ UNCHANGED shimVars
  BY <1>3, CodewordKept DEF ShimRest, shimVars
<1>4. CASE DecodeRsChar
  BY <1>4, CodewordKept DEF DecodeRsChar
<1> QED BY <1>1, <1>2, <1>3, <1>4 DEF ShimNext

\* What encode writes is the message and then the parity that makes the block a
\* multiple of the generator, whatever the code and the message, and however
\* short it is (rs_encode.c:3-34).
THEOREM EncodedIsCodeword == Spec => []EncodesCodeword
<1>1. Init => EncodesCodeword
  BY DEF Init, EncodesCodeword
<1>2. EncodesCodeword /\ [Next]_vars => EncodesCodeword'
  BY CodewordNext
<1> QED BY <1>1, <1>2, PTL DEF Spec

\* So it is for the blocks of libfec's interface (fec_shim.c:73-77).
THEOREM EncodedIsCodewordThroughShim == ShimSpec => []EncodesCodeword
<1>1. ShimInit => EncodesCodeword
  BY DEF ShimInit, Init, EncodesCodeword
<1>2. PadInv /\ EncodesCodeword /\ [ShimNext]_shimVars => EncodesCodeword'
  BY CodewordShimNext
<1> QED BY <1>1, <1>2, PadKept, ShimTypeInit, PTL DEF ShimSpec

------------------------------------------------------------------------------
(* The places of the roots.                                              *)

\* The gap between the generator's roots has an inverse, so that every root of
\* a locator belongs to a place (rs_decode.c:206-224).
GapIsUnit == \E u \in Nat : (RootGap * u) % N = 1

\* p is the place of the root x: its power with the gap is the inverse of x.
PlacePower(p) == field_pow(Exp[p], RootGap)
IsPlace(x, p) == x \in 1 .. N /\ p \in Elements /\ field_mul(PlacePower(p), x) = 1

\* Powers of a place are powers of the field's generator.
LEMMA PlacePowers ==
    ASSUME NEW p \in Elements
    PROVE  /\ Exp[p] \in 1 .. N
           /\ PlacePower(p) \in 1 .. N
           /\ \A k \in Nat : field_pow(PlacePower(p), k) = field_pow(Exp[1], p * (RootGap * k))
           /\ RootGap \in Nat /\ p \in Nat
<1> DEFINE g == Exp[1]
<1>0. N >= 2 /\ N \in Nat /\ RootGap \in Nat /\ p \in 0 .. N /\ p \in Nat
  BY FieldSize, CodeAssumption, Sizes DEF Elements
<1>1. g \in 1 .. N /\ Exp[p] = field_pow(g, p)
  BY <1>0, ExpIsPow
<1> HIDE DEF g
<1>2. Exp[p] \in 1 .. N
  BY <1>0, <1>1, PowLaws
<1>3. PlacePower(p) \in 1 .. N
  BY <1>0, <1>2, PowLaws DEF PlacePower
<1>4. ASSUME NEW k \in Nat PROVE field_pow(PlacePower(p), k) = field_pow(g, p * (RootGap * k))
  <2>1. RootGap * k \in Nat
    BY <1>0
  <2>2. field_pow(PlacePower(p), k) = field_pow(Exp[p], RootGap * k)
    BY <1>0, <1>2, PowPow DEF PlacePower
  <2> DEFINE e == RootGap * k
  <2> HIDE DEF e
  <2>3. e \in Nat
    BY <2>1 DEF e
  <2>4. field_pow(field_pow(g, p), e) = field_pow(g, p * e)
    BY <1>0, <1>1, <2>3, PowPow
  <2> QED BY <1>1, <2>2, <2>4 DEF e
<1> QED BY <1>0, <1>2, <1>3, <1>4 DEF g

\* What an error at p adds to a syndrome is a power of the inverse of its root.
LEMMA RootToPlace ==
    ASSUME NEW p \in Elements, NEW k \in 0 .. MinDistance - 1
    PROVE  /\ p % N \in 0 .. N - 1
           /\ field_pow(generator_roots[k], p % N) = field_pow(PlacePower(p), k + FirstRoot)
<1> DEFINE g == Exp[1]
           e == RootGap * (k + FirstRoot)
           a == generator_roots[k]
<1>0. N >= 2 /\ N \in Nat /\ RootGap \in Nat /\ FirstRoot \in Nat /\ p \in 0 .. N /\ p \in Nat
      /\ k \in Nat /\ k + FirstRoot \in Nat /\ e \in Nat
  <2>1. N >= 2 /\ N \in Nat /\ RootGap \in Nat /\ FirstRoot \in Nat /\ p \in 0 .. N /\ p \in Nat
        /\ k \in Nat
    BY FieldSize, CodeAssumption, Sizes DEF Elements
  <2> QED BY <2>1
<1>1. a = Exp[e % N]
  BY DEF generator_roots
<1> HIDE DEF e, a
<1>2. g \in 1 .. N /\ a = field_pow(g, e)
  BY <1>0, <1>1, ExpIsPow
<1>3. a \in 1 .. N
  <2> HIDE DEF g
  <2> QED BY <1>0, <1>2, PowLaws
<1>4. p % N \in 0 .. N - 1 /\ field_pow(a, p % N) = field_pow(a, p)
  <2>1. CASE p = N
    <3>1. p % N = 0 /\ 0 \in 0 .. N - 1
      BY <1>0, <2>1
    <3>2. field_pow(a, 0) = 1 /\ field_pow(a, N) = 1
      BY <1>0, <1>3, PowLaws, PowCycle
    <3> QED BY <2>1, <3>1, <3>2
  <2>2. CASE p # N
    BY <1>0, <2>2
  <2> QED BY <2>1, <2>2
<1>5. field_pow(a, p) = field_pow(g, e * p)
  <2> HIDE DEF g
  <2> QED BY <1>0, <1>2, PowPow
<1>6. e * p = p * (RootGap * (k + FirstRoot))
  <2> DEFINE w == RootGap * (k + FirstRoot)
  <2>1. e = w
    BY DEF e
  <2>2. w \in Nat
    BY <1>0, <2>1
  <2> HIDE DEF w, e
  <2>3. e * p = p * w
    BY <1>0, <2>1, <2>2
  <2> QED BY <2>3 DEF w
<1> QED BY <1>0, <1>4, <1>5, <1>6, PlacePowers DEF a, g

\* The place that the code finds for a root by its inverse is one,
LEMMA FitIsPlace ==
    ASSUME NEW x \in 1 .. N, NEW w \in Elements, field_pow(w, RootGap) = field_div(1, x)
    PROVE  IsPlace(x, Log[w])
<1>0. N >= 2
  BY FieldSize
<1>1. field_div(1, x) \in 1 .. N /\ field_mul(field_div(1, x), x) = 1 /\ 0 \notin 1 .. N
  BY <1>0, Nonzero
<1>2. w # 0
  <2>1. field_pow(0, RootGap) = 0
    BY DEF field_pow
  <2> QED BY <1>1, <2>1
<1>3. w \in 1 .. N
  BY <1>0, <1>2, Nonzero
<1>4. Log[w] \in 1 .. N /\ Exp[Log[w]] = w
  BY <1>0, <1>3, LogTable
<1>5. Log[w] \in Elements
  BY <1>0, <1>4, Nonzero
<1> QED BY <1>1, <1>4, <1>5 DEF IsPlace, PlacePower

\* there is one when the gap has an inverse,
LEMMA FitExists ==
    ASSUME GapIsUnit, NEW x \in 1 .. N
    PROVE  \E w \in Elements : field_pow(w, RootGap) = field_div(1, x)
<1>0. N >= 2 /\ N \in Nat \ {0} /\ RootGap \in Nat
  BY FieldSize, CodeAssumption, Sizes DEF Elements
<1> DEFINE y == field_div(1, x)
           i == Log[y]
           g == Exp[1]
<1>1. y \in 1 .. N
  BY <1>0, Nonzero
<1> HIDE DEF y
<1>2. i \in 1 .. N /\ Exp[i] = y
  BY <1>0, <1>1, LogTable
<1> HIDE DEF i
<1>3. PICK u \in Nat : (RootGap * u) % N = 1
  BY DEF GapIsUnit
<1> DEFINE c == (RootGap * u) \div N
           v == RootGap * u
<1>4. v = N * c + 1 /\ c \in Nat
  BY <1>0, <1>3
<1> HIDE DEF c, v
<1> DEFINE e == i * u
           w == field_pow(g, e)
<1>5. e \in Nat /\ i \in Nat
  BY <1>2
<1>6. e * RootGap = N * (i * c) + i
  <2>1. e * RootGap = i * v
    BY <1>0, <1>2 DEF v
  <2>2. i * (N * c + 1) = N * (i * c) + i
    BY <1>0, <1>2, <1>4
  <2> QED BY <1>4, <2>1, <2>2
<1> HIDE DEF e
<1>7. g \in 1 .. N /\ \A k \in Nat : Exp[k % N] = field_pow(g, k)
  BY <1>0, ExpIsPow
<1> HIDE DEF g
<1>8. w \in 1 .. N /\ field_pow(w, RootGap) = field_pow(g, e * RootGap)
  BY <1>0, <1>5, <1>7, PowLaws, PowPow
<1>9. field_pow(g, e * RootGap) = y
  <2> DEFINE k == e * RootGap
             q == i * c
  <2>1. k \in Nat /\ q \in Int /\ k = N * q + i /\ i \in 1 .. 2 * N
    BY <1>0, <1>2, <1>4, <1>5, <1>6
  <2> HIDE DEF k, q
  <2>2. Exp[k % N] = Exp[i]
    BY <1>0, <2>1, PowersRepeat
  <2> QED BY <1>2, <1>7, <2>1, <2>2 DEF k
<1>10. w \in Elements
  BY <1>0, <1>8, Nonzero
<1> QED BY <1>8, <1>9, <1>10 DEF y

\* and the root that an erasure gets from its place belongs to it.
LEMMA ErasureIsPlace ==
    ASSUME NEW p \in Elements
    PROVE  IsPlace(field_div(1, field_pow(Exp[p], RootGap)), p)
<1> DEFINE y == PlacePower(p)
           x == field_div(1, y)
<1>1. N >= 2 /\ y \in 1 .. N
  BY FieldSize, PlacePowers
<1> HIDE DEF y
<1>2. x \in 1 .. N /\ field_mul(x, y) = 1
  BY <1>1, Nonzero
<1> HIDE DEF x
<1>3. x \in Elements /\ y \in Elements
  BY <1>1, <1>2, Nonzero
<1>4. field_mul(y, x) = 1
  BY <1>1, <1>2, <1>3, MulMonoid
<1> QED BY <1>2, <1>4 DEF IsPlace, x, y, PlacePower

\* The value that Forney's formula gives, times a power of the generator's root.
LEMMA ErrorInSyndrome ==
    ASSUME NEW x, NEW p, IsPlace(x, p), NEW q \in Elements, NEW k \in 0 .. MinDistance - 1
    PROVE  field_mul(field_mul(field_pow(x, FirstRoot - 1), q), field_pow(generator_roots[k], p % N))
             = field_mul(field_mul(PlacePower(p), q), field_pow(PlacePower(p), k))
<1> DEFINE y == PlacePower(p)
           t == field_pow(x, FirstRoot - 1)
           a == field_pow(y, k)
           b == field_pow(y, FirstRoot)
           s == field_pow(x, FirstRoot)
<1>0. N >= 2 /\ FirstRoot \in Nat /\ k \in Nat /\ x \in 1 .. N /\ p \in Elements
      /\ field_mul(y, x) = 1
  BY FieldSize, CodeAssumption, Sizes DEF IsPlace, Elements
<1>1. y \in 1 .. N
  BY <1>0, PlacePowers
<1>2. field_pow(generator_roots[k], p % N) = field_pow(y, k + FirstRoot)
  BY <1>0, RootToPlace
<1> HIDE DEF y
<1>3. t \in 1 .. N /\ field_mul(t, x) = s /\ a \in 1 .. N /\ b \in 1 .. N /\ s \in 1 .. N
  BY <1>0, <1>1, PowBefore, PowLaws
<1>4. field_pow(y, k + FirstRoot) = field_mul(a, b)
  BY <1>0, <1>1, PowLaws
<1>5. field_mul(b, s) = 1
  BY <1>0, <1>1, PowInverse
<1> HIDE DEF t, a, b, s
<1>6. /\ t \in Elements /\ a \in Elements /\ b \in Elements /\ s \in Elements
      /\ x \in Elements /\ y \in Elements
  BY <1>0, <1>1, <1>3, Nonzero
<1>7. field_mul(t, b) = y
  <2> DEFINE u == field_mul(t, b)
  <2>1. u \in Elements
    BY <1>0, <1>6, MulMonoid
  <2>2. field_mul(u, x) = 1
    <3>1. field_mul(field_mul(t, b), x) = field_mul(t, field_mul(b, x))
          /\ field_mul(b, x) = field_mul(x, b)
          /\ field_mul(field_mul(t, x), b) = field_mul(t, field_mul(x, b))
          /\ field_mul(s, b) = field_mul(b, s)
      BY <1>0, <1>6, MulMonoid
    <3> QED BY <1>3, <1>5, <3>1
  <2> HIDE DEF u
  <2>3. field_mul(u, field_mul(x, y)) = u
    <3>1. field_mul(x, y) = 1 /\ field_mul(u, 1) = u
      BY <1>0, <1>6, <2>1, MulMonoid, ZeroInElements
    <3> QED BY <3>1
  <2>4. field_mul(field_mul(u, x), y) = field_mul(u, field_mul(x, y))
    BY <1>0, <1>6, <2>1, MulMonoid
  <2>5. field_mul(1, y) = y
    BY <1>0, <1>6, MulMonoid
  <2> QED BY <2>2, <2>3, <2>4, <2>5 DEF u
<1>8. field_mul(field_mul(t, q), field_mul(a, b)) = field_mul(field_mul(y, q), a)
  <2>1. field_mul(a, b) = field_mul(b, a) /\ field_mul(t, q) = field_mul(q, t)
        /\ field_mul(y, q) = field_mul(q, y)
    BY <1>0, <1>6, MulMonoid
  <2> DEFINE qt == field_mul(q, t)
  <2>2. qt \in Elements
    BY <1>0, <1>6, MulMonoid
  <2>3. field_mul(qt, b) = field_mul(q, field_mul(t, b))
    BY <1>0, <1>6, MulMonoid
  <2> HIDE DEF qt
  <2>4. field_mul(field_mul(qt, b), a) = field_mul(qt, field_mul(b, a))
    BY <1>0, <1>6, <2>2, MulMonoid
  <2> QED BY <1>7, <2>1, <2>3, <2>4 DEF qt
<1> QED BY <1>2, <1>4, <1>8 DEF y, t, a

\* What the errors add to the syndromes: the terms of a repaired block's value.
IsRepairTerms(B, a) ==
    \A k \in 0 .. FullOrder :
        B[k] = IF k = 0 THEN ValueAt(received, N - 1, a)
               ELSE field_mul(vals[k - 1], field_pow(a, locations[k - 1] % N))

\* The array after the repair, with the byte behind it, place by place.
LEMMA FoldedPlaces ==
    ASSUME received \in [0 .. N -> Elements],
           vals \in [0 .. MinDistance - 1 -> Elements],
           locations \in [0 .. MinDistance - 1 -> Elements],
           FullOrder \in Nat, FullOrder <= MinDistance, NEW p \in 0 .. N - 1
    PROVE  Folded[p] = FieldTotal([k \in 0 .. FullOrder |->
                           IF k = 0 THEN received[p]
                           ELSE IF locations[k - 1] % N = p THEN vals[k - 1] ELSE 0], 0, FullOrder)
<1> DEFINE q == FullOrder
           t == [k \in 0 .. q |-> IF k = 0 THEN received[p]
                                  ELSE IF locations[k - 1] % N = p THEN vals[k - 1] ELSE 0]
           u == [k \in 0 .. q |-> IF k = 0 THEN received[p]
                                  ELSE IF locations[k - 1] = p THEN vals[k - 1] ELSE 0]
<1>0. N >= 2 /\ N \in Nat /\ 0 \in Elements /\ 1 \in Elements /\ 0 \in 0 .. q /\ q \in Nat
  BY FieldSize, ZeroInElements
<1>1. \A k \in 0 .. q : k = 0 \/ (k - 1 \in 0 .. MinDistance - 1 /\ k - 1 \in 0 .. q - 1)
  BY FieldSize
<1>2. \A k \in 0 .. q : k # 0 => locations[k - 1] \in 0 .. N /\ vals[k - 1] \in Elements
  BY <1>1 DEF Elements
<1>3. received[p] \in Elements /\ p \in 0 .. N
  BY <1>0
<1>4. Terms(u, q)
  BY <1>0, <1>2, <1>3 DEF Terms
<1>5. Repaired[p] = FieldTotal(u, 0, q)
  BY <1>3 DEF Repaired
<1>6. CASE p # 0
  <2>1. \A k \in 0 .. q : k # 0 => (locations[k - 1] % N = p <=> locations[k - 1] = p)
    <3> SUFFICES ASSUME NEW k \in 0 .. q, k # 0
                 PROVE  locations[k - 1] % N = p <=> locations[k - 1] = p
      OBVIOUS
    <3> DEFINE l == locations[k - 1]
    <3>1. l \in 0 .. N
      BY <1>2
    <3> HIDE DEF l
    <3>2. CASE l = N
      <4>1. l % N = 0
        BY <1>0, <3>2
      <4> QED BY <1>0, <1>6, <3>2, <4>1 DEF l
    <3>3. CASE l # N
      <4>1. l % N = l
        BY <1>0, <3>1, <3>3
      <4> QED BY <4>1 DEF l
    <3> QED BY <3>2, <3>3
  <2>2. t = u
    BY <2>1
  <2>3. Folded[p] = Repaired[p]
    BY <1>6 DEF Folded
  <2> QED BY <1>5, <2>2, <2>3
<1>7. CASE p = 0
  <2> DEFINE R == Repaired[0]
             s == [k \in 0 .. q |-> IF k = 0 THEN R ELSE 0]
             b == [k \in 0 .. q |-> IF k = 0 THEN 0
                                    ELSE IF locations[k - 1] = N THEN vals[k - 1] ELSE 0]
             e == [k \in 0 .. q |-> IF k = 0 THEN R
                                    ELSE IF k - 1 \in {i \in 0 .. q - 1 : locations[i] = N}
                                         THEN vals[k - 1] ELSE 0]
  <2>1. Folded[p] = FieldTotal(e, 0, q)
    BY <1>7 DEF Folded
  <2>2. R = FieldTotal(u, 0, q) /\ R \in Elements
    <3>1. R = FieldTotal(u, 0, q)
      BY <1>5, <1>7
    <3> HIDE DEF u, q, R
    <3> QED BY <1>0, <1>4, <3>1, TotalType
  <2> HIDE DEF R
  <2>3. Terms(s, q) /\ FieldTotal(s, 0, q) = R
    <3>1. s[0] \in Elements /\ s[0] = R /\ \A k \in 0 .. q : k # 0 => s[k] = 0
      BY <1>0, <2>2
    <3> HIDE DEF s, q
    <3> QED BY <1>0, <3>1, TotalSingle
  <2>4. Terms(b, q)
    BY <1>0, <1>2 DEF Terms
  <2>5. ASSUME NEW k \in 0 .. q
        PROVE  /\ e[k] = field_add(s[k], field_mul(1, b[k]))
               /\ t[k] = field_add(u[k], field_mul(1, b[k]))
    <3>1. b[k] \in Elements /\ field_mul(1, b[k]) = b[k] /\ s[k] \in Elements /\ u[k] \in Elements
      <4>1. b[k] \in Elements /\ s[k] \in Elements /\ u[k] \in Elements
        BY <1>4, <2>3, <2>4 DEF Terms
      <4> HIDE DEF b, s, u
      <4> QED BY <1>0, <4>1, MulMonoid
    <3>2. field_add(s[k], b[k]) = e[k] /\ field_add(u[k], b[k]) = t[k]
      <4>1. CASE k = 0
        <5>1. b[k] = 0 /\ e[k] = s[k] /\ t[k] = u[k]
          BY <4>1, <1>7
        <5> HIDE DEF b, s, u, e, t
        <5> QED BY <3>1, <5>1, AddGroup
      <4>2. CASE k # 0
        <5> DEFINE l == locations[k - 1]
                   v == vals[k - 1]
        <5>1. l \in 0 .. N /\ v \in Elements /\ k - 1 \in 0 .. q - 1
          BY <1>1, <1>2, <4>2
        <5>2. /\ b[k] = (IF l = N THEN v ELSE 0) /\ s[k] = 0
              /\ u[k] = (IF l = 0 THEN v ELSE 0)
              /\ e[k] = (IF l = N THEN v ELSE 0)
              /\ t[k] = (IF l % N = 0 THEN v ELSE 0)
          BY <1>7, <4>2, <5>1
        <5> HIDE DEF l, v, b, s, u, e, t
        <5>3. l % N = 0 <=> (l = 0 \/ l = N)
          <6>1. CASE l = N
            BY <1>0, <6>1
          <6>2. CASE l # N
            <7>1. l % N = l
              BY <1>0, <5>1, <6>2
            <7> QED BY <6>2, <7>1
          <6> QED BY <6>1, <6>2
        <5>4. field_add(0, v) = v /\ field_add(v, 0) = v /\ field_add(0, 0) = 0
          BY <1>0, <5>1, AddGroup
        <5>5. N # 0
          BY <1>0
        <5> QED BY <5>2, <5>3, <5>4, <5>5
      <4> QED BY <4>1, <4>2
    <3> QED BY <3>1, <3>2
  <2> HIDE DEF t, u, s, b, e, q
  <2>0. N >= 2 /\ q \in Nat /\ 1 \in Elements
    BY <1>0, MulMonoid DEF q
  <2>8. \A k \in 0 .. q : e[k] = field_add(s[k], field_mul(1, b[k]))
    BY <2>5
  <2>9. \A k \in 0 .. q : t[k] = field_add(u[k], field_mul(1, b[k]))
    BY <2>5
  <2>6. FieldTotal(e, 0, q) = field_add(FieldTotal(s, 0, q), field_mul(1, FieldTotal(b, 0, q)))
    BY <2>0, <2>3, <2>4, <2>8, TotalAdds
  <2>7. FieldTotal(t, 0, q) = field_add(FieldTotal(u, 0, q), field_mul(1, FieldTotal(b, 0, q)))
    BY <2>0, <1>4, <2>4, <2>9, TotalAdds
  <2> QED BY <2>1, <2>2, <2>3, <2>6, <2>7 DEF t, q
<1> QED BY <1>6, <1>7

\* So its value is that of the received one and what the errors add.
LEMMA FoldedValue ==
    ASSUME received \in [0 .. N -> Elements],
           vals \in [0 .. MinDistance - 1 -> Elements],
           locations \in [0 .. MinDistance - 1 -> Elements],
           FullOrder \in Nat, FullOrder <= MinDistance, NEW a \in 1 .. N,
           NEW B, IsRepairTerms(B, a)
    PROVE  Value(Folded, a) = FieldTotal(B, 0, FullOrder)
<1> DEFINE q == FullOrder
           n == N - 1
           C == [k \in 0 .. q |-> [p \in 0 .. n |->
                    IF k = 0 THEN received[p]
                    ELSE IF locations[k - 1] % N = p THEN vals[k - 1] ELSE 0]]
<1>0. N >= 2 /\ N \in Nat /\ n \in Nat /\ 0 \in Elements /\ 1 \in Elements /\ 0 \in 0 .. q
      /\ q \in Nat /\ a \in Elements /\ (\A p \in 0 .. n : p \in 0 .. N)
  BY FieldSize, ZeroInElements, Nonzero
<1>1. \A k \in 0 .. q : k # 0 => locations[k - 1] \in 0 .. N /\ vals[k - 1] \in Elements
  <2>1. \A k \in 0 .. q : k # 0 => k - 1 \in 0 .. MinDistance - 1
    BY FieldSize
  <2> QED BY <2>1 DEF Elements
<1>2. AllTerms(C, q, n)
  BY <1>0, <1>1 DEF AllTerms, Terms
<1>3. AreTotals(Folded, n, C, q)
  <2> SUFFICES ASSUME NEW p \in 0 .. n
               PROVE  Folded[p] = FieldTotal([k \in 0 .. q |-> C[k][p]], 0, q)
    BY DEF AreTotals
  <2>1. [k \in 0 .. q |-> C[k][p]]
          = [k \in 0 .. q |-> IF k = 0 THEN received[p]
                              ELSE IF locations[k - 1] % N = p THEN vals[k - 1] ELSE 0]
    OBVIOUS
  <2> QED BY <2>1, FoldedPlaces
<1>4. ASSUME NEW k \in 0 .. q PROVE B[k] = ValueAt(C[k], n, a)
  <2>1. CASE k = 0
    <3>1. Powers(C[k], n, a) = Powers(received, n, a)
      BY <2>1 DEF Powers
    <3>2. B[k] = ValueAt(received, n, a)
      BY <2>1 DEF IsRepairTerms
    <3> QED BY <3>1, <3>2 DEF ValueAt
  <2>2. CASE k # 0
    <3> DEFINE m == locations[k - 1] % N
               v == vals[k - 1]
               w == field_pow(a, m)
               P == Powers(C[k], n, a)
               l == locations[k - 1]
    <3>1. v \in Elements /\ l \in 0 .. N
      BY <1>1, <2>2
    <3>2. l % N \in 0 .. n /\ l % N \in Nat
      <4> HIDE DEF l
      <4> QED BY <1>0, <3>1
    <3>3. m \in 0 .. n /\ m \in Nat
      BY <3>2
    <3>4. \A p \in 0 .. n : P[p] = field_mul(IF m = p THEN v ELSE 0, field_pow(a, p))
      BY <2>2 DEF Powers
    <3>5. B[k] = field_mul(v, w)
      BY <2>2 DEF IsRepairTerms
    <3>6. FieldTotal(P, 0, n) = ValueAt(C[k], n, a)
      BY DEF ValueAt
    <3> HIDE DEF m, v, P, l, C, n
    <3>7. w \in 1 .. N
      BY <1>0, <3>3, PowLaws
    <3> HIDE DEF w
    <3>8. w \in Elements
      BY <1>0, <3>7, Nonzero
    <3>9. P[m] = field_mul(v, w) /\ P[m] \in Elements /\ \A p \in 0 .. n : p # m => P[p] = 0
      <4>1. P[m] = field_mul(v, w)
        BY <3>3, <3>4 DEF w
      <4>2. field_mul(v, w) \in Elements
        BY <1>0, <3>1, <3>8, MulMonoid
      <4>3. \A p \in 0 .. n : p # m => P[p] = 0
        BY <1>0, <3>4, MulMonoid
      <4> QED BY <4>1, <4>2, <4>3
    <3>10. FieldTotal(P, 0, n) = P[m]
      BY <1>0, <3>3, <3>9, TotalSingle
    <3> QED BY <3>5, <3>6, <3>9, <3>10
  <2> QED BY <2>1, <2>2
<1>5. AreValues(B, C, n, a, q)
  BY <1>4 DEF AreValues
<1> HIDE DEF C, q
<1>6. ValueAt(Folded, n, a) = FieldTotal(B, 0, q)
  <2> HIDE DEF n
  <2> QED BY <1>0, <1>2, <1>3, <1>5, ValueOfTotals
<1>7. Value(Folded, a) = ValueAt(Folded, n, a)
  BY DEF Value, ValueAt, Powers
<1> QED BY <1>6, <1>7 DEF q

------------------------------------------------------------------------------
(* A repaired block is a codeword.                                       *)

\* T is what is left of S when the factor G of order rho is taken out.
IsModified(T, G, rho, S) ==
    \A k \in 0 .. MinDistance - 1 - rho :
        T[k] = polynomial_mul(G, rho, S, MinDistance - 1, MinDistance - 1)[k + rho]

\* A register for what is left is, times that factor, one for all of S.
LEMMA RegisterTimesErasures ==
    ASSUME NEW rho \in Nat, NEW nu \in Nat, NEW G, Terms(G, rho), NEW C, Terms(C, nu),
           NEW S \in [0 .. MinDistance - 1 -> Elements],
           NEW T \in [0 .. MinDistance - 1 -> Elements], IsModified(T, G, rho, S),
           \A k \in nu .. MinDistance - 1 - rho : Output(C, T, nu, k) = 0,
           NEW j \in rho + nu .. MinDistance - 1
    PROVE  Conv(polynomial_mul(G, rho, C, nu, rho + nu), rho + nu, S, j) = 0
<1> DEFINE r == MinDistance - 1
           U == [i \in 0 .. r |-> Conv(C, nu, S, i)]
           V == [i \in 0 .. r |-> Conv(G, rho, S, i)]
           g == [i \in 0 .. nu |-> field_mul(C[i], V[j - i])]
           k == j - rho
<1>0. N >= 2 /\ r \in Nat /\ j \in 0 .. r /\ k \in nu .. MinDistance - 1 - rho /\ j \in nu .. r
  BY FieldSize
<1>1. Terms(S, r)
  BY DEF Terms
<1>2. IsConv(U, C, nu, S, r) /\ IsConv(V, G, rho, S, r)
  BY DEF IsConv
<1>3. Terms(V, r)
  <2> SUFFICES ASSUME NEW i \in 0 .. r PROVE V[i] \in Elements
    BY DEF Terms
  <2>1. V[i] = Conv(G, rho, S, i)
    OBVIOUS
  <2> HIDE DEF V, r
  <2> QED BY <1>0, <1>1, <2>1, ConvType
<1>4. \A i \in 0 .. nu : V[j - i] = T[k - i]
  <2> SUFFICES ASSUME NEW i \in 0 .. nu PROVE V[j - i] = T[k - i]
    OBVIOUS
  <2> DEFINE e == k - i
  <2>1. e \in 0 .. MinDistance - 1 - rho /\ e + rho = j - i /\ j - i \in 0 .. r
    BY <1>0
  <2>2. T[e] = polynomial_mul(G, rho, S, r, r)[e + rho]
    BY <2>1 DEF IsModified
  <2>3. V[j - i] = Conv(G, rho, S, j - i)
    BY <2>1
  <2> HIDE DEF V, e, k
  <2>4. polynomial_mul(G, rho, S, r, r)[j - i] = Conv(G, rho, S, j - i)
    <3> DEFINE l == j - i
    <3>1. l \in 0 .. r
      BY <2>1
    <3> HIDE DEF l, r
    <3> QED BY <1>0, <3>1, MulIsConv DEF l
  <2> QED BY <2>1, <2>2, <2>3, <2>4 DEF e
<1>5. Output(C, T, nu, k) = FieldTotal(g, 0, nu)
  <2>1. g = [i \in 0 .. nu |-> field_mul(C[i], T[k - i])]
    <3> HIDE DEF V, k
    <3> QED BY <1>4
  <2> HIDE DEF g
  <2> QED BY <2>1 DEF Output
<1>6. Output(C, T, nu, k) = 0
  BY <1>0
<1>7. LongTerms(g, C, nu, V, j)
  <2> HIDE DEF V
  <2> QED BY DEF LongTerms
<1> HIDE DEF U, V, g, k, r
<1>8. Conv(C, nu, V, j) = FieldTotal(g, 0, nu)
  BY <1>0, <1>3, <1>7, ConvLong
<1>9. Conv(G, rho, U, j) = Conv(C, nu, V, j)
  BY <1>0, <1>1, <1>2, ConvSwaps
<1>10. Conv(polynomial_mul(G, rho, C, nu, rho + nu), rho + nu, S, j) = Conv(G, rho, U, j)
  BY <1>0, <1>1, <1>2, ConvOfProduct
<1> QED BY <1>5, <1>6, <1>8, <1>9, <1>10

\* Without erasures it is one for S already.
LEMMA RegisterAlone ==
    ASSUME NEW nu \in Nat, NEW C, Terms(C, nu), NEW S \in [0 .. MinDistance - 1 -> Elements],
           \A k \in nu .. MinDistance - 1 : Output(C, S, nu, k) = 0,
           NEW j \in nu .. MinDistance - 1, NEW F, \A i \in 0 .. nu : F[i] = C[i]
    PROVE  Conv(F, nu, S, j) = 0
<1> DEFINE r == MinDistance - 1
           g == [i \in 0 .. nu |-> field_mul(C[i], S[j - i])]
<1>0. N >= 2 /\ r \in Nat /\ j \in nu .. r
  BY FieldSize
<1>1. Terms(S, r) /\ Terms(F, nu)
  BY DEF Terms
<1>2. Output(C, S, nu, j) = FieldTotal(g, 0, nu) /\ Output(C, S, nu, j) = 0
  BY DEF Output
<1>3. LongTerms(g, F, nu, S, j)
  BY DEF LongTerms
<1> HIDE DEF g, r
<1>4. Conv(F, nu, S, j) = FieldTotal(g, 0, nu)
  BY <1>0, <1>1, <1>3, ConvLong
<1> QED BY <1>2, <1>4

------------------------------------------------------------------------------
\* Forney's quotient for the root x.
Quotients(x) ==
    field_div(ValueAt(polynomial_mul(FullLocator, FullOrder, syndromes, MinDistance - 1,
                                     MinDistance - 1), MinDistance - 1, x),
              ValueAt(polynomial_formal_derivative(FullLocator, FullOrder), FullOrder - 1, x))

\* Before the repair: the full locator is a register for the syndromes of the
\* received block, and for each of its roots there are a place and a value.
Located ==
    /\ syndromes = Syndromes(received)
    /\ FullLocator[0] # 0
    /\ \A j \in FullOrder .. MinDistance - 1 : Conv(FullLocator, FullOrder, syndromes, j) = 0
    /\ locator.order < MinDistance =>
           \A k \in 0 .. FullOrder - 1 :
               /\ IsPlace(roots[k], locations[k])
               /\ ValueAt(FullLocator, FullOrder, roots[k]) = 0
               /\ vals[k] = field_mul(field_pow(roots[k], FirstRoot - 1), Quotients(roots[k]))

\* The syndromes are values of the received polynomial.
LEMMA SyndromeIsValue ==
    ASSUME NEW poly \in [0 .. N -> Elements], NEW k \in 0 .. MinDistance - 1
    PROVE  /\ generator_roots[k] \in 1 .. N
           /\ Syndromes(poly)[k] = ValueAt(poly, N - 1, generator_roots[k])
<1> DEFINE a == generator_roots[k]
           n == N - 1
<1>0. N >= 2 /\ n \in Nat /\ n <= n /\ a \in 1 .. N
  BY FieldSize, GeneratorVanishes
<1>1. Terms(poly, n)
  BY <1>0, FieldSize DEF Terms
<1>2. Syndromes(poly)[k] = polynomial_eval_lut(poly, n, polynomial_build_exp_lut(a, n))
  BY DEF Syndromes, generator_root_exp
<1> HIDE DEF a, n
<1>3. polynomial_eval_lut(poly, n, polynomial_build_exp_lut(a, n)) = ValueAt(poly, n, a)
  BY <1>0, <1>1, EvalIsValue
<1> QED BY <1>0, <1>2, <1>3 DEF a, n

\* Without roots the syndromes are zero already.
LEMMA NoRootsNoErrors ==
    ASSUME syndromes \in [0 .. MinDistance - 1 -> Elements],
           FullOrder = 0, FullLocator \in [0 .. FullOrder -> Elements], Located,
           NEW j \in 0 .. MinDistance - 1
    PROVE  syndromes[j] = 0
<1> DEFINE r == MinDistance - 1
           g == [i \in 0 .. 0 |-> field_mul(FullLocator[i], syndromes[j - i])]
           L == FullLocator
           S == syndromes
<1>0. N >= 2 /\ 0 \in Nat /\ r \in Nat /\ j \in 0 .. r /\ 0 \in 0 .. 0 /\ j - 0 = j
  BY FieldSize
<1>1. Terms(S, r) /\ Terms(L, 0) /\ L[0] # 0 /\ Conv(L, 0, S, j) = 0
      /\ L[0] \in Elements /\ S[j] \in Elements
  BY <1>0 DEF Terms, Located
<1>2. LongTerms(g, L, 0, S, j)
  BY DEF LongTerms
<1>3. g[0] = field_mul(L[0], S[j])
  BY <1>0
<1> HIDE DEF r, g, L, S
<1>4. Terms(g, 0) /\ Conv(L, 0, S, j) = FieldTotal(g, 0, 0)
  BY <1>0, <1>1, <1>2, ConvLong
<1>5. g[0] = 0
  BY <1>1, <1>4, TotalOfOne
<1> QED BY <1>0, <1>1, <1>3, <1>5, Nonzero DEF S

\* With distinct roots the repaired block is a codeword.
LEMMA LocatedIsCodeword ==
    ASSUME TypeInv, phase = "located", Located
    PROVE  SuccessIsCodeword
<1> DEFINE q == FullOrder
           r == MinDistance - 1
           n == q - 1
           L == FullLocator
           S == syndromes
<1>0. /\ N >= 2 /\ N \in Nat /\ r \in Nat /\ q \in Nat /\ q <= MinDistance
      /\ L \in [0 .. q -> Elements]
      /\ S \in [0 .. r -> Elements]
      /\ received \in [0 .. N -> Elements]
      /\ vals \in [0 .. MinDistance - 1 -> Elements]
      /\ locations \in [0 .. MinDistance - 1 -> Elements]
  <2>1. /\ TypeOK /\ numErasures \in Nat /\ FullOrder <= MinDistance
    BY DEF TypeInv, BlockInv, IInv
  <2>2. locator.order \in Nat /\ locator.coeff \in [Coefficients -> Elements]
        /\ erasureLocator \in [Coefficients -> Elements]
    BY <2>1 DEF TypeOK, Polynomials, Coefficients
  <2> QED BY <2>1, <2>2, FullLocatorTypes, FieldSize DEF TypeOK
<1> SUFFICES ASSUME locator.order < MinDistance,
                    \A j, k \in 0 .. FullOrder - 1 : roots[j] = roots[k] => j = k,
                    NEW j \in 0 .. MinDistance - 1
             PROVE  Value(Folded, generator_roots[j]) = 0
  BY DEF SuccessIsCodeword, IsCodeword
<1> DEFINE a == generator_roots[j]
           B == [k \in 0 .. q |-> IF k = 0 THEN ValueAt(received, N - 1, a)
                                  ELSE field_mul(vals[k - 1], field_pow(a, locations[k - 1] % N))]
<1>1. j \in 0 .. r /\ a \in 1 .. N /\ S[j] = ValueAt(received, N - 1, a)
  BY <1>0, SyndromeIsValue DEF Located
<1>2. Value(Folded, a) = FieldTotal(B, 0, q)
  <2>1. IsRepairTerms(B, a)
    BY DEF IsRepairTerms
  <2> HIDE DEF B, a
  <2> QED BY <1>0, <1>1, <2>1, FoldedValue
<1>3. CASE q = 0
  <2>1. S[j] = 0
    BY <1>0, <1>3, NoRootsNoErrors
  <2>2. \A k \in 0 .. q : B[k] = 0
    BY <1>1, <1>3, <2>1
  <2> HIDE DEF B
  <2>3. FieldTotal(B, 0, q) = 0
    <3> HIDE DEF q
    <3> QED BY <1>0, <2>2, TotalOfZeros
  <2> QED BY <1>2, <2>3
<1>4. CASE q # 0
  <2> DEFINE z == [k \in 1 .. q |-> roots[k - 1]]
             y == [k \in 1 .. q |-> PlacePower(locations[k - 1])]
             F == [k \in 0 .. q |-> [i \in 0 .. r |->
                      IF k = 0 THEN S[i]
                      ELSE field_mul(vals[k - 1],
                                     field_pow(generator_roots[i], locations[k - 1] % N))]]
  <2>1. n \in Nat /\ n + 1 = q /\ n <= r
    <3> HIDE DEF q
    <3> QED BY <1>0, <1>4, FieldSize
  <2>2. ASSUME NEW k \in 1 .. q
        PROVE  /\ k - 1 \in 0 .. FullOrder - 1
               /\ IsPlace(roots[k - 1], locations[k - 1])
               /\ ValueAt(L, q, roots[k - 1]) = 0
               /\ vals[k - 1] = field_mul(field_pow(roots[k - 1], FirstRoot - 1),
                                          Quotients(roots[k - 1]))
               /\ Quotients(roots[k - 1]) \in Elements
    <3> DEFINE x == roots[k - 1]
    <3>1. k - 1 \in 0 .. FullOrder - 1
      BY <1>0
    <3>2. IsPlace(x, locations[k - 1]) /\ ValueAt(L, q, x) = 0
          /\ vals[k - 1] = field_mul(field_pow(x, FirstRoot - 1), Quotients(x))
      BY <3>1 DEF Located
    <3>3. x \in 1 .. N
      BY <3>2 DEF IsPlace
    <3> HIDE DEF x
    <3>4. Quotients(x) \in Elements
      <4> DEFINE w == polynomial_mul(L, q, S, r, r)
                 d == polynomial_formal_derivative(L, q)
      <4>1. Quotients(x) = field_div(ValueAt(w, r, x), ValueAt(d, n, x))
        BY DEF Quotients
      <4>2. Terms(w, r)
        <5>1. Terms(L, q) /\ Terms(S, r)
          BY <1>0 DEF Terms
        <5> HIDE DEF L, q, S, r
        <5>2. w \in [0 .. r -> Elements]
          BY <1>0, <5>1, MulType
        <5> HIDE DEF w
        <5> QED BY <5>2 DEF Terms
      <4>3. Terms(d, n)
        <5> SUFFICES ASSUME NEW i \in 0 .. n PROVE d[i] \in Elements
          BY DEF Terms
        <5>1. i \in 0 .. q - 1 /\ i + 1 \in 0 .. q
          BY <1>0
        <5>2. L[i + 1] \in Elements /\ 0 \in Elements
          BY <1>0, <5>1, ZeroInElements
        <5>3. d[i] = field_sum(L[i + 1], i + 1)
          BY <5>1 DEF polynomial_formal_derivative
        <5> HIDE DEF d, L
        <5> QED BY <5>2, <5>3 DEF field_sum
      <4> HIDE DEF w, d, n, r
      <4>4. ValueAt(w, r, x) \in Elements /\ ValueAt(d, n, x) \in Elements
        BY <1>0, <2>1, <3>3, <4>2, <4>3, ValueType
      <4> QED BY <1>0, <4>1, <4>4, DivLaws
    <3> QED BY <3>1, <3>2, <3>4 DEF x
  <2>3. HasRoots(L, n + 1, n + 1, z)
    <3>1. \A k \in 1 .. q : z[k] = roots[k - 1] /\ k - 1 \in 0 .. FullOrder - 1
      BY <1>0
    <3> HIDE DEF z
    <3>2. \A k \in 1 .. n + 1 : z[k] \in 1 .. N /\ ValueAt(L, n + 1, z[k]) = 0
      BY <2>1, <2>2, <3>1 DEF IsPlace
    <3>3. \A i, k \in 1 .. n + 1 : z[i] = z[k] => i = k
      <4> SUFFICES ASSUME NEW i \in 1 .. q, NEW k \in 1 .. q, z[i] = z[k] PROVE i = k
        BY <2>1
      <4>1. i - 1 = k - 1
        BY <3>1
      <4> QED BY <1>0, <4>1
    <3> QED BY <3>2, <3>3 DEF HasRoots
  <2>4. IsForneyTable(F, L, n, S, r, z, y)
    <3>1. \A i \in 0 .. r : F[0][i] = S[i]
      BY <1>0
    <3>2. \A k \in 1 .. n + 1 : y[k] \in 1 .. N /\ field_mul(y[k], z[k]) = 1
      <4> SUFFICES ASSUME NEW k \in 1 .. q PROVE y[k] \in 1 .. N /\ field_mul(y[k], z[k]) = 1
        BY <2>1
      <4>1. IsPlace(roots[k - 1], locations[k - 1])
        BY <2>2
      <4>2. y[k] = PlacePower(locations[k - 1]) /\ z[k] = roots[k - 1]
        OBVIOUS
      <4> HIDE DEF y, z
      <4> QED BY <4>1, <4>2, PlacePowers DEF IsPlace
    <3>3. ASSUME NEW k \in 1 .. q, NEW i \in 0 .. r
          PROVE  F[k][i] = field_mul(Forney(L, n, polynomial_mul(L, n + 1, S, r, r), r, z[k], y[k]),
                                     field_pow(y[k], i))
      <4> DEFINE x == roots[k - 1]
                 p == locations[k - 1]
                 Q == Quotients(x)
      <4>1. k \in 0 .. q /\ k # 0 /\ i \in 0 .. MinDistance - 1
        BY <1>0
      <4>2. IsPlace(x, p) /\ Q \in Elements
            /\ vals[k - 1] = field_mul(field_pow(x, FirstRoot - 1), Q)
        BY <2>2
      <4>3. F[k][i] = field_mul(vals[k - 1], field_pow(generator_roots[i], p % N))
        BY <4>1
      <4>4. z[k] = x /\ y[k] = PlacePower(p)
        OBVIOUS
      <4>5. Forney(L, n, polynomial_mul(L, n + 1, S, r, r), r, x, PlacePower(p))
              = field_mul(PlacePower(p), Q)
        BY <2>1 DEF Forney, Quotients
      <4> HIDE DEF x, p, Q, F, z, y
      <4>6. field_mul(field_mul(field_pow(x, FirstRoot - 1), Q), field_pow(generator_roots[i], p % N))
              = field_mul(field_mul(PlacePower(p), Q), field_pow(PlacePower(p), i))
        BY <4>1, <4>2, ErrorInSyndrome
      <4> QED BY <4>2, <4>3, <4>4, <4>5, <4>6
    <3> HIDE DEF F, z, y
    <3> QED BY <2>1, <3>1, <3>2, <3>3 DEF IsForneyTable
  <2>5. \A k \in 0 .. q : B[k] = F[k][j]
    <3> SUFFICES ASSUME NEW k \in 0 .. q PROVE B[k] = F[k][j]
      OBVIOUS
    <3> QED BY <1>1
  <2>6. IsColumn(B, F, n + 1, j)
    <3> HIDE DEF F, B
    <3> QED BY <2>1, <2>5 DEF IsColumn
  <2>7. /\ Terms(L, n + 1) /\ L[0] # 0 /\ Terms(S, r)
        /\ Solves(L, n + 1, S, r)
    BY <1>0, <2>1 DEF Located, Terms, Solves
  <2> HIDE DEF F, z, y, B, L, S, n, r, q
  <2>8. FieldTotal(B, 0, n + 1) = 0
    <3>1. N >= 2 /\ n \in Nat /\ r \in Nat /\ n <= r /\ j \in 0 .. r
      BY <1>0, <1>1, <2>1
    <3> QED BY <2>3, <2>4, <2>6, <2>7, <3>1, ForneyIsRight
  <2> QED BY <1>2, <2>1, <2>8 DEF a
<1> QED BY <1>3, <1>4

\* Each erasure has its place, and its root is one of the erasure locator.
ErasuresPlaced ==
    /\ erasureLocator[0] # 0
    /\ \A k \in 0 .. numErasures - 1 :
           /\ IsPlace(roots[k], locations[k])
           /\ ValueAt(erasureLocator, numErasures, roots[k]) = 0

\* The syndromes of what was received, and what is left without the erasures.
SyndromesKept ==
    IF numErasures = 0 THEN syndromes = Syndromes(received)
    ELSE /\ savedSyndromes = Syndromes(received)
         /\ syndromes = WithoutErasures(savedSyndromes, erasureLocator)

\* The locator is a register for these, and its roots come behind the erasures'.
LocatorRooted ==
    /\ locator.coeff[0] = 1
    /\ \A k \in locator.order .. MinDistance - 1 - numErasures :
           Output(locator.coeff, syndromes, locator.order, k) = 0
    /\ locator.order < MinDistance =>
           \A k \in numErasures .. FullOrder - 1 :
               roots[k] \in 1 .. N /\ ValueAt(locator.coeff, locator.order, roots[k]) = 0

DecodeInv ==
    /\ (phase \in {"received", "massey", "factorized"} /\ numErasures # 0) => ErasuresPlaced
    /\ phase \in {"massey", "factorized"} => SyndromesKept
    /\ phase = "factorized" => LocatorRooted
    /\ phase = "located" => Located

\* It holds before the first decode,
LEMMA DecodeInvInit == Init => DecodeInv
  BY DEF Init, DecodeInv

\* and after steps with which no decode is under way.
LEMMA DecodeInvEnds ==
    ASSUME phase' \in {"encoded", "done"}
    PROVE  DecodeInv'
  BY DEF DecodeInv

\* The erasures become places and a locator (rs_decode.c:542-562).
LEMMA DecodeInvReceive == TypeInv /\ Receive => DecodeInv'
<1> SUFFICES ASSUME TypeInv, Receive, numErasures # 0 PROVE ErasuresPlaced'
  <2>1. TypeInv /\ Receive => phase' = "received" /\ UNCHANGED call
    BY DEF Receive, encoderVars
  <2> QED BY <2>1 DEF DecodeInv, numErasures
<1> DEFINE rho == numErasures
           p == polynomial_from_roots(rho, roots')
<1>1. /\ rho \in Nat /\ rho >= 1 /\ rho <= MinDistance
      /\ locations \in [0 .. MinDistance - 1 -> Elements]
      /\ roots \in [0 .. MinDistance + N - 1 -> Elements]
      /\ rho \in 1 .. MinDistance
  BY DEF TypeInv, TypeOK, IInv, Receive
<1>2. /\ locations' = ErasureLocations(locations)
      /\ roots' = ErasureRoots(roots, locations')
      /\ erasureLocator' = [k \in Coefficients |-> IF k <= rho THEN p[k] ELSE erasureLocator[k]]
      /\ numErasures' = rho
  BY DEF Receive, numErasures, encoderVars
<1>3. N >= 2 /\ N \in Nat /\ MinDistance \in Nat /\ N + 1 = 2^Width
  BY FieldSize, Sizes
<1>4. ASSUME NEW k \in 0 .. rho - 1
      PROVE  /\ IsPlace(roots'[k], locations'[k])
             /\ roots'[k] \in 1 .. N
  <2>1. k \in 0 .. MinDistance - 1 /\ k \in DOMAIN roots /\ k < numErasures
    BY <1>1, <1>3
  <2>2. locations' \in [0 .. MinDistance - 1 -> Elements]
    BY TypeReceive DEF TypeInv, TypeOK
  <2>3. locations'[k] \in Elements
    BY <2>1, <2>2
  <2>4. roots'[k] = field_div(1, field_pow(Exp[locations'[k]], RootGap))
    BY <1>2, <2>1 DEF ErasureRoots
  <2> QED BY <2>3, <2>4, ErasureIsPlace DEF IsPlace
<1>5. /\ p[0] \in 1 .. N
      /\ \A k \in 0 .. rho - 1 : ValueAt(p, rho, roots'[k]) = 0
  <2> DEFINE z == roots'
  <2>1. \A k \in 0 .. rho - 1 : z[k] \in 1 .. N
    BY <1>4
  <2>2. Terms(z, rho - 1)
    <3>1. 1 .. N \subseteq Elements
      BY <1>3, Nonzero
    <3> QED BY <2>1, <3>1 DEF Terms
  <2>3. \A k \in 0 .. rho - 1 : z[k] # 0
    BY <1>3, <2>1
  <2> HIDE DEF z, rho
  <2>4. polynomial_from_roots(rho, z)[0] \in 1 .. N
    BY <1>1, <1>3, <2>1, FromRootsStart
  <2>5. \A k \in 0 .. rho - 1 : ValueAt(polynomial_from_roots(rho, z), rho, z[k]) = 0
    BY <1>1, <1>3, <2>2, <2>3, FromRootsVanishes
  <2> QED BY <2>4, <2>5 DEF z, rho
<1> HIDE DEF p
<1>6. \A k \in 0 .. rho : erasureLocator'[k] = p[k]
  BY <1>1, <1>2, <1>3 DEF Coefficients
<1>7. \A x : ValueAt(erasureLocator', rho, x) = ValueAt(p, rho, x)
  BY <1>6 DEF ValueAt, Powers
<1>8. erasureLocator'[0] # 0
  BY <1>1, <1>3, <1>5, <1>6
<1>9. ErasuresPlaced' = (/\ erasureLocator'[0] # 0
                         /\ \A k \in 0 .. rho - 1 :
                               /\ IsPlace(roots'[k], locations'[k])
                               /\ ValueAt(erasureLocator', rho, roots'[k]) = 0)
  BY <1>2 DEF ErasuresPlaced, IsPlace, PlacePower, ValueAt, Powers
<1> QED BY <1>4, <1>5, <1>7, <1>8, <1>9

\* What was known of the erasures stays known.
LEMMA ErasuresKept ==
    ASSUME ErasuresPlaced, UNCHANGED <<call, erasureLocator, locations>>,
           \A k \in 0 .. numErasures - 1 : roots'[k] = roots[k]
    PROVE  ErasuresPlaced'
<1>1. numErasures' = numErasures
  BY DEF numErasures
<1>2. ErasuresPlaced' = (/\ erasureLocator[0] # 0
                         /\ \A k \in 0 .. numErasures - 1 :
                               /\ IsPlace(roots'[k], locations[k])
                               /\ ValueAt(erasureLocator, numErasures, roots'[k]) = 0)
  BY <1>1 DEF ErasuresPlaced, IsPlace, PlacePower, ValueAt, Powers
<1> QED BY <1>2 DEF ErasuresPlaced

\* The syndromes, too.
LEMMA SyndromesStay ==
    ASSUME SyndromesKept,
           UNCHANGED <<call, received, syndromes, savedSyndromes, erasureLocator>>
    PROVE  SyndromesKept'
  BY DEF SyndromesKept, WithoutErasures, numErasures, Syndromes

\* The search for the locator starts with them (rs_decode.c:11-53, 547-569).
LEMMA DecodeInvFindSyndromes == DecodeInv /\ FindSyndromes => DecodeInv'
<1> SUFFICES ASSUME DecodeInv, FindSyndromes PROVE DecodeInv'
  OBVIOUS
<1>1. /\ phase = "received" /\ phase' = "massey"
      /\ UNCHANGED <<call, received, erasureLocator, roots, locations>>
  BY DEF FindSyndromes, encoderVars, places
<1>2. numErasures' = numErasures
  BY <1>1 DEF numErasures
<1>3. numErasures # 0 => ErasuresPlaced'
  BY <1>1, ErasuresKept DEF DecodeInv
<1>4. SyndromesKept'
  <2>1. IF numErasures = 0 THEN syndromes' = Syndromes(received)
        ELSE /\ savedSyndromes' = Syndromes(received)
             /\ syndromes' = WithoutErasures(savedSyndromes', erasureLocator)
    BY DEF FindSyndromes
  <2> QED BY <1>1, <1>2, <2>1 DEF SyndromesKept, WithoutErasures, Syndromes, numErasures
<1> QED BY <1>1, <1>2, <1>3, <1>4 DEF DecodeInv

\* Its rounds leave everything else alone (rs_decode.c:55-118).
LEMMA DecodeInvRound == DecodeInv /\ (NoDiscrepancy \/ Lengthen \/ Adjust) => DecodeInv'
<1> SUFFICES ASSUME DecodeInv, NoDiscrepancy \/ Lengthen \/ Adjust PROVE DecodeInv'
  OBVIOUS
<1>1. InLoop /\ UNCHANGEDbutMassey
  BY DEF NoDiscrepancy, Lengthen, Adjust
<1>2. /\ phase = "massey" /\ phase' = "massey"
      /\ UNCHANGED <<call, received, syndromes, savedSyndromes, erasureLocator, roots, locations>>
  BY <1>1 DEF InLoop, UNCHANGEDbutMassey, encoderVars, places
<1>3. numErasures' = numErasures
  BY <1>2 DEF numErasures
<1>4. (numErasures # 0 => ErasuresPlaced') /\ SyndromesKept'
  BY <1>2, ErasuresKept, SyndromesStay DEF DecodeInv
<1> QED BY <1>2, <1>3, <1>4 DEF DecodeInv

\* Chien's search finds roots of the locator, when the table of powers is long
\* enough for its order (rs_decode.c:125-148).
LEMMA FoundAreRoots ==
    ASSUME locator.order \in Nat, locator.order < MinDistance, locator.coeff \in Taps,
           locator.coeff[0] = 1, NEW found \in RootSets
    PROVE  /\ found \subseteq Elements
           /\ \A x \in found : x \in 1 .. N /\ ValueAt(locator.coeff, locator.order, x) = 0
<1> DEFINE n == locator.order
           f == locator.coeff
           m == MinDistance - 1
           logs == [k \in 0 .. n |-> Log[f[k]]]
           value(x) == polynomial_eval_log_lut(logs, n, element_exp[x])
<1>0. /\ N >= 2 /\ m \in Nat /\ n \in Nat /\ n <= m /\ n # MinDistance
      /\ Terms(f, n) /\ f[0] = 1
  <2>1. \A k \in 0 .. n : k \in Coefficients
    BY FieldSize DEF Coefficients
  <2> QED BY <2>1, FieldSize DEF Terms, Taps
<1>1. found = {x \in Elements : value(x) = 0}
  BY <1>0 DEF RootSets
<1>2. ASSUME NEW x \in Elements
      PROVE  value(x) = IF x = 0 THEN f[0] ELSE ValueAt(f, n, x)
  <2>1. element_exp[x] = polynomial_build_exp_lut(x, m)
    BY DEF element_exp
  <2> HIDE DEF n, f, m
  <2> QED BY <1>0, <2>1, EvalLogIsValue
<1> HIDE DEF value
<1>3. ASSUME NEW x \in found PROVE x \in 1 .. N /\ ValueAt(f, n, x) = 0
  <2>1. x \in Elements /\ value(x) = 0
    BY <1>1
  <2>2. x # 0
    BY <1>0, <1>2, <2>1
  <2> QED BY <1>0, <1>2, <2>1, <2>2, Nonzero
<1> QED BY <1>1, <1>3

\* It finds no more of them than the order says, and writes so many places.
LEMMA RootsFit ==
    ASSUME TypeInv, phase = "massey", ~ InLoop, locator.order < MinDistance,
           NEW found \in RootSets
    PROVE  numErasures + Cardinality(found) <= FullOrder
<1> DEFINE n == locator.order
           f == locator.coeff
           F == [j \in 0 .. n |-> f[j]]
<1>0. /\ n \in Nat /\ n <= MinDistance /\ numErasures \in Nat /\ N >= 2 /\ MinDistance \in Nat
      /\ f \in Taps /\ f[0] = 1
  BY FieldSize DEF TypeInv, IInv, MasseyInv, RegisterInv, LoopInv
<1>1. \A x \in found : x \in 1 .. N /\ ValueAt(f, n, x) = 0
  BY <1>0, FoundAreRoots
<1> HIDE DEF n, f
<1>2. F \in [0 .. n -> Elements] /\ F[0] # 0
  <2>1. \A j \in 0 .. n : f[j] \in Elements
    BY <1>0 DEF Taps, Coefficients
  <2> QED BY <2>1, <1>0
<1>3. ASSUME NEW x \in found PROVE ValueAt(F, n, x) = 0
  <2>1. Powers(F, n, x) = Powers(f, n, x)
    BY DEF Powers
  <2> QED BY <2>1, <1>1 DEF ValueAt
<1>4. found \in SUBSET (1 .. N) /\ 0 \in 0 .. n
  BY <1>0, <1>1
<1> HIDE DEF F
<1>5. IsFiniteSet(found) /\ Cardinality(found) <= n
  BY <1>0, <1>2, <1>3, <1>4, RootsBound
<1>6. Cardinality(found) \in Nat
  BY <1>5, FS_CardinalityType
<1> QED BY <1>0, <1>5, <1>6 DEF FullOrder, n

\* The arrays are long enough for the loop and for what it leaves.
LEMMA ScratchMeans == TypeInv => ScratchStaysInBounds
  BY RootsFit, InvariantBounds DEF TypeInv, ScratchStaysInBounds

\* The codec under its own callers: the arrays are long enough, whatever is
\* received (rs_decode.c:77-91, 111-116, 137-147, 188-200, 585).
THEOREM ScratchSuffices == Spec => []ScratchStaysInBounds
<1>1. TypeInv /\ [Next]_vars => TypeInv'
  BY TypeNext
<1> QED BY <1>1, TypeInit, ScratchMeans, PTL DEF Spec

\* The codec under the callers of both interfaces: the shim's translation of
\* erasures keeps their number (fec_shim.c:79-87).
THEOREM ScratchSufficesThroughShim == ShimSpec => []ScratchStaysInBounds
<1>1. PadInv /\ TypeInv /\ [ShimNext]_shimVars => TypeInv'
  BY TypeShimNext
<1> QED BY <1>1, PadKept, ShimTypeInit, ScratchMeans, PTL DEF ShimSpec

\* In any case it finds elements,
LEMMA FoundAreElements ==
    ASSUME NEW found \in RootSets
    PROVE  found \subseteq Elements
<1> DEFINE order == locator.order
           logs == [k \in 0 .. order |-> Log[locator.coeff[k]]]
           value(x, n) == polynomial_eval_log_lut(logs, n, element_exp[x])
<1> HIDE DEF order, logs, value
<1>1. found \in IF order = MinDistance /\ logs[order] # 0
                THEN SUBSET {x \in 1 .. N : value(x, order - 1) # 0}
                ELSE {{x \in Elements : value(x, order) = 0}}
  BY DEF RootSets, order, logs, value
<1>2. 1 .. N \subseteq Elements
  BY FieldSize DEF Elements
<1> QED BY <1>1, <1>2

\* which come behind the roots of the erasures (rs_decode.c:130-142).
LEMMA PlacedAreFound ==
    ASSUME NEW found, found \subseteq Elements, EnoughRoots(found),
           NEW old \in [0 .. MinDistance + N - 1 -> Elements],
           numErasures \in Nat, locator.order \in Nat, FullOrder <= MinDistance
    PROVE  /\ \A k \in 0 .. numErasures - 1 : Placed(old, found)[k] = old[k]
           /\ \A k \in numErasures .. FullOrder - 1 : Placed(old, found)[k] \in found
<1>1. IsFiniteSet(found) /\ found \in SUBSET Nat
  <2>1. IsFiniteSet(0 .. N)
    BY FieldSize, FS_Interval
  <2> QED BY <2>1, FS_Subset, Sizes DEF Elements
<1> DEFINE c == Cardinality(found)
           nth(k) == CHOOSE x \in found : Cardinality({y \in found : y < x}) = k - numErasures
<1>2. c = locator.order
  BY DEF EnoughRoots
<1>3. ASSUME NEW k \in numErasures .. FullOrder - 1 PROVE nth(k) \in found
  <2>1. k - numErasures \in Nat /\ k - numErasures < c
    BY <1>2 DEF FullOrder
  <2>2. \E x \in found : Cardinality({y \in found : y < x}) = k - numErasures
    BY <2>1, <1>1, NthElement
  <2> QED BY <2>2
<1> HIDE DEF nth
<1>4. \A k \in 0 .. MinDistance + N - 1 : Placed(old, found)[k] =
        CASE k \in numErasures .. numErasures + c - 1 -> nth(k)
          [] k \in numErasures + c .. numErasures + locator.order - 1 -> 0
          [] OTHER -> old[k]
  BY DEF Placed, nth
<1> HIDE DEF c
<1>5. ASSUME NEW k \in 0 .. numErasures - 1 PROVE Placed(old, found)[k] = old[k]
  <2>1. /\ k \in 0 .. MinDistance + N - 1
        /\ k \notin numErasures .. numErasures + c - 1
        /\ k \notin numErasures + c .. numErasures + locator.order - 1
    BY <1>2, FieldSize DEF FullOrder
  <2> QED BY <1>4, <2>1
<1>6. ASSUME NEW k \in numErasures .. FullOrder - 1 PROVE Placed(old, found)[k] \in found
  <2>1. /\ k \in 0 .. MinDistance + N - 1
        /\ k \in numErasures .. numErasures + c - 1
        /\ k \notin numErasures + c .. numErasures + locator.order - 1
    BY <1>2, FieldSize DEF FullOrder
  <2>2. Placed(old, found)[k] = nth(k)
    BY <1>4, <2>1
  <2> QED BY <1>3, <2>2
<1> QED BY <1>5, <1>6

\* What the loop and the search leave (rs_decode.c:118-148, 569-583).
LEMMA DecodeInvFactorize == TypeInv /\ DecodeInv /\ Factorize => DecodeInv'
<1> SUFFICES ASSUME TypeInv, DecodeInv, Factorize, phase' = "factorized" PROVE DecodeInv'
  <2>1. Factorize => phase' \in {"factorized", "done"}
    BY DEF Factorize
  <2> QED BY <2>1, DecodeInvEnds
<1>1. PICK found \in RootSets : roots' = Placed(roots, found) /\ EnoughRoots(found)
  BY DEF Factorize
<1>2. /\ phase = "massey" /\ ~ InLoop
      /\ UNCHANGED <<call, received, syndromes, savedSyndromes, erasureLocator, locations,
                     locator, round, numerrors>>
  BY DEF Factorize, encoderVars, massey
<1>3. numErasures' = numErasures
  BY <1>2 DEF numErasures
<1>4. /\ LoopInv /\ RegisterInv /\ numErasures \in Nat
      /\ roots \in [0 .. MinDistance + N - 1 -> Elements]
  BY <1>2 DEF TypeInv, TypeOK, IInv, MasseyInv
<1>5. /\ locator.order \in Nat /\ numerrors = locator.order /\ FullOrder <= MinDistance
      /\ round = MinDistance - numErasures
  BY <1>2, <1>4, FieldSize DEF LoopInv, FullOrder, InLoop
<1>6. found \subseteq Elements
  BY FoundAreElements
<1>7. /\ \A k \in 0 .. numErasures - 1 : roots'[k] = roots[k]
      /\ \A k \in numErasures .. FullOrder - 1 : roots'[k] \in found
  BY <1>1, <1>4, <1>5, <1>6, PlacedAreFound
<1>8. (numErasures # 0 => ErasuresPlaced') /\ SyndromesKept'
  BY <1>2, <1>7, ErasuresKept, SyndromesStay DEF DecodeInv
<1>9. LocatorRooted'
  <2>1. locator.coeff[0] = 1 /\ locator.coeff \in Taps
    BY <1>4 DEF RegisterInv
  <2>2. \A k \in locator.order .. MinDistance - 1 - numErasures :
            Output(locator.coeff, syndromes, locator.order, k) = 0
    <3> SUFFICES ASSUME NEW k \in locator.order .. MinDistance - 1 - numErasures
                 PROVE  Output(locator.coeff, syndromes, numerrors, k) = 0
      BY <1>5
    <3>1. k \in numerrors .. round - 1
      BY <1>4, <1>5, FieldSize
    <3> QED BY <1>4, <3>1 DEF RegisterInv
  <2>3. locator.order < MinDistance =>
           \A k \in numErasures .. FullOrder - 1 :
               roots'[k] \in 1 .. N /\ ValueAt(locator.coeff, locator.order, roots'[k]) = 0
    BY <1>5, <1>7, <2>1, FoundAreRoots
  <2>4. FullOrder' = FullOrder
    BY <1>2, <1>3 DEF FullOrder
  <2>5. LocatorRooted' = (
          /\ locator.coeff[0] = 1
          /\ \A k \in locator.order .. MinDistance - 1 - numErasures :
                 Output(locator.coeff, syndromes, locator.order, k) = 0
          /\ locator.order < MinDistance =>
                 \A k \in numErasures .. FullOrder - 1 :
                     roots'[k] \in 1 .. N
                     /\ ValueAt(locator.coeff, locator.order, roots'[k]) = 0)
    BY <1>2, <1>3, <2>4 DEF LocatorRooted, Output, ValueAt, Powers
  <2> QED BY <2>1, <2>2, <2>3, <2>5
<1> QED BY <1>3, <1>8, <1>9 DEF DecodeInv

\* Each root of the locator gets its place, those of the erasures have theirs
\* (rs_decode.c:206-224).
LEMMA RootsGetPlaces ==
    ASSUME GapIsUnit, NEW old \in [0 .. MinDistance - 1 -> Elements],
           numErasures \in Nat, FullOrder \in Nat, FullOrder <= MinDistance,
           NEW k \in 0 .. FullOrder - 1
    PROVE  /\ k < numErasures => ErrorLocations(old)[k] = old[k]
           /\ (k >= numErasures /\ roots[k] \in 1 .. N) => IsPlace(roots[k], ErrorLocations(old)[k])
<1> DEFINE x == roots[k]
           fits == {w \in Elements : field_pow(w, RootGap) = field_div(1, x)}
           least == CHOOSE w \in fits : \A v \in fits : w <= v
<1>1. k \in 0 .. MinDistance - 1 /\ k \in DOMAIN old
  BY FieldSize
<1>2. ErrorLocations(old)[k] = IF k \in numErasures .. FullOrder - 1 /\ x # 0 /\ fits # {}
                               THEN Log[least] ELSE old[k]
  BY <1>1 DEF ErrorLocations
<1> HIDE DEF fits, least, x
<1>3. CASE k < numErasures
  <2>1. k \notin numErasures .. FullOrder - 1
    BY <1>3
  <2> QED BY <1>2, <1>3, <2>1
<1>4. ASSUME k >= numErasures, x \in 1 .. N PROVE IsPlace(x, ErrorLocations(old)[k])
  <2>1. k \in numErasures .. FullOrder - 1 /\ x # 0
    BY <1>4
  <2>2. fits # {}
    BY <1>4, FitExists DEF fits
  <2>3. least \in fits
    <3>1. fits \subseteq Nat
      BY FieldSize DEF fits, Elements
    <3>2. \E w \in fits : \A v \in fits : w <= v
      BY <2>2, <3>1, LeastNatural
    <3> QED BY <3>2 DEF least
  <2>4. least \in Elements /\ field_pow(least, RootGap) = field_div(1, x)
    BY <2>3 DEF fits
  <2>5. IsPlace(x, Log[least])
    BY <1>4, <2>4, FitIsPlace
  <2> QED BY <1>2, <2>1, <2>2, <2>5
<1> QED BY <1>3, <1>4, FieldSize DEF x

\* Forney's formula, with the value of each polynomial at the root x.
Repair(x, synd) ==
    field_mul(field_pow(x, FirstRoot - 1),
        field_div(ValueAt(polynomial_mul(FullLocator, FullOrder, synd, MinDistance - 1,
                                         MinDistance - 1), MinDistance - 1, x),
                  ValueAt(polynomial_formal_derivative(FullLocator, FullOrder),
                          FullOrder - 1, x)))

\* This is what the code computes by its tables (rs_decode.c:151-178).
LEMMA ValuesAreRepairs ==
    ASSUME NEW old \in [0 .. MinDistance - 1 -> Elements],
           NEW synd \in [0 .. MinDistance - 1 -> Elements],
           FullOrder \in Nat, FullOrder <= MinDistance,
           FullLocator \in [0 .. FullOrder -> Elements],
           NEW k \in 0 .. FullOrder - 1, roots[k] \in 1 .. N
    PROVE  ErrorValues(old, synd)[k] = Repair(roots[k], synd)
<1> DEFINE n == MinDistance - 1
           m == FullOrder - 1
           x == roots[k]
           evaluator == polynomial_mul(FullLocator, FullOrder, synd, n, n)
           derivative == polynomial_formal_derivative(FullLocator, FullOrder)
<1>1. /\ N >= 2 /\ n \in Nat /\ m \in Nat /\ m <= n /\ x \in 1 .. N /\ x # 0
      /\ x \in Elements /\ k \in DOMAIN old /\ ~ (k >= FullOrder)
      /\ Terms(synd, n) /\ Terms(FullLocator, FullOrder)
  <2> HIDE DEF evaluator, derivative
  <2>1. Terms(synd, n) /\ Terms(FullLocator, FullOrder)
    BY DEF Terms
  <2>2. x \in 1 .. N /\ N >= 2 /\ N \in Nat
    BY FieldSize
  <2> HIDE DEF x
  <2>3. x # 0 /\ x \in Elements
    BY <2>2 DEF Elements
  <2>4. n \in Nat /\ m \in Nat /\ m <= n /\ k \in 0 .. n /\ ~ (k >= FullOrder)
    BY FieldSize
  <2> QED BY <2>1, <2>2, <2>3, <2>4
<1>2. Terms(evaluator, n)
  <2>1. evaluator \in [0 .. n -> Elements]
    <3> HIDE DEF n
    <3> QED BY <1>1, MulType
  <2> HIDE DEF evaluator
  <2> QED BY <2>1 DEF Terms
<1>3. Terms(derivative, m)
  <2> SUFFICES ASSUME NEW i \in 0 .. m PROVE field_sum(FullLocator[i + 1], i + 1) \in Elements
    BY DEF Terms, polynomial_formal_derivative
  <2>1. i + 1 \in 0 .. FullOrder
    OBVIOUS
  <2> QED BY <2>1, ZeroInElements DEF field_sum
<1>4. element_exp[x] = polynomial_build_exp_lut(x, n)
  BY <1>1 DEF element_exp
<1>5. ErrorValues(old, synd)[k] =
        field_mul(field_pow(x, FirstRoot - 1),
                  field_div(polynomial_eval_lut(evaluator, n, element_exp[x]),
                            polynomial_eval_lut(derivative, m, element_exp[x])))
  BY <1>1 DEF ErrorValues
<1>6. Repair(x, synd) = field_mul(field_pow(x, FirstRoot - 1),
                                  field_div(ValueAt(evaluator, n, x), ValueAt(derivative, m, x)))
  BY DEF Repair
<1> HIDE DEF n, m, x, evaluator, derivative
<1>7. n <= n
  BY <1>1
<1>8. polynomial_eval_lut(evaluator, n, element_exp[x]) = ValueAt(evaluator, n, x)
  BY <1>1, <1>2, <1>4, <1>7, EvalIsValue
<1>9. polynomial_eval_lut(derivative, m, element_exp[x]) = ValueAt(derivative, m, x)
  BY <1>1, <1>3, <1>4, EvalIsValue
<1> QED BY <1>5, <1>6, <1>8, <1>9 DEF x

\* The locator of the erasures times that of the errors is a register for the
\* syndromes of what was received (rs_decode.c:585-590).
LEMMA FullIsRegister ==
    ASSUME TypeInv, FullOrder <= MinDistance, numErasures # 0 => ErasuresPlaced, SyndromesKept, LocatorRooted
    PROVE  /\ FullLocator[0] # 0
           /\ \A j \in FullOrder .. MinDistance - 1 :
                  Conv(FullLocator, FullOrder, Syndromes(received), j) = 0
<1> DEFINE rho == numErasures
           nu == locator.order
           C == locator.coeff
           G == erasureLocator
           S == Syndromes(received)
           T == syndromes
<1>1. /\ N >= 2 /\ N \in Nat /\ MinDistance \in Nat /\ rho \in Nat /\ nu \in Nat
      /\ rho + nu <= MinDistance /\ FullOrder = rho + nu /\ FullOrder \in Nat
  <2>1. numErasures \in Nat /\ locator.order \in Nat
    BY FieldSize DEF TypeInv, TypeOK, IInv, Polynomials, Coefficients
  <2> QED BY <2>1, FieldSize DEF FullOrder
<1>2. /\ C \in [Coefficients -> Elements] /\ G \in [Coefficients -> Elements]
      /\ S \in [0 .. MinDistance - 1 -> Elements] /\ T \in [0 .. MinDistance - 1 -> Elements]
  <2>1. received \in [0 .. N -> Elements] /\ TypeOK
    BY DEF TypeInv, TypeOK
  <2>2. Terms(received, N - 1)
    BY <1>1, <2>1 DEF Terms
  <2> QED BY <2>1, <2>2, SyndromeTypes DEF TypeOK, Polynomials
<1>3. Terms(C, nu) /\ Terms(G, rho) /\ C[0] = 1
  <2>1. C[0] = 1
    BY DEF LocatorRooted
  <2> HIDE DEF C, G, nu, rho
  <2>2. Terms(C, nu) /\ Terms(G, rho)
    BY <1>1, <1>2 DEF Terms, Coefficients
  <2> QED BY <2>1, <2>2
<1>4. \A k \in nu .. MinDistance - 1 - rho : Output(C, T, nu, k) = 0
  BY DEF LocatorRooted
<1>5. CASE rho = 0
  <2>1. S = T
    BY <1>5 DEF SyndromesKept
  <2>2. \A i \in 0 .. nu : FullLocator[i] = C[i]
    BY <1>1, <1>5 DEF FullLocator
  <2>3. FullOrder = nu
    BY <1>1, <1>5
  <2>4. \A k \in nu .. MinDistance - 1 : Output(C, S, nu, k) = 0
    BY <1>1, <1>4, <1>5, <2>1
  <2> DEFINE F == FullLocator
  <2> HIDE DEF F, C, S, T, nu
  <2>5. \A j \in nu .. MinDistance - 1 : Conv(F, nu, S, j) = 0
    BY <1>1, <1>2, <1>3, <2>2, <2>4, RegisterAlone DEF F
  <2>6. F[0] = 1
    BY <1>1, <1>3, <2>2 DEF F
  <2> QED BY <2>3, <2>5, <2>6 DEF F, S
<1>6. CASE rho # 0
  <2> DEFINE F == polynomial_mul(G, rho, C, nu, rho + nu)
  <2>1. FullLocator = F
    BY <1>1, <1>6 DEF FullLocator
  <2>2. T = WithoutErasures(S, G)
    BY <1>6 DEF SyndromesKept
  <2>3. IsModified(T, G, rho, S)
    <3> SUFFICES ASSUME NEW k \in 0 .. MinDistance - 1 - rho
                 PROVE  T[k] = polynomial_mul(G, rho, S, MinDistance - 1, MinDistance - 1)[k + rho]
      BY DEF IsModified
    <3>1. k \in 0 .. MinDistance - 1 /\ k + numErasures < MinDistance
      BY <1>1
    <3> HIDE DEF S, G, T
    <3> QED BY <2>2, <3>1 DEF WithoutErasures
  <2>4. G[0] \in 1 .. N /\ G[0] # 0
    <3>1. G[0] # 0
      BY <1>6 DEF ErasuresPlaced
    <3> HIDE DEF G, rho
    <3>2. G[0] \in Elements
      BY <1>1, <1>3 DEF Terms
    <3> QED BY <1>1, <3>1, <3>2, Nonzero
  <2> HIDE DEF C, G, S, T, nu, rho
  <2>5. ASSUME NEW j \in rho + nu .. MinDistance - 1
        PROVE  Conv(polynomial_mul(G, rho, C, nu, rho + nu), rho + nu, S, j) = 0
    BY <1>1, <1>2, <1>3, <1>4, <2>3, RegisterTimesErasures
  <2>6. F[0] = field_mul(G[0], C[0])
    BY <1>1, <1>3, ProductStarts
  <2>7. F[0] # 0
    <3>1. C[0] \in 1 .. N
      BY <1>1, <1>3
    <3>2. field_mul(G[0], C[0]) \in 1 .. N
      BY <1>1, <2>4, <3>1, Nonzero
    <3> HIDE DEF F
    <3> QED BY <1>1, <2>6, <3>2
  <2> QED BY <1>1, <2>1, <2>5, <2>7 DEF S
<1> QED BY <1>5, <1>6

\* Its roots are those of both (rs_decode.c:125-148, 188-200).
LEMMA FullHasRoots ==
    ASSUME TypeInv, FullOrder <= MinDistance, numErasures # 0 => ErasuresPlaced, LocatorRooted,
           locator.order < MinDistance, NEW k \in 0 .. FullOrder - 1
    PROVE  roots[k] \in 1 .. N /\ ValueAt(FullLocator, FullOrder, roots[k]) = 0
<1> DEFINE rho == numErasures
           nu == locator.order
           C == locator.coeff
           G == erasureLocator
           x == roots[k]
<1>1. /\ N >= 2 /\ N \in Nat /\ MinDistance \in Nat /\ rho \in Nat /\ nu \in Nat
      /\ rho + nu <= MinDistance /\ FullOrder = rho + nu /\ FullOrder \in Nat
  <2>1. numErasures \in Nat /\ locator.order \in Nat
    BY FieldSize DEF TypeInv, TypeOK, IInv, Polynomials, Coefficients
  <2> QED BY <2>1, FieldSize DEF FullOrder
<1>2. C \in [Coefficients -> Elements] /\ G \in [Coefficients -> Elements]
  BY DEF TypeInv, TypeOK, Polynomials
<1>3. Terms(C, nu) /\ Terms(G, rho)
  BY <1>1, <1>2 DEF Terms, Coefficients
<1>4. k < rho => rho # 0 /\ k \in 0 .. rho - 1
  BY <1>1
<1>5. k < rho => x \in 1 .. N /\ ValueAt(G, rho, x) = 0
  BY <1>4 DEF ErasuresPlaced, IsPlace
<1>6. ~ (k < rho) => k \in rho .. FullOrder - 1
  BY <1>1
<1>7. ~ (k < rho) => x \in 1 .. N /\ ValueAt(C, nu, x) = 0
  BY <1>6 DEF LocatorRooted
<1>8. x \in 1 .. N /\ (ValueAt(G, rho, x) = 0 \/ ValueAt(C, nu, x) = 0)
  BY <1>5, <1>7
<1>9. CASE rho = 0
  <2>1. ValueAt(C, nu, x) = 0
    BY <1>1, <1>7, <1>9
  <2>2. \A i \in 0 .. nu : FullLocator[i] = C[i]
    BY <1>1, <1>9 DEF FullLocator
  <2>3. FullOrder = nu
    BY <1>1, <1>9
  <2> DEFINE F == FullLocator
  <2> HIDE DEF F, C, nu, x
  <2>4. ValueAt(F, nu, x) = ValueAt(C, nu, x)
    BY <2>2 DEF ValueAt, Powers, F
  <2> QED BY <1>8, <2>1, <2>3, <2>4 DEF F, x
<1>10. CASE rho # 0
  <2>1. FullLocator = polynomial_mul(G, rho, C, nu, rho + nu)
    BY <1>1, <1>10 DEF FullLocator
  <2> HIDE DEF C, G, nu, rho, x
  <2>2. ValueAt(polynomial_mul(G, rho, C, nu, rho + nu), rho + nu, x) = 0
    BY <1>1, <1>3, <1>8, ProductVanishes
  <2> QED BY <1>1, <1>8, <2>1, <2>2 DEF x
<1> QED BY <1>9, <1>10

\* Before the repair everything is in place (rs_decode.c:585-600).
LEMMA DecodeInvLocate == GapIsUnit /\ TypeInv /\ DecodeInv /\ Locate => DecodeInv'
<1> SUFFICES ASSUME GapIsUnit, TypeInv, DecodeInv, Locate PROVE Located'
  <2>1. Locate => phase' = "located"
    BY DEF Locate
  <2> QED BY <2>1 DEF DecodeInv
<1> DEFINE S == Syndromes(received)
<1>1. /\ phase = "factorized"
      /\ locations' = ErrorLocations(locations)
      /\ syndromes' = IF numErasures = 0 THEN syndromes ELSE savedSyndromes
      /\ vals' = ErrorValues(vals, syndromes')
      /\ UNCHANGED <<call, received, locator, erasureLocator, roots>>
  BY DEF Locate, encoderVars, massey
<1>2. /\ TypeOK /\ numErasures \in Nat /\ locator.order \in Nat /\ FullOrder <= MinDistance
      /\ FullOrder \in Nat /\ FullLocator \in [0 .. FullOrder -> Elements]
      /\ locations \in [0 .. MinDistance - 1 -> Elements]
      /\ vals \in [0 .. MinDistance - 1 -> Elements]
  <2>1. /\ TypeOK /\ numErasures \in Nat /\ FullOrder <= MinDistance
        /\ locator.order \in Nat /\ locator.coeff \in [Coefficients -> Elements]
        /\ erasureLocator \in [Coefficients -> Elements]
    BY <1>1 DEF TypeInv, TypeOK, IInv, Polynomials, Coefficients
  <2> QED BY <2>1, FullLocatorTypes DEF TypeOK
<1>3. (numErasures # 0 => ErasuresPlaced) /\ SyndromesKept /\ LocatorRooted
  BY <1>1 DEF DecodeInv
<1>4. syndromes' = S
  BY <1>1, <1>3 DEF SyndromesKept
<1>5. S \in [0 .. MinDistance - 1 -> Elements]
  <2>1. Terms(received, N - 1)
    BY <1>2, FieldSize DEF TypeOK, Terms
  <2> QED BY <2>1, SyndromeTypes
<1>6. vals' = ErrorValues(vals, S)
  BY <1>1, <1>4
<1>7. /\ FullLocator[0] # 0
      /\ \A j \in FullOrder .. MinDistance - 1 : Conv(FullLocator, FullOrder, S, j) = 0
  BY <1>2, <1>3, FullIsRegister
<1>8. ASSUME locator.order < MinDistance, NEW k \in 0 .. FullOrder - 1
      PROVE  /\ IsPlace(roots[k], locations'[k])
             /\ ValueAt(FullLocator, FullOrder, roots[k]) = 0
             /\ vals'[k] = Repair(roots[k], S)
  <2>1. roots[k] \in 1 .. N /\ ValueAt(FullLocator, FullOrder, roots[k]) = 0
    BY <1>2, <1>3, <1>8, FullHasRoots
  <2>2. IsPlace(roots[k], locations'[k])
    <3>1. CASE k < numErasures
      <4>1. numErasures # 0 /\ k \in 0 .. numErasures - 1
        BY <1>2, <3>1
      <4>2. IsPlace(roots[k], locations[k])
        BY <1>3, <4>1 DEF ErasuresPlaced
      <4> QED BY <1>1, <1>2, <3>1, <4>2, RootsGetPlaces
    <3>2. CASE k >= numErasures
      BY <1>1, <1>2, <2>1, <3>2, RootsGetPlaces
    <3> QED BY <1>2, <3>1, <3>2
  <2> HIDE DEF S
  <2>3. ErrorValues(vals, S)[k] = Repair(roots[k], S)
    BY <1>2, <1>5, <2>1, ValuesAreRepairs
  <2> QED BY <1>6, <2>1, <2>2, <2>3
<1>9. numErasures' = numErasures /\ FullOrder' = FullOrder
  BY <1>1 DEF numErasures, FullOrder
<1>10. FullLocator' = FullLocator
  BY <1>1, <1>9 DEF FullLocator
<1>11. Syndromes(received)' = S
  BY <1>1 DEF Syndromes
<1>12. \A x : field_mul(field_pow(x, FirstRoot - 1), Quotients(x))' = Repair(x, S)
  BY <1>4, <1>9, <1>10 DEF Quotients, Repair, ValueAt, Powers
<1> HIDE DEF S
<1> QED BY <1>1, <1>4, <1>7, <1>8, <1>9, <1>10, <1>11, <1>12
        DEF Located, Conv, ConvTerms, IsPlace, PlacePower, ValueAt, Powers

\* A step that changes nothing keeps all of it.
LEMMA DecodeInvUnchanged == DecodeInv /\ UNCHANGED vars => DecodeInv'
<1> SUFFICES ASSUME DecodeInv, UNCHANGED vars PROVE DecodeInv'
  OBVIOUS
<1>1. UNCHANGED <<phase, call, received, syndromes, savedSyndromes, erasureLocator, locator,
                  roots, vals, locations>>
  BY DEF vars, encoderVars, massey, places
<1>2. numErasures' = numErasures
  BY <1>1 DEF numErasures
<1>3. (phase \in {"received", "massey", "factorized"} /\ numErasures # 0) => ErasuresPlaced'
  BY <1>1, ErasuresKept DEF DecodeInv
<1>4. phase \in {"massey", "factorized"} => SyndromesKept'
  BY <1>1, SyndromesStay DEF DecodeInv
<1>5. FullOrder' = FullOrder
  BY <1>1, <1>2 DEF FullOrder
<1>6. LocatorRooted' = LocatorRooted
  BY <1>1, <1>2, <1>5 DEF LocatorRooted, Output, ValueAt, Powers
<1>7. FullLocator' = FullLocator
  BY <1>1, <1>2, <1>5 DEF FullLocator
<1>8. Syndromes(received)' = Syndromes(received)
  BY <1>1 DEF Syndromes
<1>9. \A x : Quotients(x)' = Quotients(x)
  BY <1>1, <1>5, <1>7 DEF Quotients, ValueAt, Powers
<1>10. Located' = Located
  BY <1>1, <1>5, <1>7, <1>8, <1>9
     DEF Located, Conv, ConvTerms, IsPlace, PlacePower, ValueAt, Powers
<1> QED BY <1>1, <1>2, <1>3, <1>4, <1>6, <1>10 DEF DecodeInv

\* So does every step of a decode,
LEMMA DecodeInvDecode ==
    ASSUME GapIsUnit, TypeInv, DecodeInv, DecodeStep
    PROVE  DecodeInv'
<1>1. CASE TooManyErasures \/ NoErrors \/ Correct
  <2>1. phase' \in {"encoded", "done"}
    BY <1>1 DEF TooManyErasures, NoErrors, Correct
  <2> QED BY <2>1, DecodeInvEnds
<1>2. CASE Receive
  BY <1>2, DecodeInvReceive
<1>3. CASE FindSyndromes
  BY <1>3, DecodeInvFindSyndromes
<1>4. CASE NoDiscrepancy \/ Lengthen \/ Adjust
  BY <1>4, DecodeInvRound
<1>5. CASE Factorize
  BY <1>5, DecodeInvFactorize
<1>6. CASE Locate
  BY <1>6, DecodeInvLocate
<1> QED BY <1>1, <1>2, <1>3, <1>4, <1>5, <1>6 DEF DecodeStep

\* of a codec
LEMMA DecodeInvNext ==
    ASSUME GapIsUnit, TypeInv, DecodeInv, [Next]_vars
    PROVE  DecodeInv'
<1>1. ASSUME NEW t, Encode(t) \/ EncodeTooLong(t) PROVE DecodeInv'
  <2>1. phase' \in {"encoded", "done"}
    BY <1>1 DEF Encode, EncodeTooLong
  <2> QED BY <2>1, DecodeInvEnds
<1> QED BY <1>1, DecodeInvDecode, DecodeInvUnchanged DEF Next, Rest

\* and of libfec's interface.
LEMMA DecodeInvShimNext ==
    ASSUME GapIsUnit, TypeInv, DecodeInv, [ShimNext]_shimVars
    PROVE  DecodeInv'
<1>1. ASSUME NEW t, EncodeRsChar(t) PROVE DecodeInv'
  <2>1. phase' \in {"encoded", "done"}
    BY <1>1 DEF EncodeRsChar, Encode
  <2> QED BY <2>1, DecodeInvEnds
<1>2. CASE Next
  BY <1>2, DecodeInvNext
<1>3. CASE ShimRest \/ UNCHANGED shimVars
  BY <1>3, DecodeInvUnchanged DEF ShimRest, shimVars
<1>4. CASE DecodeRsChar
  BY <1>4, DecodeInvDecode DEF DecodeRsChar
<1> QED BY <1>1, <1>2, <1>3, <1>4 DEF ShimNext

\* It says what the property asks.
LEMMA DecodeInvMeans == TypeInv /\ DecodeInv => SuccessIsCodeword
<1>1. ASSUME TypeInv, DecodeInv, phase = "located" PROVE SuccessIsCodeword
  BY <1>1, LocatedIsCodeword DEF DecodeInv
<1>2. phase # "located" => SuccessIsCodeword
  BY DEF SuccessIsCodeword
<1> QED BY <1>1, <1>2

\* A block that a decode repairs is a codeword, however many bytes the channel
\* changed, and whatever an earlier decode left in the arrays (rs_decode.c:396-614).
THEOREM RepairedIsCodeword ==
    ASSUME GapIsUnit
    PROVE  Spec => []SuccessIsCodeword
<1>1. TypeInv /\ DecodeInv /\ [Next]_vars => (TypeInv /\ DecodeInv)'
  BY TypeNext, DecodeInvNext
<1>2. Init => TypeInv /\ DecodeInv
  BY TypeInit, DecodeInvInit
<1> QED BY <1>1, <1>2, DecodeInvMeans, PTL DEF Spec

\* So it is behind libfec's interface (fec_shim.c:79-87).
THEOREM RepairedIsCodewordThroughShim ==
    ASSUME GapIsUnit
    PROVE  ShimSpec => []SuccessIsCodeword
<1>1. PadInv /\ TypeInv /\ DecodeInv /\ [ShimNext]_shimVars => (TypeInv /\ DecodeInv)'
  BY TypeShimNext, DecodeInvShimNext
<1>2. ShimInit => PadInv /\ TypeInv /\ DecodeInv
  BY ShimTypeInit, DecodeInvInit DEF ShimInit
<1> QED BY <1>1, <1>2, PadKept, DecodeInvMeans, PTL DEF ShimSpec

------------------------------------------------------------------------------
(* The distance of the code.                                               *)

\* The places of the block as points: their powers, and the inverses of these,
\* which are what the decoder calls roots.
PlacePoints == [p \in 0 .. N - 1 |-> PlacePower(p)]
PlaceRoots  == [p \in 0 .. N - 1 |-> field_div(1, PlacePower(p))]

\* Powers of the field's generator differ below N.
LEMMA FirstPowersDiffer ==
    ASSUME NEW p \in 0 .. N - 1, NEW q \in 0 .. N - 1, Exp[p] = Exp[q]
    PROVE  p = q
<1> DEFINE lift(a) == IF a = 0 THEN N ELSE a
<1>1. N >= 2 /\ N \in Nat
  BY FieldSize
<1>2. Exp[0] = 1 /\ Exp[N] = 1
  BY <1>1, PowerTable, PowersCycle
<1>3. ASSUME NEW a \in 0 .. N - 1 PROVE lift(a) \in 1 .. N /\ Exp[lift(a)] = Exp[a]
  BY <1>1, <1>2
<1>4. lift(p) = lift(q)
  <2>1. lift(p) \in 1 .. N /\ lift(q) \in 1 .. N /\ Exp[lift(p)] = Exp[lift(q)]
    BY <1>3
  <2> HIDE DEF lift
  <2> QED BY <2>1, PowersDiffer
<1> QED BY <1>1, <1>4

\* With a gap that is a unit, places of the block have different powers.
LEMMA SamePlace ==
    ASSUME GapIsUnit, NEW p \in Elements, NEW q \in 0 .. N - 1, PlacePower(p) = PlacePower(q)
    PROVE  p % N = q
<1>0. N >= 2 /\ N \in Nat \ {0} /\ RootGap \in Nat /\ p \in 0 .. N /\ q \in Elements
  BY FieldSize, CodeAssumption, Sizes DEF Elements
<1>1. PICK u \in Nat : (RootGap * u) % N = 1
  BY DEF GapIsUnit
<1> DEFINE g == Exp[1]
           v == RootGap * u
           c == v \div N
<1>2. v = N * c + 1 /\ c \in Nat /\ v \in Nat
  BY <1>0, <1>1
<1>3. /\ field_pow(PlacePower(p), u) = field_pow(g, p * v)
      /\ field_pow(PlacePower(q), u) = field_pow(g, q * v)
  BY <1>0, <1>1, PlacePowers
<1> HIDE DEF v, c
<1>4. ASSUME NEW a \in Elements PROVE field_pow(g, a * v) = Exp[a % N] /\ a % N \in 0 .. N - 1
  <2>1. a \in Nat
    BY Sizes
  <2>2. a * v = N * (a * c) + a /\ a * v \in Nat /\ a * c \in Nat
    BY <1>0, <1>2, <2>1
  <2>3. a % N \in 0 .. N - 1 /\ a = N * (a \div N) + (a % N) /\ a \div N \in Nat
    <3>1. N \in Nat \ {0} /\ a \in Int /\ a \in Nat
      BY <1>0, <2>1
    <3> HIDE DEF Elements
    <3> QED BY <3>1, Division
  <2> DEFINE w == a * v
             d == a * c
             s == a % N
             m == a \div N
  <2>4. w = N * (d + m) + s /\ d + m \in Int /\ w \in Int
    <3> HIDE DEF w, d, s, m
    <3>1. w = N * d + (N * m + s) /\ d \in Nat /\ m \in Nat /\ w \in Nat /\ s \in Nat
      BY <2>2, <2>3, <1>0 DEF w, d, s, m
    <3>2. N * (d + m) = N * d + N * m
      BY <1>0, <3>1
    <3> QED BY <1>0, <3>1, <3>2
  <2>5. s \in 0 .. N - 1
    BY <2>3
  <2> HIDE DEF w, d, s, m
  <2>6. w % N = s
    BY <1>0, <2>4, <2>5, DivisionUnique
  <2>7. w \in Nat
    BY <2>2 DEF w
  <2>8. Exp[w % N] = field_pow(g, w)
    BY <1>0, <2>7, ExpIsPow
  <2> QED BY <2>3, <2>6, <2>8 DEF w, s
<1>5. q % N = q
  BY <1>0
<1>6. Exp[p % N] = Exp[q] /\ p % N \in 0 .. N - 1
  BY <1>0, <1>3, <1>4, <1>5
<1> QED BY <1>6, FirstPowersDiffer

\* The roots of places are the inverses of their powers, and differ.
LEMMA PlacesArePoints ==
    ASSUME GapIsUnit
    PROVE  ArePoints(PlaceRoots, PlacePoints, N - 1)
<1>0. N >= 2 /\ N \in Nat /\ 0 .. N - 1 \subseteq Elements
  BY FieldSize DEF Elements
<1>1. ASSUME NEW p \in 0 .. N - 1
      PROVE  /\ PlaceRoots[p] \in 1 .. N /\ PlacePoints[p] \in 1 .. N
             /\ field_mul(PlacePoints[p], PlaceRoots[p]) = 1
             /\ PlacePoints[p] = PlacePower(p)
  <2>1. PlacePoints[p] = PlacePower(p) /\ PlaceRoots[p] = field_div(1, PlacePower(p))
    BY DEF PlacePoints, PlaceRoots
  <2>2. PlacePower(p) \in 1 .. N
    BY <1>0, PlacePowers
  <2> DEFINE y == PlacePower(p)
             x == field_div(1, y)
  <2> HIDE DEF y
  <2>3. y \in 1 .. N
    BY <2>2 DEF y
  <2>4. x \in 1 .. N /\ field_mul(x, y) = 1
    BY <1>0, <2>3, Nonzero
  <2> HIDE DEF x
  <2>5. x \in Elements /\ y \in Elements
    BY <1>0, <2>3, <2>4, Nonzero
  <2>6. field_mul(y, x) = 1
    BY <1>0, <2>4, <2>5, MulMonoid
  <2> QED BY <2>1, <2>3, <2>4, <2>6 DEF x, y
<1>2. ASSUME NEW p \in 0 .. N - 1, NEW q \in 0 .. N - 1, PlaceRoots[p] = PlaceRoots[q]
      PROVE  p = q
  <2> DEFINE a == PlacePoints[p]
             b == PlacePoints[q]
             x == PlaceRoots[p]
  <2>1. /\ a \in 1 .. N /\ b \in 1 .. N /\ x \in 1 .. N
        /\ field_mul(a, x) = 1 /\ field_mul(b, x) = 1
        /\ a = PlacePower(p) /\ b = PlacePower(q)
    BY <1>1, <1>2
  <2> HIDE DEF a, b, x
  <2>2. a \in Elements /\ b \in Elements /\ x \in Elements
    BY <1>0, <2>1, Nonzero
  <2>3. field_mul(a, field_mul(b, x)) = a /\ field_mul(b, field_mul(a, x)) = b
    <3>1. field_mul(a, 1) = field_mul(1, a) /\ field_mul(1, a) = a
      BY <1>0, <2>2, ZeroInElements, MulMonoid
    <3>2. field_mul(b, 1) = field_mul(1, b) /\ field_mul(1, b) = b
      BY <1>0, <2>2, ZeroInElements, MulMonoid
    <3> QED BY <2>1, <3>1, <3>2
  <2>4. field_mul(a, field_mul(b, x)) = field_mul(field_mul(a, b), x)
        /\ field_mul(b, field_mul(a, x)) = field_mul(field_mul(b, a), x)
        /\ field_mul(a, b) = field_mul(b, a)
    BY <1>0, <2>2, MulMonoid
  <2>5. a = b
    BY <2>3, <2>4
  <2>6. p % N = q
    BY <1>0, <2>1, <2>5, SamePlace
  <2>7. p % N = p
    BY <1>0
  <2> QED BY <2>6, <2>7
<1> QED BY <1>1, <1>2 DEF ArePoints

\* A root and a place that belong together: the place is the root's number.
LEMMA PlaceOfRoot ==
    ASSUME GapIsUnit, NEW q \in 0 .. N - 1, NEW p, IsPlace(PlaceRoots[q], p)
    PROVE  p % N = q
<1>0. N >= 2 /\ q \in Elements
  BY FieldSize DEF Elements
<1> DEFINE x == PlaceRoots[q]
           a == PlacePower(p)
           b == PlacePower(q)
<1>1. p \in Elements /\ x \in 1 .. N /\ field_mul(a, x) = 1
  BY DEF IsPlace
<1>2. field_mul(b, x) = 1
  BY PlacesArePoints DEF ArePoints, PlacePoints
<1>3. a \in 1 .. N /\ b \in 1 .. N
  BY <1>0, <1>1, PlacePowers
<1> HIDE DEF a, b, x
<1>4. a \in Elements /\ b \in Elements /\ x \in Elements
  BY <1>0, <1>1, <1>3, Nonzero
<1>5. field_mul(a, field_mul(b, x)) = a /\ field_mul(b, field_mul(a, x)) = b
  <2>1. field_mul(a, 1) = field_mul(1, a) /\ field_mul(1, a) = a
    BY <1>0, <1>4, ZeroInElements, MulMonoid
  <2>2. field_mul(b, 1) = field_mul(1, b) /\ field_mul(1, b) = b
    BY <1>0, <1>4, ZeroInElements, MulMonoid
  <2> QED BY <1>1, <1>2, <2>1, <2>2
<1>6. field_mul(a, field_mul(b, x)) = field_mul(field_mul(a, b), x)
      /\ field_mul(b, field_mul(a, x)) = field_mul(field_mul(b, a), x)
      /\ field_mul(a, b) = field_mul(b, a)
  BY <1>0, <1>4, MulMonoid
<1>7. a = b
  BY <1>5, <1>6
<1> QED BY <1>1, <1>7, SamePlace DEF a, b

\* The other way around.
LEMMA RootOfPlace ==
    ASSUME NEW q \in 0 .. N - 1, NEW x, IsPlace(x, q)
    PROVE  x = PlaceRoots[q]
<1>0. N >= 2 /\ q \in Elements
  BY FieldSize DEF Elements
<1> DEFINE y == PlacePower(q)
           z == field_div(1, y)
<1>1. x \in 1 .. N /\ field_mul(y, x) = 1
  BY DEF IsPlace
<1>2. y \in 1 .. N
  BY <1>0, PlacePowers
<1>3. PlaceRoots[q] = z
  BY DEF PlaceRoots
<1> HIDE DEF y
<1>4. z \in 1 .. N /\ field_mul(z, y) = 1
  BY <1>0, <1>2, Nonzero
<1> HIDE DEF z
<1>5. x \in Elements /\ y \in Elements /\ z \in Elements
  BY <1>0, <1>1, <1>2, <1>4, Nonzero
<1>6. field_mul(z, field_mul(y, x)) = field_mul(field_mul(z, y), x)
  BY <1>0, <1>5, MulMonoid
<1>7. field_mul(z, 1) = field_mul(1, z) /\ field_mul(1, z) = z /\ field_mul(1, x) = x
  BY <1>0, <1>5, ZeroInElements, MulMonoid
<1> QED BY <1>1, <1>3, <1>4, <1>6, <1>7

\* The syndromes of D, and its coefficients as weights of power sums.
AreSyndromes(S, D) ==
    \A k \in 0 .. MinDistance - 1 : S[k] = ValueAt(D, N - 1, generator_roots[k])

AreWeights(v, D) ==
    \A p \in 0 .. N - 1 : v[p] = field_mul(D[p], field_pow(PlacePower(p), FirstRoot))

\* The syndromes of a polynomial are sums of powers, of the places where it is
\* not zero.
LEMMA SyndromesArePowerSums ==
    ASSUME NEW D, Terms(D, N - 1), NEW S, AreSyndromes(S, D), NEW v, AreWeights(v, D)
    PROVE  /\ Terms(v, N - 1)
           /\ Support(v, N - 1) = Support(D, N - 1)
           /\ IsPowerSum(S, v, PlacePoints, N - 1, MinDistance - 1)
<1>0. N >= 2 /\ N \in Nat /\ FirstRoot \in Nat /\ 0 .. N - 1 \subseteq Elements
  BY FieldSize, CodeAssumption, Sizes DEF Elements
<1>1. ASSUME NEW p \in 0 .. N - 1
      PROVE  /\ D[p] \in Elements
             /\ PlacePower(p) \in 1 .. N
             /\ field_pow(PlacePower(p), FirstRoot) \in 1 .. N
             /\ v[p] = field_mul(D[p], field_pow(PlacePower(p), FirstRoot))
  <2> DEFINE y == PlacePower(p)
  <2>1. y \in 1 .. N
    BY <1>0, PlacePowers
  <2>2. D[p] \in Elements
    BY DEF Terms
  <2>3. v[p] = field_mul(D[p], field_pow(y, FirstRoot))
    BY DEF AreWeights
  <2> HIDE DEF y
  <2>4. field_pow(y, FirstRoot) \in 1 .. N
    BY <1>0, <2>1, PowLaws
  <2> QED BY <2>1, <2>2, <2>3, <2>4 DEF y
<1>2. ASSUME NEW p \in 0 .. N - 1
      PROVE  v[p] \in Elements /\ (v[p] = 0 <=> D[p] = 0)
  <2> DEFINE e == field_pow(PlacePower(p), FirstRoot)
             d == D[p]
  <2>1. d \in Elements /\ e \in 1 .. N /\ v[p] = field_mul(d, e)
    BY <1>1
  <2> HIDE DEF d, e
  <2>2. e \in Elements /\ e # 0
    BY <1>0, <2>1, Nonzero
  <2>3. field_mul(d, e) \in Elements /\ field_mul(0, e) = 0
    BY <1>0, <2>1, <2>2, MulMonoid
  <2>4. field_mul(d, e) = 0 => d = 0
    BY <1>0, <2>1, <2>2, Nonzero
  <2> QED BY <2>1, <2>3, <2>4 DEF d
<1>3. Support(v, N - 1) = Support(D, N - 1)
  BY <1>2 DEF Support
<1>4. Terms(v, N - 1)
  BY <1>2 DEF Terms
<1>5. ASSUME NEW k \in 0 .. MinDistance - 1
      PROVE  S[k] = FieldTotal([p \in 0 .. N - 1 |-> field_mul(v[p], field_pow(PlacePoints[p], k))],
                               0, N - 1)
  <2> DEFINE a == generator_roots[k]
  <2>1. S[k] = FieldTotal([p \in 0 .. N - 1 |-> field_mul(D[p], field_pow(a, p))], 0, N - 1)
    BY DEF AreSyndromes, ValueAt, Powers
  <2>2. ASSUME NEW p \in 0 .. N - 1
        PROVE  field_mul(D[p], field_pow(a, p)) = field_mul(v[p], field_pow(PlacePoints[p], k))
    <3> DEFINE y == PlacePower(p)
               d == D[p]
               e == field_pow(y, FirstRoot)
               h == field_pow(y, k)
    <3>1. d \in Elements /\ y \in 1 .. N /\ e \in 1 .. N /\ v[p] = field_mul(d, e)
      BY <1>1
    <3>2. PlacePoints[p] = y
      BY DEF PlacePoints
    <3>3. field_pow(a, p) = field_pow(y, k + FirstRoot)
      <4>1. p % N = p /\ p \in Elements
        BY <1>0
      <4>2. field_pow(a, p % N) = field_pow(y, k + FirstRoot)
        BY <4>1, RootToPlace
      <4> QED BY <4>1, <4>2
    <3>4. k \in Nat /\ k + FirstRoot = FirstRoot + k
      BY <1>0, FieldSize
    <3> HIDE DEF y, d, a
    <3>5. field_pow(y, FirstRoot + k) = field_mul(e, h) /\ h \in 1 .. N
      BY <1>0, <3>1, <3>4, PowLaws
    <3> HIDE DEF e, h
    <3>6. e \in Elements /\ h \in Elements
      BY <1>0, <3>1, <3>5, Nonzero
    <3>7. field_mul(field_mul(d, e), h) = field_mul(d, field_mul(e, h))
      BY <1>0, <3>1, <3>6, MulMonoid
    <3> QED BY <3>1, <3>2, <3>3, <3>4, <3>5, <3>7 DEF d, h
  <2>3. [p \in 0 .. N - 1 |-> field_mul(D[p], field_pow(a, p))]
          = [p \in 0 .. N - 1 |-> field_mul(v[p], field_pow(PlacePoints[p], k))]
    BY <2>2
  <2> QED BY <2>1, <2>3
<1> QED BY <1>3, <1>4, <1>5 DEF IsPowerSum

\* The distance of the code: a polynomial with no more coefficients than the
\* generator has roots, none of them zero, does not vanish at all of these.
LEMMA CodewordsDiffer ==
    ASSUME GapIsUnit, NEW D, Terms(D, N - 1),
           \A k \in 0 .. MinDistance - 1 : ValueAt(D, N - 1, generator_roots[k]) = 0,
           NEW P \in SUBSET (0 .. N - 1), Support(D, N - 1) \subseteq P,
           Cardinality(P) <= MinDistance
    PROVE  Support(D, N - 1) = {}
<1> DEFINE n == N - 1
           r == MinDistance - 1
           S == [k \in 0 .. r |-> 0]
           v == [p \in 0 .. n |-> field_mul(D[p], field_pow(PlacePower(p), FirstRoot))]
<1>0. N >= 2 /\ n \in Nat /\ r \in Int /\ r + 1 = MinDistance
  BY FieldSize
<1>1. AreSyndromes(S, D) /\ AreWeights(v, D) /\ \A k \in 0 .. r : S[k] = 0
  BY DEF AreSyndromes, AreWeights
<1> HIDE DEF S, v
<1>2. /\ Terms(v, n) /\ Support(v, n) = Support(D, n)
      /\ IsPowerSum(S, v, PlacePoints, n, r)
  BY <1>1, SyndromesArePowerSums
<1>3. ArePoints(PlaceRoots, PlacePoints, n)
  BY PlacesArePoints
<1> HIDE DEF n, r
<1>4. P \in SUBSET (0 .. n) /\ Support(v, n) \subseteq P /\ Cardinality(P) <= r + 1
  BY <1>0, <1>2 DEF n
<1>5. Support(v, n) = {}
  BY <1>0, <1>1, <1>2, <1>3, <1>4, PowerSumZero
<1> QED BY <1>2, <1>5 DEF n

------------------------------------------------------------------------------
(* The block that is sent, and the noise in its syndromes.                 *)

\* A transmission whose erasures are different places of the full block: an
\* index behind the block is one of the padding, as the shim wraps it.
IsSent(t) ==
    /\ IsTransmission(t)
    /\ Len(t.message) <= message_length =>
          /\ \A k \in 1 .. Len(t.erased) :
                 t.erased[k] \in 0 .. N /\ t.erased[k] # Len(t.message) + MinDistance
          /\ \A j, k \in 1 .. Len(t.erased) : t.erased[j] = t.erased[k] => j = k

\* The block under way is that of its message.
BlockSent ==
    /\ IsSent(call)
    /\ Len(call.message) <= message_length
    /\ encoded = Encoded(call.message)

\* The block as a polynomial.
SentPolynomial == BlockPolynomial(encoded)

\* The noise as a polynomial, and the places where it may be: those of the
\* erasures and those of the errors the decoder is not told of.
Noise == [p \in 0 .. N - 1 |-> IF p < Len(encoded) THEN call.noise[Len(encoded) - p] ELSE 0]

\* The place an erasure is looked for at.
ErasedPlace(k) == (N - (call.erased[k + 1] + padLength + 1)) % 2^Width

KnownPlaces   == {ErasedPlace(k) : k \in 0 .. numErasures - 1}
UnknownPlaces == {p \in 0 .. N - 1 : Noise[p] # 0 /\ p \notin KnownPlaces}
Suspects      == KnownPlaces \cup UnknownPlaces

\* What the code can correct.
WithinBound == 2 * numUnknown + numErasures <= MinDistance

\* What a block is made of.
LEMMA BlockFacts ==
    ASSUME BlockSent
    PROVE  /\ Len(encoded) \in MinDistance .. N /\ Len(encoded) \in Nat
           /\ Len(encoded) = Len(call.message) + MinDistance
           /\ Len(call.message) \in Nat
           /\ encoded \in Seq(Elements)
           /\ \A k \in 1 .. Len(encoded) : encoded[k] \in Elements /\ call.noise[k] \in Elements
           /\ \A k \in 1 .. Len(call.message) : encoded[k] = call.message[k]
           /\ call.message \in Seq(Elements)
           /\ IsCodeword(SentPolynomial)
           /\ numErasures \in Nat
           /\ padLength = N - Len(encoded)
           /\ \A k \in 0 .. numErasures - 1 :
                  call.erased[k + 1] \in 0 .. N /\ call.erased[k + 1] # Len(encoded)
           /\ \A j, k \in 0 .. numErasures - 1 : call.erased[j + 1] = call.erased[k + 1] => j = k
<1> DEFINE m == call.message
<1>1. /\ m \in Seq(Elements) /\ call.noise \in Seq(Elements) /\ call.erased \in Seq(Nat)
      /\ Len(call.noise) = Len(m) + MinDistance /\ Len(m) <= message_length
      /\ Len(m) \in Nat
  BY DEF BlockSent, IsSent, IsTransmission, TransmissionRecords
<1>2. encoded = Encoded(m)
  BY DEF BlockSent
<1>3. /\ encoded \in Seq(Elements) /\ Len(encoded) = Len(m) + MinDistance
      /\ Len(encoded) \in 0 .. N
  <2> HIDE DEF m
  <2> QED BY <1>1, <1>2, EncodedTypes
<1>4. SubSeq(encoded, 1, Len(m)) = m /\ IsCodeword(SentPolynomial)
  <2> HIDE DEF m
  <2> QED BY <1>1, <1>2, EncodedVanishes DEF SentPolynomial
<1>5. Len(encoded) \in MinDistance .. N /\ Len(encoded) \in Nat
  BY <1>1, <1>3, FieldSize
<1>6. \A k \in 1 .. Len(encoded) : encoded[k] \in Elements /\ call.noise[k] \in Elements
  BY <1>1, <1>3
<1>7. \A k \in 1 .. Len(m) : encoded[k] = m[k]
  <2> HIDE DEF m
  <2> SUFFICES ASSUME NEW k \in 1 .. Len(m) PROVE encoded[k] = m[k]
    OBVIOUS
  <2>1. Len(m) <= Len(encoded)
    BY <1>1, <1>3, FieldSize
  <2>2. SubSeq(encoded, 1, Len(m))[k] = encoded[k]
    BY <1>1, <1>3, <2>1
  <2> QED BY <1>4, <2>2
<1>8. numErasures \in Nat /\ padLength = N - Len(encoded) /\ numErasures = Len(call.erased)
  BY <1>1 DEF numErasures, padLength
<1>9. \A k \in 1 .. Len(call.erased) :
          call.erased[k] \in 0 .. N /\ call.erased[k] # Len(encoded)
  BY <1>1, <1>3 DEF BlockSent, IsSent
<1>10. \A j, k \in 1 .. Len(call.erased) : call.erased[j] = call.erased[k] => j = k
  BY <1>1 DEF BlockSent, IsSent
<1>11. \A k \in 0 .. numErasures - 1 : k + 1 \in 1 .. Len(call.erased)
  BY <1>8
<1>12. \A k \in 0 .. numErasures - 1 :
           call.erased[k + 1] \in 0 .. N /\ call.erased[k + 1] # Len(encoded)
  BY <1>9, <1>11
<1>13. ASSUME NEW j \in 0 .. numErasures - 1, NEW k \in 0 .. numErasures - 1,
              call.erased[j + 1] = call.erased[k + 1]
       PROVE  j = k
  <2>1. j + 1 = k + 1
    BY <1>10, <1>11, <1>13
  <2> QED BY <1>8, <2>1
<1> QED BY <1>1, <1>3, <1>4, <1>5, <1>6, <1>7, <1>8, <1>12, <1>13

\* Where an erasure lies, counted from the end of the block.
LEMMA ErasedPlaceIs ==
    ASSUME BlockSent, NEW k \in 0 .. numErasures - 1
    PROVE  /\ ErasedPlace(k) \in 0 .. N - 1
           /\ ErasedPlace(k) = IF call.erased[k + 1] < Len(encoded)
                               THEN Len(encoded) - 1 - call.erased[k + 1]
                               ELSE N + Len(encoded) - call.erased[k + 1]
<1> DEFINE e == call.erased[k + 1]
           l == Len(encoded)
           a == N - (e + padLength + 1)
           m == 2^Width
<1>1. /\ e \in 0 .. N /\ e # l /\ l \in 0 .. N /\ padLength = N - l /\ N \in Nat
      /\ ErasedPlace(k) = a % m
  BY BlockFacts, FieldSize DEF ErasedPlace
<1>2. m = N + 1 /\ m \in Nat \ {0}
  BY Sizes
<1> HIDE DEF e, l
<1>3. a = l - 1 - e /\ a \in Int
  BY <1>1
<1> HIDE DEF a, m
<1>4. CASE e < l
  <2>1. a \in 0 .. m - 1 /\ a = m * 0 + a /\ a \in 0 .. N - 1
    BY <1>1, <1>2, <1>3, <1>4
  <2>2. a % m = a
    BY <1>2, <1>3, <2>1, DivisionUnique
  <2> QED BY <1>1, <1>3, <1>4, <2>1, <2>2 DEF e, l
<1>5. CASE ~ (e < l)
  <2> DEFINE b == N + l - e
  <2>1. b \in 0 .. m - 1 /\ b \in 0 .. N - 1 /\ a = m * (-1) + b
    BY <1>1, <1>2, <1>3, <1>5
  <2> HIDE DEF b
  <2>2. a % m = b
    <3>1. -1 \in Int
      OBVIOUS
    <3> QED BY <1>2, <1>3, <2>1, <3>1, DivisionUnique
  <2> QED BY <1>1, <1>5, <2>1, <2>2 DEF b, e, l
<1> QED BY <1>4, <1>5

\* Two positions that go around the padding keep apart, and off the place that
\* is left out.
LEMMA PlacesApart ==
    ASSUME NEW n \in Nat, NEW l \in 0 .. n, NEW d \in 0 .. n, NEW e \in 0 .. n,
           d # l, e # l,
           (IF d < l THEN l - 1 - d ELSE n + l - d) = (IF e < l THEN l - 1 - e ELSE n + l - e)
    PROVE  d = e
  OBVIOUS

\* The places of a block around the one that wraps: each has an index of its own.
LEMMA IndexApart ==
    ASSUME NEW n \in Nat, NEW q \in 0 .. n, NEW d \in 0 .. n - 1
    PROVE  LET index(a) == IF a < q THEN n + 1 + a - q ELSE a - q
           IN  /\ index(d) \in 0 .. n /\ index(d) # n - q
               /\ \A e \in 0 .. n - 1 : index(d) = index(e) => d = e
  OBVIOUS

\* The erasures have places of their own.
LEMMA ErasuresApart ==
    ASSUME BlockSent
    PROVE  /\ KnownPlaces \in SUBSET (0 .. N - 1)
           /\ Cardinality(KnownPlaces) <= numErasures
           /\ \A j, k \in 0 .. numErasures - 1 : ErasedPlace(j) = ErasedPlace(k) => j = k
<1>0. numErasures \in Nat /\ N \in Nat
  BY BlockFacts, FieldSize
<1>1. KnownPlaces \in SUBSET (0 .. N - 1)
  BY ErasedPlaceIs DEF KnownPlaces
<1>2. Cardinality(KnownPlaces) <= numErasures
  <2> DEFINE P == 0 .. numErasures - 1
             x == [k \in P |-> ErasedPlace(k)]
  <2>1. KnownPlaces = ImageOf(x, P)
    BY DEF KnownPlaces, ImageOf
  <2>2. IsFiniteSet(P) /\ Cardinality(P) = numErasures
    <3>1. 0 \in Int /\ numErasures - 1 \in Int
      BY <1>0
    <3>2. IsFiniteSet(P) /\ Cardinality(P) = IF 0 > numErasures - 1 THEN 0 ELSE numErasures - 1 - 0 + 1
      BY <3>1, FS_Interval
    <3> QED BY <1>0, <3>2
  <2> HIDE DEF P, x
  <2>3. Cardinality(ImageOf(x, P)) <= Cardinality(P)
    BY <2>2, ImageCount
  <2> QED BY <2>1, <2>2, <2>3
<1>3. ASSUME NEW j \in 0 .. numErasures - 1, NEW k \in 0 .. numErasures - 1,
             ErasedPlace(j) = ErasedPlace(k)
      PROVE  j = k
  <2> DEFINE d == call.erased[j + 1]
             e == call.erased[k + 1]
             l == Len(encoded)
  <2>0. \A m \in 0 .. numErasures - 1 :
            /\ call.erased[m + 1] \in 0 .. N /\ call.erased[m + 1] # l
            /\ d = call.erased[m + 1] => j = m
    BY BlockFacts
  <2>1. /\ d \in 0 .. N /\ e \in 0 .. N /\ l \in 0 .. N /\ d # l /\ e # l
        /\ d = e => j = k
    <3>1. Len(encoded) \in MinDistance .. N /\ MinDistance \in Nat
      BY BlockFacts, FieldSize
    <3> HIDE DEF d, e
    <3> QED BY <2>0, <3>1 DEF d, e
  <2>2. /\ ErasedPlace(j) = IF d < l THEN l - 1 - d ELSE N + l - d
        /\ ErasedPlace(k) = IF e < l THEN l - 1 - e ELSE N + l - e
    BY ErasedPlaceIs
  <2> HIDE DEF d, e, l
  <2>3. (IF d < l THEN l - 1 - d ELSE N + l - d) = (IF e < l THEN l - 1 - e ELSE N + l - e)
    BY <1>3, <2>2
  <2>4. d = e
    BY <1>0, <2>1, <2>3, PlacesApart
  <2> QED BY <2>1, <2>4
<1> QED BY <1>1, <1>2, <1>3

\* As many places as bytes are changed without an erasure.
LEMMA UnknownCount ==
    ASSUME BlockSent
    PROVE  /\ UnknownPlaces \in SUBSET (0 .. N - 1)
           /\ Cardinality(UnknownPlaces) = numUnknown /\ numUnknown \in Nat
           /\ Suspects \in SUBSET (0 .. N - 1)
           /\ Support(Noise, N - 1) \subseteq Suspects
           /\ IsFiniteSet(Suspects)
           /\ Cardinality(Suspects) \in Nat
           /\ Cardinality(Suspects) <= numUnknown + numErasures
<1> DEFINE l == Len(encoded)
           Q == {k \in 1 .. l : /\ call.noise[k] # 0
                                /\ \A j \in 1 .. numErasures : call.erased[j] # k - 1}
           x == [k \in 1 .. l |-> l - k]
<1>0. l \in 0 .. N /\ l \in Nat /\ N \in Nat /\ N >= 2 /\ numErasures \in Nat /\ N - 1 \in Nat
  BY BlockFacts, FieldSize
<1>1. ASSUME NEW k \in 1 .. l
      PROVE  l - k \in KnownPlaces <=> \E j \in 1 .. numErasures : call.erased[j] = k - 1
  <2>1. ASSUME NEW i \in 0 .. numErasures - 1
        PROVE  ErasedPlace(i) = l - k <=> call.erased[i + 1] = k - 1
    <3> DEFINE e == call.erased[i + 1]
    <3>1. e \in 0 .. N /\ e # l
      BY BlockFacts
    <3>2. ErasedPlace(i) = IF e < l THEN l - 1 - e ELSE N + l - e
      BY ErasedPlaceIs
    <3> HIDE DEF e, l
    <3>3. (IF e < l THEN l - 1 - e ELSE N + l - e) = l - k <=> e = k - 1
      BY <1>0, <3>1
    <3> QED BY <3>2, <3>3 DEF e
  <2>2. ASSUME l - k \in KnownPlaces PROVE \E j \in 1 .. numErasures : call.erased[j] = k - 1
    <3>1. PICK i \in 0 .. numErasures - 1 : ErasedPlace(i) = l - k
      BY <2>2 DEF KnownPlaces
    <3>2. call.erased[i + 1] = k - 1 /\ i + 1 \in 1 .. numErasures
      BY <1>0, <2>1, <3>1
    <3> QED BY <3>2
  <2>3. ASSUME NEW j \in 1 .. numErasures, call.erased[j] = k - 1 PROVE l - k \in KnownPlaces
    <3>1. j - 1 \in 0 .. numErasures - 1 /\ (j - 1) + 1 = j
      BY <1>0
    <3>2. ErasedPlace(j - 1) = l - k
      BY <2>1, <2>3, <3>1
    <3> QED BY <3>1, <3>2 DEF KnownPlaces
  <2> QED BY <2>2, <2>3
<1>2. UnknownPlaces = ImageOf(x, Q)
  <2>1. ASSUME NEW p \in UnknownPlaces PROVE p \in ImageOf(x, Q)
    <3>1. p \in 0 .. N - 1 /\ Noise[p] # 0 /\ p \notin KnownPlaces
      BY DEF UnknownPlaces
    <3>2. p < l /\ call.noise[l - p] # 0
      BY <3>1 DEF Noise
    <3>3. l - p \in 1 .. l /\ l - (l - p) = p
      BY <1>0, <3>1, <3>2
    <3>4. l - p \in Q
      BY <1>1, <3>1, <3>2, <3>3
    <3>5. x[l - p] = p
      BY <3>3
    <3> HIDE DEF x, Q
    <3> QED BY <3>4, <3>5 DEF ImageOf
  <2>2. ASSUME NEW k \in Q PROVE x[k] \in UnknownPlaces
    <3>1. k \in 1 .. l /\ x[k] = l - k /\ l - k \in 0 .. N - 1 /\ l - k < l /\ l - (l - k) = k
      BY <1>0
    <3>2. Noise[l - k] # 0
      BY <3>1 DEF Noise
    <3>3. l - k \notin KnownPlaces
      BY <1>1, <3>1
    <3> QED BY <3>1, <3>2, <3>3 DEF UnknownPlaces
  <2> HIDE DEF x, Q
  <2> QED BY <2>1, <2>2 DEF ImageOf
<1>3. IsFiniteSet(Q)
  <2>1. IsFiniteSet(1 .. l)
    BY <1>0, FS_Interval
  <2> QED BY <2>1, FS_Subset
<1>4. Cardinality(UnknownPlaces) = numUnknown
  <2>1. \A j, k \in Q : x[j] = x[k] => j = k
    <3> SUFFICES ASSUME NEW j \in Q, NEW k \in Q, x[j] = x[k] PROVE j = k
      OBVIOUS
    <3>1. l - j = l - k /\ j \in Int /\ k \in Int
      OBVIOUS
    <3> HIDE DEF l
    <3> QED BY <1>0, <3>1
  <2>2. numUnknown = Cardinality(Q)
    BY DEF numUnknown
  <2> HIDE DEF Q, x
  <2>3. Cardinality(ImageOf(x, Q)) = Cardinality(Q)
    BY <1>3, <2>1, ImageCount
  <2> QED BY <1>2, <2>2, <2>3
<1> HIDE DEF Q, x, l
<1>5. UnknownPlaces \in SUBSET (0 .. N - 1) /\ KnownPlaces \in SUBSET (0 .. N - 1)
  BY ErasuresApart DEF UnknownPlaces
<1>6. /\ IsFiniteSet(UnknownPlaces) /\ Cardinality(UnknownPlaces) \in Nat
      /\ IsFiniteSet(KnownPlaces) /\ Cardinality(KnownPlaces) \in Nat
  BY <1>0, <1>5, SupportFinite
<1>7. Suspects \in SUBSET (0 .. N - 1) /\ Support(Noise, N - 1) \subseteq Suspects
  BY <1>5 DEF Suspects, Support, UnknownPlaces
<1>8. IsFiniteSet(Suspects) /\ Cardinality(Suspects) \in Nat
  BY <1>0, <1>7, SupportFinite
<1>9. Cardinality(Suspects) = Cardinality(KnownPlaces) + Cardinality(UnknownPlaces)
                                - Cardinality(KnownPlaces \cap UnknownPlaces)
  BY <1>6, FS_Union DEF Suspects
<1>10. KnownPlaces \cap UnknownPlaces = {}
  BY DEF UnknownPlaces
<1>11. Cardinality(Suspects) = Cardinality(KnownPlaces) + Cardinality(UnknownPlaces)
  <2>1. Cardinality(KnownPlaces \cap UnknownPlaces) = 0
    BY <1>10, FS_EmptySet
  <2> QED BY <1>6, <1>9, <2>1
<1>12. Cardinality(KnownPlaces) <= numErasures
  BY ErasuresApart
<1> QED BY <1>0, <1>4, <1>5, <1>6, <1>7, <1>8, <1>11, <1>12

\* The array holds the block under its noise.
WasReceived == \A p \in 0 .. N - 1 : received[p] = field_add(SentPolynomial[p], Noise[p])

\* As polynomials: the block vanishes at the generator's roots.
LEMMA BlockTypes ==
    ASSUME BlockSent
    PROVE  /\ Terms(SentPolynomial, N - 1) /\ Terms(Noise, N - 1)
           /\ \A k \in 0 .. MinDistance - 1 : ValueAt(SentPolynomial, N - 1, generator_roots[k]) = 0
           /\ \A p \in 0 .. N - 1 : p < Len(encoded) => SentPolynomial[p] = encoded[Len(encoded) - p]
<1> DEFINE l == Len(encoded)
<1>0. l \in 0 .. N /\ N \in Nat /\ \A k \in 1 .. l : encoded[k] \in Elements /\ call.noise[k] \in Elements
  BY BlockFacts, FieldSize
<1>1. ASSUME NEW p \in 0 .. N - 1
      PROVE  /\ SentPolynomial[p] \in Elements /\ Noise[p] \in Elements
             /\ p < l => SentPolynomial[p] = encoded[l - p]
  <2>1. SentPolynomial[p] = (IF p < l THEN encoded[l - p] ELSE 0)
        /\ Noise[p] = (IF p < l THEN call.noise[l - p] ELSE 0)
    BY DEF SentPolynomial, BlockPolynomial, Noise
  <2>2. p < l => l - p \in 1 .. l
    BY <1>0
  <2> HIDE DEF l
  <2> QED BY <1>0, <2>1, <2>2, ZeroInElements
<1>2. \A k \in 0 .. MinDistance - 1 : ValueAt(SentPolynomial, N - 1, generator_roots[k]) = 0
  <2> SUFFICES ASSUME NEW k \in 0 .. MinDistance - 1
               PROVE  ValueAt(SentPolynomial, N - 1, generator_roots[k]) = 0
    OBVIOUS
  <2>1. IsCodeword(SentPolynomial)
    BY BlockFacts
  <2>2. Value(SentPolynomial, generator_roots[k]) = 0
    BY <2>1 DEF IsCodeword
  <2> QED BY <2>2 DEF Value, ValueAt, Powers
<1> QED BY <1>1, <1>2 DEF Terms

\* The syndromes tell of the noise alone.
LEMMA NoiseSyndromes ==
    ASSUME BlockSent, WasReceived, received \in [0 .. N -> Elements]
    PROVE  AreSyndromes(Syndromes(received), Noise)
<1> DEFINE n == N - 1
<1>0. N >= 2 /\ n \in Nat /\ Terms(SentPolynomial, n) /\ Terms(Noise, n) /\ 1 \in Elements
  BY BlockTypes, FieldSize, ZeroInElements
<1>1. \A p \in 0 .. n : received[p] = field_add(SentPolynomial[p], field_mul(1, Noise[p]))
  <2> SUFFICES ASSUME NEW p \in 0 .. n
               PROVE  received[p] = field_add(SentPolynomial[p], field_mul(1, Noise[p]))
    OBVIOUS
  <2>1. Noise[p] \in Elements
    BY <1>0 DEF Terms
  <2>2. field_mul(1, Noise[p]) = Noise[p]
    BY <1>0, <2>1, MulMonoid
  <2> QED BY <2>2 DEF WasReceived
<1>2. ASSUME NEW k \in 0 .. MinDistance - 1
      PROVE  Syndromes(received)[k] = ValueAt(Noise, n, generator_roots[k])
  <2> DEFINE a == generator_roots[k]
  <2>1. a \in 1 .. N /\ Syndromes(received)[k] = ValueAt(received, n, a)
    BY SyndromeIsValue
  <2>2. ValueAt(SentPolynomial, n, a) = 0
    BY BlockTypes
  <2> HIDE DEF a, n
  <2>3. ValueAt(received, n, a) = field_add(ValueAt(SentPolynomial, n, a), field_mul(1, ValueAt(Noise, n, a)))
    <3> DEFINE h == received
               s == SentPolynomial
               e == Noise
               c == 1
    <3>1. /\ N >= 2 /\ n \in Nat /\ Terms(s, n) /\ Terms(e, n) /\ c \in Elements /\ a \in 1 .. N
          /\ \A p \in 0 .. n : h[p] = field_add(s[p], field_mul(c, e[p]))
      BY <1>0, <1>1, <2>1
    <3> HIDE DEF h, s, e, c
    <3>2. ValueAt(h, n, a) = field_add(ValueAt(s, n, a), field_mul(c, ValueAt(e, n, a)))
      BY <3>1, ValueAdds
    <3> QED BY <3>2 DEF h, s, e, c
  <2>4. ValueAt(Noise, n, a) \in Elements
    BY <1>0, <2>1, ValueType
  <2>5. field_mul(1, ValueAt(Noise, n, a)) = ValueAt(Noise, n, a)
    BY <1>0, <2>4, MulMonoid
  <2>6. field_add(0, ValueAt(Noise, n, a)) = ValueAt(Noise, n, a)
    BY <2>4, AddGroup
  <2> QED BY <2>1, <2>2, <2>3, <2>5, <2>6 DEF a
<1> QED BY <1>2 DEF AreSyndromes

------------------------------------------------------------------------------
(* The loop finds the locator of the errors it is not told of.             *)

\* The first locations are those of the erasures.
LocationsKnown == \A k \in 0 .. numErasures - 1 : locations[k] = ErasedPlace(k)

\* The syndromes of the loop are sums of powers of unknown places.
TellOfUnknown(w) ==
    /\ Terms(w, N - 1)
    /\ IsPowerSum(syndromes, w, PlacePoints, N - 1, MinDistance - 1 - numErasures)
    /\ Support(w, N - 1) \subseteq UnknownPlaces
    /\ \A p \in Support(w, N - 1), k \in 0 .. numErasures - 1 : PlaceRoots[p] # roots[k]

\* The syndromes that the loop works on are sums of powers of the unknown
\* places alone: the erasure locator is zero at the others.
LEMMA ErrorWeights ==
    ASSUME GapIsUnit, BlockSent, WasReceived, received \in [0 .. N -> Elements],
           erasureLocator \in [Coefficients -> Elements],
           SyndromesKept, numErasures <= MinDistance,
           numErasures # 0 => ErasuresPlaced /\ LocationsKnown
    PROVE  \E w : TellOfUnknown(w)
<1> DEFINE n == N - 1
           r == MinDistance - 1
           rho == numErasures
           S == Syndromes(received)
           v == [p \in 0 .. n |-> field_mul(Noise[p], field_pow(PlacePower(p), FirstRoot))]
<1>0. N >= 2 /\ n \in Nat /\ r \in Nat /\ rho \in Nat /\ rho <= r + 1
  BY BlockFacts, FieldSize
<1>1. Terms(Noise, n) /\ AreSyndromes(S, Noise)
  BY BlockTypes, NoiseSyndromes
<1>2. AreWeights(v, Noise)
  BY DEF AreWeights
<1> HIDE DEF v
<1>3. /\ Terms(v, n) /\ Support(v, n) = Support(Noise, n)
      /\ IsPowerSum(S, v, PlacePoints, n, r)
  BY <1>1, <1>2, SyndromesArePowerSums
<1>4. CASE rho = 0
  <2>1. syndromes = S
    BY <1>4 DEF SyndromesKept
  <2>2. KnownPlaces = {}
    BY <1>0, <1>4 DEF KnownPlaces
  <2>3. Support(v, n) = UnknownPlaces
    BY <1>3, <2>2 DEF Support, UnknownPlaces
  <2>4. MinDistance - 1 - numErasures = r
    BY <1>0, <1>4, FieldSize
  <2>5. TellOfUnknown(v)
    <3>1. IsPowerSum(syndromes, v, PlacePoints, N - 1, MinDistance - 1 - numErasures)
      BY <1>3, <2>1, <2>4
    <3>2. \A k \in 0 .. numErasures - 1 : FALSE
      BY <1>0, <1>4
    <3> HIDE DEF n, rho
    <3> QED BY <1>3, <2>3, <3>1, <3>2 DEF TellOfUnknown, n
  <2> QED BY <2>5
<1>5. CASE rho # 0
  <2> DEFINE G == erasureLocator
             w == [p \in 0 .. n |-> field_mul(v[p],
                     field_mul(field_pow(PlacePoints[p], rho), ValueAt(G, rho, PlaceRoots[p])))]
  <2>0. ErasuresPlaced /\ LocationsKnown
    BY <1>5
  <2>1. Terms(G, rho)
    <3>1. \A k \in 0 .. rho : k \in Coefficients
      BY <1>0, FieldSize DEF Coefficients
    <3> QED BY <3>1 DEF Terms
  <2>2. ArePoints(PlaceRoots, PlacePoints, n)
    BY PlacesArePoints
  <2>3. IsWeighed(w, v, PlaceRoots, PlacePoints, G, rho, rho, n)
    BY DEF IsWeighed
  <2>4. IsShifted(syndromes, G, rho, S, rho, r - rho)
    <3> SUFFICES ASSUME NEW k \in 0 .. r - rho
                 PROVE  syndromes[k] = Conv(G, rho, S, k + rho)
      BY DEF IsShifted
    <3>1. savedSyndromes = S /\ syndromes = WithoutErasures(savedSyndromes, G)
      BY <1>5 DEF SyndromesKept
    <3>2. k \in 0 .. MinDistance - 1 /\ k + numErasures < MinDistance /\ k + rho \in 0 .. r
      BY <1>0, FieldSize
    <3> HIDE DEF G, S
    <3>3. syndromes[k] = polynomial_mul(G, rho, S, r, r)[k + rho]
      BY <3>1, <3>2 DEF WithoutErasures
    <3> HIDE DEF rho, r
    <3> QED BY <1>0, <3>2, <3>3, MulIsConv
  <2>5. \A p \in 0 .. n : w[p] = field_mul(v[p],
                     field_mul(field_pow(PlacePoints[p], rho), ValueAt(G, rho, PlaceRoots[p])))
    OBVIOUS
  <2> HIDE DEF w
  <2>6. Terms(w, n) /\ IsPowerSum(syndromes, w, PlacePoints, n, r - rho)
    <3>1. r \in Int /\ rho <= rho
      BY <1>0
    <3> HIDE DEF S, G, n, r, rho
    <3> QED BY <1>0, <1>3, <2>1, <2>2, <2>3, <2>4, <3>1, PowerSumShift
  <2>7. ASSUME NEW p \in Support(w, n)
        PROVE  /\ p \in 0 .. n /\ v[p] # 0 /\ ValueAt(G, rho, PlaceRoots[p]) # 0
               /\ PlaceRoots[p] \in 1 .. N
    <3>1. p \in 0 .. n /\ w[p] # 0
      BY DEF Support
    <3>2. PlaceRoots[p] \in 1 .. N
      BY <2>2, <3>1 DEF ArePoints
    <3>3. \A a : field_mul(0, a) = 0 /\ field_mul(a, 0) = 0
      BY <1>0, MulMonoid
    <3>4. w[p] = field_mul(v[p],
                     field_mul(field_pow(PlacePoints[p], rho), ValueAt(G, rho, PlaceRoots[p])))
      BY <2>5, <3>1
    <3>5. v[p] # 0
      BY <3>1, <3>3, <3>4
    <3>6. ValueAt(G, rho, PlaceRoots[p]) # 0
      BY <3>1, <3>3, <3>4
    <3> QED BY <3>1, <3>2, <3>5, <3>6
  <2>8. ASSUME NEW p \in Support(w, n), NEW k \in 0 .. numErasures - 1
        PROVE  PlaceRoots[p] # roots[k]
    <3>1. ValueAt(G, rho, roots[k]) = 0
      BY <2>0 DEF ErasuresPlaced
    <3> QED BY <2>7, <3>1
  <2>9. ASSUME NEW p \in Support(w, n) PROVE p \in UnknownPlaces
    <3>1. p \in 0 .. N - 1 /\ v[p] # 0
      BY <2>7
    <3>2. Noise[p] # 0
      BY <1>3, <3>1 DEF Support
    <3>3. ASSUME p \in KnownPlaces PROVE FALSE
      <4>1. PICK k \in 0 .. numErasures - 1 : p = ErasedPlace(k)
        BY <3>3 DEF KnownPlaces
      <4>2. IsPlace(roots[k], p)
        BY <2>0, <4>1 DEF ErasuresPlaced, LocationsKnown
      <4>3. roots[k] = PlaceRoots[p]
        BY <3>1, <4>2, RootOfPlace
      <4> QED BY <2>8, <4>3
    <3> QED BY <3>1, <3>2, <3>3 DEF UnknownPlaces
  <2>10. TellOfUnknown(w)
    <3>1. r - rho = MinDistance - 1 - numErasures
      OBVIOUS
    <3>2. IsPowerSum(syndromes, w, PlacePoints, N - 1, MinDistance - 1 - numErasures)
      BY <2>6, <3>1
    <3> QED BY <1>5, <2>6, <2>8, <2>9, <3>2 DEF TellOfUnknown
  <2> QED BY <2>10
<1> QED BY <1>4, <1>5

\* A register's output is a convolution of its taps with the syndromes.
LEMMA OutputIsConv ==
    ASSUME NEW L \in Nat, NEW C, Terms(C, L), NEW r \in Nat, NEW S, Terms(S, r), NEW k \in L .. r
    PROVE  Output(C, S, L, k) = Conv(C, L, S, k)
<1> DEFINE g == [i \in 0 .. L |-> field_mul(C[i], S[k - i])]
<1>1. LongTerms(g, C, L, S, k)
  BY DEF LongTerms
<1>2. Output(C, S, L, k) = FieldTotal(g, 0, L)
  BY DEF Output
<1> HIDE DEF g
<1> QED BY <1>1, <1>2, ConvLong, FieldSize

\* Zeros behind the last tap change nothing.
LEMMA ConvPadded ==
    ASSUME NEW t \in Nat, NEW f, NEW m \in Nat, t <= m, NEW E,
           \A i \in 0 .. m : E[i] = IF i <= t THEN f[i] ELSE 0,
           NEW S, NEW k \in Nat
    PROVE  Conv(E, m, S, k) = Conv(f, t, S, k)
<1>1. ASSUME NEW i \in 0 .. k
      PROVE  (IF i <= m THEN field_mul(E[i], S[k - i]) ELSE 0)
               = (IF i <= t THEN field_mul(f[i], S[k - i]) ELSE 0)
  <2>1. CASE i <= t
    <3>1. i \in 0 .. m /\ i <= m
      BY <2>1
    <3>2. E[i] = f[i]
      BY <2>1, <3>1
    <3> QED BY <2>1, <3>1, <3>2
  <2>2. CASE ~ (i <= t) /\ i <= m
    <3>1. i \in 0 .. m
      BY <2>2
    <3>2. E[i] = 0
      BY <2>2, <3>1
    <3>3. field_mul(0, S[k - i]) = 0
      BY FieldSize, MulMonoid
    <3> QED BY <2>2, <3>2, <3>3
  <2>3. CASE ~ (i <= m)
    <3>1. ~ (i <= t)
      BY <2>3
    <3> QED BY <2>3, <3>1
  <2> QED BY <2>1, <2>2, <2>3
<1>2. ConvTerms(E, m, S, k) = ConvTerms(f, t, S, k)
  BY <1>1 DEF ConvTerms
<1> QED BY <1>2 DEF Conv

\* The loop has found no more taps than there are unknown errors left in the
\* syndromes, for that many would do.
LEMMA LoopFindsNoMore ==
    ASSUME GapIsUnit, BlockSent, RegisterInv, Shortest, numerrors \in Nat, numerrors <= round,
           round \in Nat, round = MinDistance - numErasures, NEW w, TellOfUnknown(w),
           NEW t \in Nat, t = Cardinality(Support(w, N - 1)), t <= MinDistance
    PROVE  numerrors <= t
<1> SUFFICES ASSUME numerrors > t PROVE FALSE
  OBVIOUS
<1> DEFINE n == N - 1
           m == numerrors - 1
           r == round - 1
           T == syndromes
<1>0. /\ N >= 2 /\ n \in Nat /\ m \in Nat /\ r \in Nat /\ t <= m /\ m <= r /\ m <= MinDistance
      /\ r <= MinDistance - 1 /\ r = MinDistance - 1 - numErasures /\ numErasures \in Nat
      /\ MinDistance \in Nat
  <2>1. numErasures \in Nat
    BY BlockFacts
  <2> QED BY <2>1, FieldSize
<1>1. /\ Terms(w, n) /\ IsPowerSum(T, w, PlacePoints, n, r)
      /\ ArePoints(PlaceRoots, PlacePoints, n)
  BY <1>0, PlacesArePoints DEF TellOfUnknown
<1>2. PICK f : Terms(f, t) /\ f[0] = 1 /\ AllZero(f, t, T, r)
  <2>1. r \in Int /\ t = Cardinality(Support(w, n))
    BY <1>0
  <2> HIDE DEF n, r, T
  <2> QED BY <1>0, <1>1, <2>1, RegisterOfErrors
<1> DEFINE E == [i \in Coefficients |-> IF i <= t THEN f[i] ELSE 0]
<1>3. E \in Taps /\ E[0] = 1
  <2>1. \A i \in Coefficients : i <= t => f[i] \in Elements
    BY <1>0, <1>2 DEF Terms, Coefficients
  <2>2. 0 \in Coefficients /\ 0 <= t
    BY <1>0 DEF Coefficients
  <2>3. E[0] = 1
    BY <1>2, <2>2
  <2> QED BY <2>1, <2>3, ZeroInElements DEF Taps
<1>4. \A i \in 0 .. m : E[i] = IF i <= t THEN f[i] ELSE 0
  <2>1. \A i \in 0 .. m : i \in Coefficients
    BY <1>0 DEF Coefficients
  <2> QED BY <2>1
<1>5. Terms(E, m) /\ Terms(T, r)
  <2>1. \A i \in 0 .. m : i \in Coefficients
    BY <1>0 DEF Coefficients
  <2>2. Terms(E, m)
    BY <1>3, <2>1 DEF Terms, Taps
  <2>3. T \in [0 .. MinDistance - 1 -> Elements]
    BY DEF RegisterInv
  <2>4. \A i \in 0 .. r : i \in 0 .. MinDistance - 1
    BY <1>0
  <2>5. Terms(T, r)
    BY <2>3, <2>4 DEF Terms
  <2> QED BY <2>2, <2>5
<1> HIDE DEF E
<1>6. PICK k \in numerrors - 1 .. round - 1 : Output(E, syndromes, numerrors - 1, k) # 0
  BY <1>0, <1>3 DEF Shortest
<1>7. k \in m .. r /\ k \in Nat /\ k \in t .. r
  BY <1>0, <1>6
<1> HIDE DEF m, r, T
<1>8. Output(E, T, m, k) = Conv(E, m, T, k)
  BY <1>0, <1>5, <1>7, OutputIsConv
<1>9. Conv(E, m, T, k) = Conv(f, t, T, k)
  <2>1. m \in Nat /\ k \in Nat /\ t \in Nat /\ t <= m
    BY <1>0, <1>7
  <2> HIDE DEF m, T
  <2> QED BY <1>4, <2>1, ConvPadded
<1>10. Conv(f, t, T, k) = 0
  BY <1>2, <1>7 DEF AllZero
<1> QED BY <1>6, <1>8, <1>9, <1>10 DEF T, m

\* and so the locator has their inverses for its roots, and no others.
LEMMA LocatorIsOfUnknown ==
    ASSUME GapIsUnit, BlockSent, RegisterInv, Shortest, numerrors \in Nat, numerrors <= round,
           round \in Nat, round = MinDistance - numErasures, WithinBound,
           NEW w, TellOfUnknown(w)
    PROVE  /\ numerrors = Cardinality(Support(w, N - 1))
           /\ numerrors <= numUnknown
           /\ numerrors < MinDistance
           /\ \A z \in 1 .. N : ValueAt(locator.coeff, numerrors, z) = 0
                                   <=> z \in ImageOf(PlaceRoots, Support(w, N - 1))
<1> DEFINE n == N - 1
           r == round - 1
           T == syndromes
           C == locator.coeff
           L == numerrors
           t == Cardinality(Support(w, n))
<1>0. /\ N >= 2 /\ n \in Nat /\ r \in Int /\ L \in Nat /\ L <= r + 1
      /\ r <= MinDistance - 1 /\ r = MinDistance - 1 - numErasures /\ numErasures \in Nat
      /\ MinDistance \in Nat /\ MinDistance >= 1 /\ L <= MinDistance
  <2>1. numErasures \in Nat
    BY BlockFacts
  <2> QED BY <2>1, FieldSize
<1>1. /\ Terms(w, n) /\ IsPowerSum(T, w, PlacePoints, n, r)
      /\ ArePoints(PlaceRoots, PlacePoints, n)
      /\ Support(w, n) \subseteq UnknownPlaces
  BY <1>0, PlacesArePoints DEF TellOfUnknown
<1>2. t \in Nat /\ t <= numUnknown /\ numUnknown \in Nat
  <2>1. Support(w, n) \in SUBSET (0 .. n) /\ UnknownPlaces \in SUBSET (0 .. n)
        /\ Cardinality(UnknownPlaces) = numUnknown /\ numUnknown \in Nat
    BY UnknownCount DEF Support
  <2>2. IsFiniteSet(UnknownPlaces) /\ t \in Nat
    BY <1>0, <2>1, SupportFinite
  <2>3. Cardinality(Support(w, n)) <= Cardinality(UnknownPlaces)
    BY <1>1, <2>2, FS_Subset
  <2> QED BY <2>1, <2>2, <2>3
<1>3. 2 * t <= r + 1 /\ t <= MinDistance /\ t < MinDistance
  <2>1. 2 * numUnknown + numErasures <= MinDistance
    BY DEF WithinBound
  <2> HIDE DEF t
  <2> QED BY <1>0, <1>2, <2>1
<1>4. L <= t
  <2>1. t = Cardinality(Support(w, N - 1)) /\ t \in Nat /\ t <= MinDistance
    BY <1>2, <1>3
  <2> HIDE DEF t
  <2> QED BY <2>1, LoopFindsNoMore
<1>5. Terms(C, L) /\ C[0] # 0
  <2>1. C \in [Coefficients -> Elements] /\ C[0] = 1
    BY DEF RegisterInv, Taps
  <2>2. \A i \in 0 .. L : i \in Coefficients
    BY <1>0 DEF Coefficients
  <2> QED BY <2>1, <2>2 DEF Terms
<1>6. AllZero(C, L, T, r)
  <2> SUFFICES ASSUME NEW k \in L .. r PROVE Conv(C, L, T, k) = 0
    BY DEF AllZero
  <2>1. Output(C, T, L, k) = 0
    BY DEF RegisterInv
  <2>2. r \in Nat
    BY <1>0
  <2>3. Terms(T, r)
    <3>1. T \in [0 .. MinDistance - 1 -> Elements]
      BY DEF RegisterInv
    <3>2. \A i \in 0 .. r : i \in 0 .. MinDistance - 1
      BY <1>0
    <3> QED BY <3>1, <3>2 DEF Terms
  <2> HIDE DEF C, L, T, r
  <2> QED BY <1>0, <1>5, <2>1, <2>2, <2>3, OutputIsConv
<1> HIDE DEF C, L, T, r, n
<1>7. L <= Cardinality(Support(w, n)) /\ 2 * Cardinality(Support(w, n)) <= r + 1
  BY <1>3, <1>4
<1>8. /\ L = Cardinality(Support(w, n))
      /\ \A z \in 1 .. N : ValueAt(C, L, z) = 0 <=> z \in ImageOf(PlaceRoots, Support(w, n))
  BY <1>0, <1>1, <1>5, <1>6, <1>7, RegisterFindsErrors
<1>9. numerrors <= numUnknown /\ numerrors < MinDistance
  BY <1>2, <1>3, <1>8 DEF L
<1> QED BY <1>8, <1>9 DEF C, L, n

------------------------------------------------------------------------------
(* The search finds all of their places.                                   *)

\* Chien's search leaves no root out,
LEMMA FoundAreAll ==
    ASSUME locator.order \in Nat, locator.order < MinDistance, locator.coeff \in Taps,
           NEW found \in RootSets, NEW x \in 1 .. N,
           ValueAt(locator.coeff, locator.order, x) = 0
    PROVE  x \in found
<1> DEFINE n == locator.order
           f == locator.coeff
           m == MinDistance - 1
           logs == [k \in 0 .. n |-> Log[f[k]]]
           value(a) == polynomial_eval_log_lut(logs, n, element_exp[a])
<1>0. N >= 2 /\ m \in Nat /\ n \in Nat /\ n <= m /\ n # MinDistance /\ Terms(f, n)
      /\ x \in Elements /\ x # 0
  <2>1. \A k \in 0 .. n : k \in Coefficients
    BY FieldSize DEF Coefficients
  <2>2. N >= 2 /\ x \in Elements /\ x # 0
    BY FieldSize, Nonzero
  <2> QED BY <2>1, <2>2, FieldSize DEF Terms, Taps
<1>1. found = {a \in Elements : value(a) = 0}
  BY <1>0 DEF RootSets
<1>2. value(x) = ValueAt(f, n, x)
  <2>1. element_exp[x] = polynomial_build_exp_lut(x, m)
    BY <1>0 DEF element_exp
  <2>2. value(x) = IF x = 0 THEN f[0] ELSE ValueAt(f, n, x)
    <3> HIDE DEF n, f, m
    <3> QED BY <1>0, <2>1, EvalLogIsValue
  <2> QED BY <1>0, <2>2
<1> HIDE DEF value
<1> QED BY <1>0, <1>1, <1>2

\* and no root comes twice.
LEMMA PlacedApart ==
    ASSUME NEW found, found \subseteq Elements, EnoughRoots(found),
           NEW old \in [0 .. MinDistance + N - 1 -> Elements],
           numErasures \in Nat, locator.order \in Nat, FullOrder <= MinDistance,
           NEW i \in numErasures .. FullOrder - 1, NEW j \in numErasures .. FullOrder - 1,
           Placed(old, found)[i] = Placed(old, found)[j]
    PROVE  i = j
<1>1. IsFiniteSet(found) /\ found \in SUBSET Nat
  <2>1. IsFiniteSet(0 .. N)
    BY FieldSize, FS_Interval
  <2> QED BY <2>1, FS_Subset, Sizes DEF Elements
<1> DEFINE c == Cardinality(found)
           below(x) == Cardinality({y \in found : y < x})
           nth(k) == CHOOSE x \in found : below(x) = k - numErasures
<1>2. c = locator.order
  BY DEF EnoughRoots
<1>3. ASSUME NEW k \in numErasures .. FullOrder - 1 PROVE below(nth(k)) = k - numErasures
  <2>1. k - numErasures \in Nat /\ k - numErasures < c
    BY <1>2 DEF FullOrder
  <2>2. \E x \in found : below(x) = k - numErasures
    BY <2>1, <1>1, NthElement
  <2> HIDE DEF below
  <2> QED BY <2>2
<1>4. \A k \in 0 .. MinDistance + N - 1 : Placed(old, found)[k] =
        CASE k \in numErasures .. numErasures + c - 1 -> nth(k)
          [] k \in numErasures + c .. numErasures + locator.order - 1 -> 0
          [] OTHER -> old[k]
  BY DEF Placed
<1> HIDE DEF nth, below, c
<1>5. ASSUME NEW k \in numErasures .. FullOrder - 1 PROVE Placed(old, found)[k] = nth(k)
  <2>1. /\ k \in 0 .. MinDistance + N - 1
        /\ k \in numErasures .. numErasures + c - 1
        /\ k \notin numErasures + c .. numErasures + locator.order - 1
    BY <1>2, FieldSize DEF FullOrder
  <2> QED BY <1>4, <2>1
<1>6. nth(i) = nth(j)
  BY <1>5
<1>7. i - numErasures = j - numErasures
  BY <1>3, <1>6
<1> QED BY <1>7

\* Every root is that of a place under suspicion, and no place comes twice.
RootsAreSuspect ==
    /\ locator.order < MinDistance
    /\ \A j, k \in 0 .. FullOrder - 1 : roots[j] = roots[k] => j = k
    /\ \A k \in 0 .. FullOrder - 1 : \E p \in Suspects : roots[k] = PlaceRoots[p]

\* Within the bound the search finds as many roots as the locator's order, and
\* they are those of the places in error.
LEMMA SearchSucceeds ==
    ASSUME GapIsUnit, TypeInv, DecodeInv, BlockSent, WasReceived,
           numErasures # 0 => LocationsKnown, WithinBound, Factorize
    PROVE  phase' = "factorized" /\ RootsAreSuspect'
<1>1. PICK found \in RootSets :
          /\ roots' = Placed(roots, found)
          /\ IF EnoughRoots(found) THEN phase' = "factorized" ELSE phase' = "done"
  BY DEF Factorize
<1>2. /\ phase = "massey" /\ ~ InLoop
      /\ UNCHANGED <<call, encoded, locator>>
  BY DEF Factorize, encoderVars, massey
<1>3. /\ LoopInv /\ RegisterInv /\ Shortest /\ numErasures \in Nat
      /\ roots \in [0 .. MinDistance + N - 1 -> Elements]
      /\ received \in [0 .. N -> Elements] /\ erasureLocator \in [Coefficients -> Elements]
      /\ SyndromesKept /\ (numErasures # 0 => ErasuresPlaced)
  BY <1>2 DEF TypeInv, TypeOK, IInv, MasseyInv, DecodeInv
<1>4. /\ locator.order \in Nat /\ numerrors = locator.order /\ FullOrder <= MinDistance
      /\ round = MinDistance - numErasures /\ round \in Nat /\ numerrors <= round
      /\ numErasures <= MinDistance
  BY <1>2, <1>3, FieldSize DEF LoopInv, FullOrder, InLoop
<1>5. PICK w : TellOfUnknown(w)
  BY <1>3, <1>4, ErrorWeights
<1> DEFINE W == Support(w, N - 1)
           f == locator.coeff
           L == locator.order
<1>6. /\ numerrors = Cardinality(W) /\ numerrors <= numUnknown /\ numerrors < MinDistance
      /\ \A z \in 1 .. N : ValueAt(locator.coeff, numerrors, z) = 0
                              <=> z \in ImageOf(PlaceRoots, W)
  BY <1>3, <1>4, <1>5, LocatorIsOfUnknown
<1>7. /\ L = Cardinality(W) /\ L <= numUnknown /\ L < MinDistance
      /\ \A z \in 1 .. N : ValueAt(f, L, z) = 0 <=> z \in ImageOf(PlaceRoots, W)
  BY <1>4, <1>6
<1>8. /\ W \in SUBSET (0 .. N - 1) /\ W \subseteq UnknownPlaces
      /\ \A p \in W, k \in 0 .. numErasures - 1 : PlaceRoots[p] # roots[k]
  BY <1>5 DEF TellOfUnknown, Support
<1>9. ArePoints(PlaceRoots, PlacePoints, N - 1)
  BY PlacesArePoints
<1>10. ImageOf(PlaceRoots, W) \in SUBSET (1 .. N)
  BY <1>8, <1>9 DEF ImageOf, ArePoints
<1>11. /\ \A x \in found : x \in 1 .. N /\ ValueAt(f, L, x) = 0
       /\ found \subseteq Elements
       /\ \A x \in 1 .. N : ValueAt(f, L, x) = 0 => x \in found
  <2>1. locator.coeff \in Taps /\ locator.coeff[0] = 1
    BY <1>3 DEF RegisterInv
  <2> QED BY <1>4, <1>7, <2>1, FoundAreRoots, FoundAreAll
<1> HIDE DEF W, f, L
<1>12. found = ImageOf(PlaceRoots, W)
  BY <1>7, <1>10, <1>11
<1>13. EnoughRoots(found)
  <2>1. IsFiniteSet(W)
    <3>1. N - 1 \in Nat /\ W \in SUBSET (0 .. N - 1)
      BY <1>8, FieldSize
    <3> QED BY <3>1, SupportFinite
  <2>2. \A p, q \in W : PlaceRoots[p] = PlaceRoots[q] => p = q
    BY <1>8, <1>9 DEF ArePoints
  <2>3. Cardinality(ImageOf(PlaceRoots, W)) = Cardinality(W)
    BY <2>1, <2>2, ImageCount
  <2> QED BY <1>7, <1>12, <2>3 DEF EnoughRoots, L
<1>14. /\ \A k \in 0 .. numErasures - 1 : roots'[k] = roots[k]
       /\ \A k \in numErasures .. FullOrder - 1 : roots'[k] \in found
       /\ \A i, j \in numErasures .. FullOrder - 1 : roots'[i] = roots'[j] => i = j
  BY <1>1, <1>3, <1>4, <1>11, <1>13, PlacedAreFound, PlacedApart
<1>15. ASSUME NEW k \in 0 .. numErasures - 1
       PROVE  /\ ErasedPlace(k) \in 0 .. N - 1 /\ ErasedPlace(k) \in Suspects
              /\ roots'[k] = PlaceRoots[ErasedPlace(k)]
  <2>1. ErasedPlace(k) \in 0 .. N - 1
    BY ErasedPlaceIs
  <2>2. IsPlace(roots[k], ErasedPlace(k))
    <3>1. numErasures # 0
      BY <1>3
    <3>2. IsPlace(roots[k], locations[k]) /\ locations[k] = ErasedPlace(k)
      BY <1>3, <3>1 DEF ErasuresPlaced, LocationsKnown
    <3> QED BY <3>2
  <2>3. ErasedPlace(k) \in Suspects
    BY DEF Suspects, KnownPlaces
  <2> QED BY <1>14, <2>1, <2>2, <2>3, RootOfPlace
<1>16. ASSUME NEW k \in numErasures .. FullOrder - 1
       PROVE  \E p \in W : p \in Suspects /\ roots'[k] = PlaceRoots[p]
  <2>1. roots'[k] \in ImageOf(PlaceRoots, W)
    BY <1>12, <1>14
  <2> QED BY <1>8, <2>1 DEF ImageOf, Suspects
<1>17. ASSUME NEW j \in 0 .. FullOrder - 1, NEW k \in 0 .. FullOrder - 1, roots'[j] = roots'[k]
       PROVE  j = k
  <2>0. \A i \in 0 .. FullOrder - 1 : i \in 0 .. numErasures - 1 \/ i \in numErasures .. FullOrder - 1
    BY <1>3
  <2>1. CASE j \in 0 .. numErasures - 1 /\ k \in 0 .. numErasures - 1
    <3>1. ErasedPlace(j) = ErasedPlace(k)
      BY <1>9, <1>15, <1>17, <2>1 DEF ArePoints
    <3> QED BY <2>1, <3>1, ErasuresApart
  <2>2. CASE j \in 0 .. numErasures - 1 /\ k \in numErasures .. FullOrder - 1
    BY <1>8, <1>14, <1>16, <1>17, <2>2
  <2>3. CASE k \in 0 .. numErasures - 1 /\ j \in numErasures .. FullOrder - 1
    BY <1>8, <1>14, <1>16, <1>17, <2>3
  <2>4. CASE j \in numErasures .. FullOrder - 1 /\ k \in numErasures .. FullOrder - 1
    BY <1>14, <1>17, <2>4
  <2> QED BY <2>0, <2>1, <2>2, <2>3, <2>4
<1>18. ASSUME NEW k \in 0 .. FullOrder - 1 PROVE \E p \in Suspects : roots'[k] = PlaceRoots[p]
  <2>1. k \in 0 .. numErasures - 1 \/ k \in numErasures .. FullOrder - 1
    BY <1>3
  <2> QED BY <1>15, <1>16, <2>1
<1>19. /\ numErasures' = numErasures /\ FullOrder' = FullOrder /\ numUnknown' = numUnknown
       /\ Suspects' = Suspects
  BY <1>2 DEF numErasures, FullOrder, numUnknown, Suspects, UnknownPlaces, KnownPlaces, Noise,
              ErasedPlace, padLength
<1>20. RootsAreSuspect' = (
          /\ locator.order < MinDistance
          /\ \A j, k \in 0 .. FullOrder - 1 : roots'[j] = roots'[k] => j = k
          /\ \A k \in 0 .. FullOrder - 1 : \E p \in Suspects : roots'[k] = PlaceRoots[p])
  BY <1>2, <1>19 DEF RootsAreSuspect, PlaceRoots, PlacePower
<1> QED BY <1>1, <1>7, <1>13, <1>17, <1>18, <1>20 DEF L

------------------------------------------------------------------------------
(* The repair gives back the block that was sent.                          *)

\* A place that no error is found at is left as it was received.
LEMMA UnsuspectedStays ==
    ASSUME GapIsUnit, TypeInv, phase = "located", Located, BlockSent, WasReceived,
           RootsAreSuspect, NEW p \in 0 .. N - 1, p \notin Suspects
    PROVE  Folded[p] = SentPolynomial[p]
<1> DEFINE q == FullOrder
           t == [k \in 0 .. q |-> IF k = 0 THEN received[p]
                                  ELSE IF locations[k - 1] % N = p THEN vals[k - 1] ELSE 0]
<1>1. /\ received \in [0 .. N -> Elements]
      /\ vals \in [0 .. MinDistance - 1 -> Elements]
      /\ locations \in [0 .. MinDistance - 1 -> Elements]
      /\ q \in Nat /\ q <= MinDistance
  <2>1. numErasures \in Nat
    BY BlockFacts
  <2>2. locator.order \in Nat
    BY FieldSize DEF TypeInv, TypeOK, Polynomials, Coefficients
  <2> QED BY <2>1, <2>2 DEF TypeInv, TypeOK, BlockInv, FullOrder
<1>2. Folded[p] = FieldTotal(t, 0, q)
  BY <1>1, FoldedPlaces
<1>3. ASSUME NEW k \in 0 .. q, k # 0 PROVE t[k] = 0
  <2>1. k - 1 \in 0 .. FullOrder - 1
    BY <1>1, <1>3
  <2>2. PICK s \in Suspects : roots[k - 1] = PlaceRoots[s]
    BY <2>1 DEF RootsAreSuspect
  <2>3. s \in 0 .. N - 1
    BY UnknownCount
  <2>4. IsPlace(PlaceRoots[s], locations[k - 1])
    BY <2>1, <2>2 DEF Located, RootsAreSuspect
  <2>5. locations[k - 1] % N = s
    BY <2>3, <2>4, PlaceOfRoot
  <2> QED BY <1>3, <2>2, <2>5
<1>4. received[p] = SentPolynomial[p] /\ received[p] \in Elements
  <2>1. Noise[p] = 0
    BY UnknownCount DEF Support
  <2>2. SentPolynomial[p] \in Elements
    BY BlockTypes DEF Terms
  <2>3. received[p] = field_add(SentPolynomial[p], 0)
    BY <2>1 DEF WasReceived
  <2>4. field_add(SentPolynomial[p], 0) = SentPolynomial[p]
    BY <2>2, AddGroup
  <2> QED BY <2>2, <2>3, <2>4
<1>5. t[0] = received[p] /\ 0 \in 0 .. q
  BY <1>1
<1> HIDE DEF t, q
<1>6. FieldTotal(t, 0, q) = t[0]
  BY <1>1, <1>3, <1>4, <1>5, TotalSingle
<1> QED BY <1>2, <1>4, <1>5, <1>6

\* Two polynomials that vanish at the generator's roots, and differ in no more
\* places than there are roots, are one.
LEMMA CodewordsAreOne ==
    ASSUME GapIsUnit, NEW F, NEW G, Terms(F, N - 1), Terms(G, N - 1),
           \A k \in 0 .. MinDistance - 1 : ValueAt(F, N - 1, generator_roots[k]) = 0,
           \A k \in 0 .. MinDistance - 1 : ValueAt(G, N - 1, generator_roots[k]) = 0,
           NEW P \in SUBSET (0 .. N - 1), Cardinality(P) <= MinDistance,
           \A p \in 0 .. N - 1 : p \notin P => F[p] = G[p],
           NEW p \in 0 .. N - 1
    PROVE  F[p] = G[p]
<1> DEFINE n == N - 1
           D == [i \in 0 .. n |-> field_add(F[i], field_mul(1, G[i]))]
<1>0. N >= 2 /\ n \in Nat /\ 1 \in Elements /\ 0 \in Elements
  BY FieldSize, ZeroInElements
<1>1. ASSUME NEW i \in 0 .. n
      PROVE  /\ D[i] = field_add(F[i], field_mul(1, G[i]))
             /\ D[i] = field_add(F[i], G[i]) /\ F[i] \in Elements /\ G[i] \in Elements
  <2>1. F[i] \in Elements /\ G[i] \in Elements
    BY DEF Terms
  <2>2. field_mul(1, G[i]) = G[i]
    BY <1>0, <2>1, MulMonoid
  <2> QED BY <2>1, <2>2
<1> HIDE DEF D
<1>2. ASSUME NEW k \in 0 .. MinDistance - 1 PROVE ValueAt(D, n, generator_roots[k]) = 0
  <2> DEFINE a == generator_roots[k]
  <2>1. a \in 1 .. N
    BY GeneratorVanishes
  <2>2. ValueAt(F, n, a) = 0 /\ ValueAt(G, n, a) = 0
    OBVIOUS
  <2>3. Terms(F, n) /\ Terms(G, n)
    OBVIOUS
  <2>4. \A i \in 0 .. n : D[i] = field_add(F[i], field_mul(1, G[i]))
    BY <1>1
  <2> HIDE DEF a, n
  <2>5. ValueAt(D, n, a) = field_add(ValueAt(F, n, a), field_mul(1, ValueAt(G, n, a)))
    BY <1>0, <2>1, <2>3, <2>4, ValueAdds
  <2>6. field_mul(1, 0) = 0 /\ field_add(0, 0) = 0
    BY <1>0, MulMonoid, AddGroup
  <2> QED BY <2>2, <2>5, <2>6 DEF a
<1>3. Terms(D, n)
  BY <1>1, AddGroup DEF Terms
<1>4. Support(D, n) \subseteq P
  <2> SUFFICES ASSUME NEW i \in 0 .. n, i \notin P PROVE D[i] = 0
    BY DEF Support
  <2>1. F[i] = G[i] /\ F[i] \in Elements /\ D[i] = field_add(F[i], G[i])
    BY <1>1
  <2> QED BY <2>1, AddGroup
<1>5. Support(D, n) = {}
  BY <1>2, <1>3, <1>4, CodewordsDiffer
<1>6. D[p] = 0
  BY <1>5 DEF Support
<1>7. D[p] = field_add(F[p], G[p]) /\ F[p] \in Elements /\ G[p] \in Elements
  BY <1>1
<1> QED BY <1>6, <1>7, Cancel

\* Within the bound the repaired block is the one that was sent.
LEMMA RepairIsSent ==
    ASSUME GapIsUnit, TypeInv, DecodeInv, phase = "located", BlockSent, WasReceived,
           WithinBound, RootsAreSuspect, NEW p \in 0 .. N - 1
    PROVE  Folded[p] = SentPolynomial[p]
<1> DEFINE n == N - 1
<1>0. N >= 2 /\ N \in Nat /\ n \in Nat /\ MinDistance \in Nat
  BY FieldSize
<1>1. Located
  BY DEF DecodeInv
<1>2. Terms(SentPolynomial, n) /\ \A k \in 0 .. MinDistance - 1 : ValueAt(SentPolynomial, n, generator_roots[k]) = 0
  BY BlockTypes
<1>3. ASSUME NEW k \in 0 .. MinDistance - 1 PROVE ValueAt(Folded, n, generator_roots[k]) = 0
  <2>1. IsCodeword(Folded)
    BY DecodeInvMeans DEF SuccessIsCodeword, RootsAreSuspect
  <2>2. Value(Folded, generator_roots[k]) = 0
    BY <2>1 DEF IsCodeword
  <2> QED BY <2>2 DEF Value, ValueAt, Powers
<1>4. Terms(Folded, n)
  <2> SUFFICES ASSUME NEW i \in 0 .. n PROVE Folded[i] \in Elements
    BY DEF Terms
  <2> DEFINE q == FullOrder
             t == [k \in 0 .. q |-> IF k = 0 THEN received[i]
                                    ELSE IF locations[k - 1] % N = i THEN vals[k - 1] ELSE 0]
  <2>1. /\ received \in [0 .. N -> Elements]
        /\ vals \in [0 .. MinDistance - 1 -> Elements]
        /\ locations \in [0 .. MinDistance - 1 -> Elements]
        /\ q \in Nat /\ q <= MinDistance
    <3>1. numErasures \in Nat
      BY BlockFacts
    <3>2. locator.order \in Nat
      BY FieldSize DEF TypeInv, TypeOK, Polynomials, Coefficients
    <3>3. q = locator.order + numErasures
      BY DEF FullOrder
    <3>4. q <= MinDistance
      BY DEF TypeInv, BlockInv
    <3> HIDE DEF q
    <3>5. q \in Nat
      BY <3>1, <3>2, <3>3
    <3> QED BY <3>4, <3>5 DEF TypeInv, TypeOK
  <2>2. Folded[i] = FieldTotal(t, 0, q)
    BY <2>1, FoldedPlaces
  <2>3. Terms(t, q)
    <3> SUFFICES ASSUME NEW k \in 0 .. q PROVE t[k] \in Elements
      BY DEF Terms
    <3>0. i \in 0 .. N
      BY <1>0
    <3>1. received[i] \in Elements
      BY <2>1, <3>0
    <3>2. k # 0 => vals[k - 1] \in Elements
      <4>1. k # 0 => k - 1 \in 0 .. MinDistance - 1
        BY <1>0, <2>1
      <4> QED BY <2>1, <4>1
    <3> QED BY <3>1, <3>2, ZeroInElements
  <2> HIDE DEF t, q
  <2>4. 0 \in 0 .. q
    BY <2>1
  <2>5. FieldTotal(t, 0, q) \in Elements
    BY <2>1, <2>3, <2>4, TotalType
  <2> QED BY <2>2, <2>5
<1>5. Suspects \in SUBSET (0 .. n) /\ Cardinality(Suspects) <= MinDistance
  <2>1. /\ Cardinality(Suspects) \in Nat /\ numUnknown \in Nat
        /\ Cardinality(Suspects) <= numUnknown + numErasures
        /\ Suspects \in SUBSET (0 .. n)
    BY UnknownCount
  <2>2. numErasures \in Nat
    BY BlockFacts
  <2> QED BY <1>0, <2>1, <2>2 DEF WithinBound
<1>6. \A i \in 0 .. n : i \notin Suspects => Folded[i] = SentPolynomial[i]
  BY <1>1, UnsuspectedStays
<1> DEFINE F == Folded
           G == SentPolynomial
           P == Suspects
<1>7. /\ Terms(F, n) /\ Terms(G, n)
      /\ \A k \in 0 .. MinDistance - 1 : ValueAt(F, n, generator_roots[k]) = 0
      /\ \A k \in 0 .. MinDistance - 1 : ValueAt(G, n, generator_roots[k]) = 0
      /\ P \in SUBSET (0 .. n) /\ Cardinality(P) <= MinDistance
      /\ \A i \in 0 .. n : i \notin P => F[i] = G[i]
  BY <1>2, <1>3, <1>4, <1>5, <1>6
<1> HIDE DEF F, G, P
<1>8. F[p] = G[p]
  BY <1>7, CodewordsAreOne
<1> QED BY <1>8 DEF F, G

\* The message is copied out of the places above the parity.
LEMMA PayloadIsMessage ==
    ASSUME BlockSent, NEW poly, \A p \in 1 .. N - 1 : poly[p] = SentPolynomial[p]
    PROVE  Payload(poly) = call.message
<1> DEFINE l == Len(encoded)
           m == call.message
<1>1. /\ l \in MinDistance .. N /\ l = Len(m) + MinDistance /\ Len(m) \in Nat
      /\ \A k \in 1 .. Len(m) : encoded[k] = m[k]
      /\ m \in Seq(Elements)
      /\ \A p \in 0 .. N - 1 : p < l => SentPolynomial[p] = encoded[l - p]
  BY BlockFacts, BlockTypes
<1>2. MinDistance >= 1 /\ MinDistance \in Nat /\ N \in Nat
  BY FieldSize, CodeAssumption
<1>3. msgLength = Len(m)
  BY <1>1, <1>2 DEF msgLength
<1>4. ASSUME NEW k \in 1 .. Len(m) PROVE poly[l - k] = m[k]
  <2>1. l - k \in 1 .. N - 1 /\ l - k \in 0 .. N - 1 /\ l - k < l /\ l - (l - k) = k
    BY <1>1, <1>2
  <2> QED BY <1>1, <2>1
<1>5. Payload(poly) = [k \in 1 .. Len(m) |-> m[k]]
  BY <1>3, <1>4 DEF Payload
<1> HIDE DEF m
<1>6. m = [k \in 1 .. Len(m) |-> m[k]]
  BY <1>1
<1> QED BY <1>5, <1>6 DEF m

------------------------------------------------------------------------------
(* Stage by stage, within the bound.                                       *)

\* What a decode keeps of a block within the bound, stage by stage.
CorrectInv ==
    /\ phase \in {"encoded", "received", "massey", "factorized", "located"} => BlockSent
    /\ phase \in {"received", "massey", "factorized", "located"} => WasReceived
    /\ (phase \in {"received", "massey"} /\ numErasures # 0) => LocationsKnown
    /\ (phase \in {"factorized", "located"} /\ WithinBound) => RootsAreSuspect
    /\ CorrectsWithinBound

\* It holds before the first block.
LEMMA CorrectInit == Init => CorrectInv
  BY DEF Init, CorrectInv, CorrectsWithinBound

\* All of this is about the block alone, and stays with it.
LEMMA BlockKept ==
    ASSUME UNCHANGED <<call, encoded>>
    PROVE  /\ BlockSent' = BlockSent /\ WithinBound' = WithinBound
           /\ numErasures' = numErasures /\ numUnknown' = numUnknown
           /\ SentPolynomial' = SentPolynomial /\ Noise' = Noise /\ Suspects' = Suspects
           /\ \A k : ErasedPlace(k)' = ErasedPlace(k)
<1>1. numErasures' = numErasures /\ numUnknown' = numUnknown
  BY DEF numErasures, numUnknown
<1>2. SentPolynomial' = SentPolynomial /\ Noise' = Noise
  BY DEF SentPolynomial, Noise, BlockPolynomial
<1>3. \A k : ErasedPlace(k)' = ErasedPlace(k)
  BY DEF ErasedPlace, padLength
<1>4. Suspects' = Suspects
  BY <1>1 DEF Suspects, UnknownPlaces, KnownPlaces, Noise, ErasedPlace, padLength
<1>5. BlockSent' = BlockSent
  BY DEF BlockSent, IsSent, IsTransmission
<1> QED BY <1>1, <1>2, <1>3, <1>4, <1>5 DEF WithinBound

\* What the array and the places tell stays with them, too.
LEMMA ReceptionKept ==
    ASSUME UNCHANGED <<call, encoded, received>>
    PROVE  /\ WasReceived' = WasReceived
           /\ locations' = locations => LocationsKnown' = LocationsKnown
           /\ UNCHANGED <<locator, roots>> => RootsAreSuspect' = RootsAreSuspect
<1>1. WasReceived' = WasReceived
  BY BlockKept DEF WasReceived
<1>2. locations' = locations => LocationsKnown' = LocationsKnown
  BY BlockKept DEF LocationsKnown
<1>3. ASSUME UNCHANGED <<locator, roots>> PROVE RootsAreSuspect' = RootsAreSuspect
  <2>1. FullOrder' = FullOrder
    BY <1>3, BlockKept DEF FullOrder
  <2>2. RootsAreSuspect' = (
          /\ locator.order < MinDistance
          /\ \A j, k \in 0 .. FullOrder - 1 : roots[j] = roots[k] => j = k
          /\ \A k \in 0 .. FullOrder - 1 : \E p \in Suspects : roots[k] = PlaceRoots[p])
    BY <1>3, <2>1, BlockKept DEF RootsAreSuspect, PlaceRoots, PlacePower
  <2> QED BY <2>2 DEF RootsAreSuspect
<1> QED BY <1>1, <1>2, <1>3

\* A block is encoded, or refused (rs_encode.c:3-34).
LEMMA CorrectEncode ==
    ASSUME NEW t, IsSent(t), Encode(t) \/ EncodeTooLong(t)
    PROVE  CorrectInv'
<1>1. CASE Encode(t)
  <2>1. /\ phase' = "encoded" /\ call' = t /\ Len(t.message) <= message_length
        /\ encoded' = Encoded(t.message)
    BY <1>1 DEF Encode
  <2>2. IsSent(call')
    BY <2>1
  <2>3. BlockSent'
    BY <2>1, <2>2 DEF BlockSent, IsSent, IsTransmission
  <2> QED BY <2>1, <2>3 DEF CorrectInv, CorrectsWithinBound
<1>2. CASE EncodeTooLong(t)
  <2>1. phase' = "done" /\ returned' = -1
    BY <1>2 DEF EncodeTooLong
  <2> QED BY <2>1 DEF CorrectInv, CorrectsWithinBound
<1> QED BY <1>1, <1>2

\* More erasures than parity are beyond the bound (rs_decode.c:490-492).
LEMMA CorrectTooMany ==
    ASSUME CorrectInv, TooManyErasures
    PROVE  CorrectInv'
<1>1. /\ phase = "encoded" /\ numErasures > MinDistance /\ phase' = "done"
      /\ UNCHANGED <<call, encoded>>
  BY DEF TooManyErasures, encoderVars
<1>2. numErasures \in Nat /\ numUnknown \in Nat /\ MinDistance \in Nat
  BY <1>1, BlockFacts, UnknownCount, FieldSize DEF CorrectInv
<1>3. numErasures' = numErasures /\ numUnknown' = numUnknown
  BY <1>1, BlockKept
<1>4. ~ (2 * numUnknown' + numErasures' <= MinDistance)
  BY <1>1, <1>2, <1>3
<1> QED BY <1>1, <1>4 DEF CorrectInv, CorrectsWithinBound

\* The block is turned around, and its erasures become places
\* (rs_decode.c:417-424, 494-562).
LEMMA CorrectReceive ==
    ASSUME TypeInv, CorrectInv, Receive
    PROVE  CorrectInv'
<1>1. /\ phase = "encoded" /\ phase' = "received" /\ numErasures <= MinDistance
      /\ UNCHANGED <<call, encoded>>
      /\ received' =
           [p \in 0 .. N |->
              CASE p < Len(encoded) -> field_add(encoded[Len(encoded) - p],
                                                 call.noise[Len(encoded) - p])
                [] p >= Len(encoded) /\ p < N -> 0
                [] p = N -> received[p]]
      /\ numErasures # 0 => locations' = ErasureLocations(locations)
  BY DEF Receive, encoderVars
<1>2. BlockSent /\ Len(encoded) \in 0 .. N /\ numErasures \in Nat /\ N \in Nat
  BY <1>1, BlockFacts, FieldSize DEF CorrectInv
<1>3. ASSUME NEW p \in 0 .. N - 1 PROVE received'[p] = field_add(SentPolynomial[p], Noise[p])
  <2> DEFINE l == Len(encoded)
  <2>0. p \in 0 .. N /\ p \in Nat /\ p < N /\ l \in Nat
    BY <1>2
  <2>1. CASE p < l
    <3>1. received'[p] = field_add(encoded[l - p], call.noise[l - p])
      BY <1>1, <2>0, <2>1
    <3>2. SentPolynomial[p] = encoded[l - p] /\ Noise[p] = call.noise[l - p]
      BY <2>1 DEF SentPolynomial, BlockPolynomial, Noise
    <3> QED BY <3>1, <3>2
  <2>2. CASE ~ (p < l)
    <3>1. p >= l /\ p # N
      BY <2>0, <2>2
    <3>2. received'[p] = 0
      BY <1>1, <2>0, <2>2, <3>1
    <3>3. SentPolynomial[p] = 0 /\ Noise[p] = 0
      BY <2>2 DEF SentPolynomial, BlockPolynomial, Noise
    <3>4. field_add(0, 0) = 0
      BY AddGroup, ZeroInElements
    <3> QED BY <3>2, <3>3, <3>4
  <2> QED BY <2>1, <2>2
<1>4. WasReceived'
  BY <1>1, <1>3, BlockKept DEF WasReceived
<1>5. ASSUME numErasures' # 0, NEW k \in 0 .. numErasures' - 1
      PROVE  locations'[k] = ErasedPlace(k)'
  <2>1. numErasures' = numErasures /\ ErasedPlace(k)' = ErasedPlace(k)
    BY <1>1, BlockKept
  <2>2. k \in 0 .. MinDistance - 1 /\ k < numErasures
    BY <1>1, <1>2, <2>1, FieldSize
  <2>3. locations' = ErasureLocations(locations)
    BY <1>1, <1>5, <2>1
  <2>4. locations'[k] = ErasedPlace(k)
    BY <2>2, <2>3 DEF ErasureLocations, ErasedPlace
  <2> QED BY <2>1, <2>4
<1>6. numErasures' # 0 => LocationsKnown'
  BY <1>5 DEF LocationsKnown
<1>7. BlockSent'
  BY <1>1, <1>2, BlockKept
<1> QED BY <1>1, <1>4, <1>6, <1>7 DEF CorrectInv, CorrectsWithinBound

\* Within the bound, syndromes that are all zero mean that there is no noise,
\* not that it is one the code cannot see (rs_decode.c:439-446, 566-572).
LEMMA CorrectNoErrors ==
    ASSUME GapIsUnit, TypeInv, CorrectInv, NoErrors
    PROVE  CorrectInv'
<1>1. /\ phase = "received" /\ phase' = "done"
      /\ \A k \in 0 .. MinDistance - 1 : Syndromes(received)[k] = 0
      /\ msg' = Payload(received)
      /\ status' = IF numErasures = 0 THEN 0 ELSE msgLength
      /\ UNCHANGED <<call, encoded>>
  BY DEF NoErrors, encoderVars
<1>2. BlockSent /\ WasReceived /\ received \in [0 .. N -> Elements] /\ MinDistance \in Nat
  BY <1>1, FieldSize DEF CorrectInv, TypeInv, TypeOK
<1>3. ASSUME WithinBound PROVE Support(Noise, N - 1) = {}
  <2> DEFINE D == Noise
             P == Suspects
  <2>1. Terms(D, N - 1)
    BY <1>2, BlockTypes
  <2>2. \A k \in 0 .. MinDistance - 1 : ValueAt(D, N - 1, generator_roots[k]) = 0
    BY <1>1, <1>2, NoiseSyndromes DEF AreSyndromes
  <2>3. /\ P \in SUBSET (0 .. N - 1) /\ Support(D, N - 1) \subseteq P
        /\ Cardinality(P) \in Nat /\ numUnknown \in Nat
        /\ Cardinality(P) <= numUnknown + numErasures
    BY <1>2, UnknownCount
  <2>4. numErasures \in Nat
    BY <1>2, BlockFacts
  <2> HIDE DEF D, P
  <2>5. Cardinality(P) <= MinDistance
    BY <1>2, <1>3, <2>3, <2>4 DEF WithinBound
  <2>6. Support(D, N - 1) = {}
    BY <2>1, <2>2, <2>3, <2>5, CodewordsDiffer
  <2> QED BY <2>6 DEF D
<1>4. ASSUME WithinBound PROVE msg' = call.message
  <2>1. ASSUME NEW p \in 1 .. N - 1 PROVE received[p] = SentPolynomial[p]
    <3>0. p \in 0 .. N - 1
      OBVIOUS
    <3>1. Noise[p] = 0
      BY <1>3, <1>4, <3>0 DEF Support
    <3>2. SentPolynomial[p] \in Elements
      BY <1>2, <3>0, BlockTypes DEF Terms
    <3>3. received[p] = field_add(SentPolynomial[p], 0)
      BY <1>2, <3>0, <3>1 DEF WasReceived
    <3> QED BY <3>2, <3>3, AddGroup
  <2>2. Payload(received) = call.message
    BY <1>2, <2>1, PayloadIsMessage
  <2> QED BY <1>1, <2>2
<1>5. status' # -1
  BY <1>1, <1>2, BlockFacts DEF msgLength
<1>7. /\ call' = call /\ numErasures' = numErasures /\ numUnknown' = numUnknown
      /\ WithinBound' = WithinBound
  BY <1>1, BlockKept
<1>8. CorrectsWithinBound'
  BY <1>4, <1>5, <1>7 DEF CorrectsWithinBound, WithinBound
<1> QED BY <1>1, <1>8 DEF CorrectInv

\* The loop touches neither the block nor its erasures.
LEMMA CorrectLoop ==
    ASSUME CorrectInv, FindSyndromes \/ NoDiscrepancy \/ Lengthen \/ Adjust
    PROVE  CorrectInv'
<1>1. /\ phase \in {"received", "massey"} /\ phase' = "massey"
      /\ UNCHANGED <<call, encoded, received, locations>>
  BY DEF FindSyndromes, NoDiscrepancy, Lengthen, Adjust, InLoop, UNCHANGEDbutMassey,
         encoderVars, places
<1>2. /\ BlockSent' = BlockSent /\ WasReceived' = WasReceived
      /\ LocationsKnown' = LocationsKnown /\ numErasures' = numErasures
  BY <1>1, BlockKept, ReceptionKept
<1> QED BY <1>1, <1>2 DEF CorrectInv, CorrectsWithinBound

\* The search finds every root, or the block is beyond the bound
\* (rs_decode.c:137-167).
LEMMA CorrectFactorize ==
    ASSUME GapIsUnit, TypeInv, DecodeInv, CorrectInv, Factorize
    PROVE  CorrectInv'
<1>1. /\ phase = "massey" /\ phase' \in {"factorized", "done"}
      /\ UNCHANGED <<call, encoded, received>>
  BY DEF Factorize, encoderVars
<1>2. BlockSent /\ WasReceived /\ (numErasures # 0 => LocationsKnown)
  BY <1>1 DEF CorrectInv
<1>3. WithinBound => phase' = "factorized" /\ RootsAreSuspect'
  BY <1>2, SearchSucceeds
<1>4. BlockSent' /\ WasReceived' /\ WithinBound' = WithinBound
  BY <1>1, <1>2, BlockKept, ReceptionKept
<1>5. CorrectsWithinBound'
  BY <1>1, <1>3, <1>4 DEF CorrectsWithinBound, WithinBound
<1> QED BY <1>1, <1>3, <1>4, <1>5 DEF CorrectInv

\* The places are looked up, the roots and the block stay.
LEMMA CorrectLocate ==
    ASSUME CorrectInv, Locate
    PROVE  CorrectInv'
<1>1. /\ phase = "factorized" /\ phase' = "located"
      /\ UNCHANGED <<call, encoded, received, locator, roots>>
  BY DEF Locate, encoderVars, massey
<1>2. /\ BlockSent' = BlockSent /\ WasReceived' = WasReceived
      /\ WithinBound' = WithinBound /\ RootsAreSuspect' = RootsAreSuspect
  BY <1>1, BlockKept, ReceptionKept
<1> QED BY <1>1, <1>2 DEF CorrectInv, CorrectsWithinBound

\* The repair undoes the noise (rs_decode.c:471-480, 599-613).
LEMMA CorrectCorrect ==
    ASSUME GapIsUnit, TypeInv, DecodeInv, CorrectInv, Correct
    PROVE  CorrectInv'
<1>1. /\ phase = "located" /\ phase' = "done"
      /\ msg' = Payload(Repaired)
      /\ status' = IF numErasures = 0 THEN FullOrder ELSE msgLength
      /\ UNCHANGED <<call, encoded>>
  BY DEF Correct, encoderVars
<1>2. BlockSent /\ WasReceived /\ (WithinBound => RootsAreSuspect)
  BY <1>1 DEF CorrectInv
<1>3. ASSUME WithinBound PROVE Payload(Repaired) = call.message
  <2> DEFINE R == Repaired
  <2>1. ASSUME NEW p \in 1 .. N - 1 PROVE R[p] = SentPolynomial[p]
    <3>1. p \in 0 .. N - 1 /\ p # 0
      OBVIOUS
    <3>2. Folded[p] = SentPolynomial[p]
      BY <1>1, <1>2, <1>3, <3>1, RepairIsSent
    <3>3. Folded[p] = R[p]
      BY <3>1 DEF Folded
    <3> QED BY <3>2, <3>3
  <2> HIDE DEF R
  <2>2. Payload(R) = call.message
    BY <1>2, <2>1, PayloadIsMessage
  <2> QED BY <2>2 DEF R
<1>4. FullOrder \in Nat
  <2>1. locator.order \in Nat
    BY FieldSize DEF TypeInv, TypeOK, Polynomials, Coefficients
  <2> QED BY <2>1, <1>2, BlockFacts DEF FullOrder
<1>5. msgLength = Len(call.message)
  BY <1>2, BlockFacts, FieldSize DEF msgLength
<1>6. /\ call' = call /\ numErasures' = numErasures /\ numUnknown' = numUnknown
      /\ WithinBound' = WithinBound
  BY <1>1, BlockKept
<1>7. CorrectsWithinBound'
  BY <1>1, <1>3, <1>4, <1>5, <1>6 DEF CorrectsWithinBound, WithinBound
<1> QED BY <1>1, <1>7 DEF CorrectInv

\* A step that changes nothing keeps all of it,
LEMMA CorrectUnchanged ==
    ASSUME CorrectInv, UNCHANGED vars
    PROVE  CorrectInv'
<1>1. UNCHANGED <<phase, call, encoded, returned, received, locator, roots, locations, msg, status>>
  BY DEF vars, encoderVars, massey, places, results
<1>2. /\ BlockSent' = BlockSent /\ WasReceived' = WasReceived
      /\ LocationsKnown' = LocationsKnown
      /\ WithinBound' = WithinBound /\ RootsAreSuspect' = RootsAreSuspect
      /\ numErasures' = numErasures /\ numUnknown' = numUnknown
  BY <1>1, BlockKept, ReceptionKept
<1>3. CorrectsWithinBound' = CorrectsWithinBound
  BY <1>1, <1>2 DEF CorrectsWithinBound
<1> QED BY <1>1, <1>2, <1>3 DEF CorrectInv

\* and so does every step of a decode.
LEMMA CorrectDecode ==
    ASSUME GapIsUnit, TypeInv, DecodeInv, CorrectInv, DecodeStep
    PROVE  CorrectInv'
  BY CorrectTooMany, CorrectReceive, CorrectNoErrors, CorrectLoop, CorrectFactorize,
     CorrectLocate, CorrectCorrect DEF DecodeStep

\* Callers of the library erase bytes of the block, each once,
LEMMA TransmissionSent == \A t \in Transmissions : IsSent(t)
<1> SUFFICES ASSUME NEW t \in Transmissions PROVE IsSent(t)
  OBVIOUS
<1> DEFINE len == Len(t.message) + MinDistance
           e == t.erased
<1>1. IsTransmission(t)
  BY TransmissionTypes
<1>2. /\ e \in Seq(0 .. len - 1)
      /\ \A j, k \in 1 .. Len(e) : e[j] = e[k] => j = k
  BY TransmissionsAssumption
<1>3. Len(t.message) \in Nat /\ N \in Nat /\ MinDistance \in Nat /\ len \in Nat
  BY <1>1, FieldSize DEF IsTransmission, TransmissionRecords
<1>4. ASSUME Len(t.message) <= message_length, NEW k \in 1 .. Len(e)
      PROVE  e[k] \in 0 .. N /\ e[k] # len
  <2>1. e[k] \in 0 .. len - 1
    <3> DEFINE S == 0 .. len - 1
    <3>1. e \in Seq(S)
      BY <1>2
    <3> HIDE DEF e, S
    <3>2. e[k] \in S
      BY <3>1
    <3> QED BY <3>2 DEF S
  <2>2. len <= N
    BY <1>3, <1>4 DEF message_length
  <2> HIDE DEF len, e
  <2> QED BY <1>3, <2>1, <2>2
<1> QED BY <1>1, <1>2, <1>4 DEF IsSent

\* callers of the shim places of the full block, each once: as indices they
\* wrap around, but never to the one behind the block (fec_shim.c:79-87).
LEMMA ShimTransmissionSent ==
    ASSUME pad \in Pads, NEW t \in ShimTransmissions[pad]
    PROVE  IsSent(ForLibrary(t))
<1> DEFINE e == t.erased
           f == ForLibrary(t).erased
<1>1. /\ t \in TransmissionRecords
      /\ t.message \in [1 .. N - pad - MinDistance -> Elements]
      /\ e \in Seq(0 .. N - 1)
      /\ \A j, k \in 1 .. Len(e) : e[j] = e[k] => j = k
      /\ pad \in 0 .. N - MinDistance
  BY ShimAssumption
<1>2. N \in Nat /\ N >= 2 /\ MinDistance \in Nat /\ MinDistance <= N - 1 /\ 2^Width = N + 1
  BY FieldSize, Sizes
<1>3. /\ ForLibrary(t).message = t.message
      /\ f = [k \in 1 .. Len(e) |-> IndexOf(e[k])]
  <2>1. DOMAIN t.erased = 1 .. Len(e)
    BY <1>1
  <2> QED BY <1>1, <2>1 DEF ForLibrary, TransmissionRecords
<1>4. Len(e) \in Nat
  BY <1>1
<1>5. Len(f) = Len(e)
  <2> HIDE DEF f
  <2> QED BY <1>3, <1>4
<1>6. Len(ForLibrary(t).message) + MinDistance = N - pad
  <2>1. N - pad - MinDistance \in Nat
    BY <1>1, <1>2
  <2>2. Len(t.message) = N - pad - MinDistance
    BY <1>1, <2>1
  <2> QED BY <1>1, <1>2, <1>3, <2>2
<1>7. ASSUME NEW k \in 1 .. Len(e)
      PROVE  /\ e[k] \in 0 .. N - 1
             /\ f[k] = IF e[k] < pad THEN N + 1 + e[k] - pad ELSE e[k] - pad
  <2> DEFINE a == e[k]
             d == a - pad
             m == N + 1
  <2>1. a \in 0 .. N - 1
    <3> DEFINE S == 0 .. N - 1
    <3>1. e \in Seq(S)
      BY <1>1
    <3> HIDE DEF e, S
    <3>2. e[k] \in S
      BY <3>1
    <3> QED BY <3>2 DEF S
  <2>2. f[k] = d % m
    BY <1>2, <1>3 DEF IndexOf
  <2> HIDE DEF a, f
  <2>3. d \in Int /\ m \in Nat \ {0} /\ pad \in Nat /\ pad <= N
    BY <1>1, <1>2, <2>1
  <2>4. CASE a < pad
    <3> DEFINE b == N + 1 + a - pad
    <3>1. b \in 0 .. m - 1 /\ d = m * (-1) + b /\ -1 \in Int
      BY <1>2, <2>1, <2>3, <2>4
    <3> HIDE DEF b, d, m
    <3>2. d % m = b
      BY <2>3, <3>1, DivisionUnique
    <3> QED BY <2>1, <2>2, <2>4, <3>2 DEF a, b
  <2>5. CASE ~ (a < pad)
    <3>1. d \in 0 .. m - 1 /\ d = m * 0 + d /\ 0 \in Int
      BY <1>2, <2>1, <2>3, <2>5
    <3>2. d % m = d
      <4> HIDE DEF d, m
      <4> QED BY <2>3, <3>1, DivisionUnique
    <3> QED BY <2>1, <2>2, <2>5, <3>2 DEF a
  <2> QED BY <2>4, <2>5
<1> HIDE DEF e, f
<1> DEFINE index(a) == IF a < pad THEN N + 1 + a - pad ELSE a - pad
<1>8a. \A k \in 1 .. Len(e) : e[k] \in 0 .. N - 1 /\ f[k] = index(e[k])
  BY <1>7
<1>8b. pad \in 0 .. N /\ N \in Nat
  BY <1>1, <1>2
<1> HIDE DEF index
<1>8c. \A d \in 0 .. N - 1 : /\ index(d) \in 0 .. N /\ index(d) # N - pad
                              /\ \A x \in 0 .. N - 1 : index(d) = index(x) => d = x
  BY <1>8b, IndexApart DEF index
<1>8. ASSUME NEW k \in 1 .. Len(e) PROVE f[k] \in 0 .. N /\ f[k] # N - pad
  BY <1>8a, <1>8c
<1>9. ASSUME NEW j \in 1 .. Len(e), NEW k \in 1 .. Len(e), f[j] = f[k] PROVE j = k
  <2>1. e[j] = e[k]
    BY <1>8a, <1>8c, <1>9
  <2> QED BY <1>1, <2>1 DEF e
<1>10. IsTransmission(ForLibrary(t))
  BY ShimTransmissionTypes
<1> QED BY <1>5, <1>6, <1>8, <1>9, <1>10 DEF IsSent, f

\* The steps of a codec keep it
LEMMA CorrectNext ==
    ASSUME GapIsUnit, TypeInv, DecodeInv, CorrectInv, [Next]_vars
    PROVE  CorrectInv'
<1>1. ASSUME NEW t \in Pending, Encode(t) \/ EncodeTooLong(t) PROVE CorrectInv'
  <2>1. t \in Transmissions
    BY TransmissionsAssumption DEF Pending
  <2> QED BY <1>1, <2>1, TransmissionSent, CorrectEncode
<1> QED BY <1>1, CorrectDecode, CorrectUnchanged DEF Next, Rest

\* and those of libfec's interface.
LEMMA CorrectShimNext ==
    ASSUME GapIsUnit, PadInv, TypeInv, DecodeInv, CorrectInv, [ShimNext]_shimVars
    PROVE  CorrectInv'
<1>1. ASSUME ThroughShim, NEW t \in ShimTransmissions[pad], EncodeRsChar(t) PROVE CorrectInv'
  <2>1. pad \in Pads
    BY <1>1 DEF PadInv, ThroughShim
  <2>2. IsSent(ForLibrary(t))
    BY <2>1, ShimTransmissionSent
  <2> QED BY <1>1, <2>2, CorrectEncode DEF EncodeRsChar
<1>2. CASE Next
  BY <1>2, CorrectNext
<1>3. CASE ShimRest \/ UNCHANGED shimVars
  BY <1>3, CorrectUnchanged DEF ShimRest, shimVars
<1>4. CASE DecodeRsChar
  BY <1>4, CorrectDecode DEF DecodeRsChar
<1> QED BY <1>1, <1>2, <1>3, <1>4 DEF ShimNext

\* With e erasures and t errors more that the decoder is not told of, the
\* message comes back whenever 2 t + e is within the parity, for every code,
\* every message and every noise, whatever an earlier decode has left in the
\* arrays (rs_decode.c:396-614).
THEOREM DecodesWithinBound ==
    ASSUME GapIsUnit
    PROVE  Spec => []CorrectsWithinBound
<1>1. TypeInv /\ DecodeInv /\ CorrectInv /\ [Next]_vars => (TypeInv /\ DecodeInv /\ CorrectInv)'
  BY TypeNext, DecodeInvNext, CorrectNext
<1>2. Init => TypeInv /\ DecodeInv /\ CorrectInv
  BY TypeInit, DecodeInvInit, CorrectInit
<1>3. CorrectInv => CorrectsWithinBound
  BY DEF CorrectInv
<1> QED BY <1>1, <1>2, <1>3, PTL DEF Spec

\* So it does for blocks that come through libfec's interface (fec_shim.c:79-87).
THEOREM DecodesWithinBoundThroughShim ==
    ASSUME GapIsUnit
    PROVE  ShimSpec => []CorrectsWithinBound
<1>1. PadInv /\ TypeInv /\ DecodeInv /\ CorrectInv /\ [ShimNext]_shimVars
        => (TypeInv /\ DecodeInv /\ CorrectInv)'
  BY TypeShimNext, DecodeInvShimNext, CorrectShimNext
<1>2. ShimInit => PadInv /\ TypeInv /\ DecodeInv /\ CorrectInv
  BY ShimTypeInit, DecodeInvInit, CorrectInit DEF ShimInit
<1>3. CorrectInv => CorrectsWithinBound
  BY DEF CorrectInv
<1> QED BY <1>1, <1>2, <1>3, PadKept, PTL DEF ShimSpec

------------------------------------------------------------------------------
(* The shim's caller finds the message in its block.                       *)

\* What the channel made of the block of the shim's caller.
ChangedBlock == [k \in 1 .. Len(encoded) |-> field_add(encoded[k], call.noise[k])]

\* The block is as long as the shim's padding leaves room for, and the library's
\* erasures are those of the caller.
PlacesGiven ==
    /\ pad \in 0 .. N - MinDistance
    /\ Len(encoded) = N - pad
    /\ given \in Seq(0 .. N - 1)
    /\ call.erased = [k \in 1 .. Len(given) |-> IndexOf(given[k])]

\* A block is encoded or is decoded.
Underway == phase \in {"encoded", "received", "massey", "factorized", "located"}

\* The block is not touched before the decode has returned.
InPlaceInv ==
    /\ (ThroughShim /\ phase # "idle") => PlacesGiven /\ returned # -1
    /\ (ThroughShim /\ Underway) => block = ChangedBlock
    /\ BlockDecodedInPlace

\* It holds before the first block.
LEMMA InPlaceInit == ShimInit => InPlaceInv
  BY DEF ShimInit, Init, InPlaceInv, Underway, BlockDecodedInPlace

\* A sequence written over the front of another one.
LEMMA OverTheFront ==
    ASSUME NEW S, NEW s \in Seq(S), NEW t \in Seq(S), Len(s) <= Len(t)
    PROVE  LET r == s \o SubSeq(t, Len(s) + 1, Len(t))
           IN  /\ Len(r) = Len(t)
               /\ SubSeq(r, 1, Len(s)) = s
               /\ SubSeq(r, Len(s) + 1, Len(r)) = SubSeq(t, Len(s) + 1, Len(t))
<1> DEFINE m == Len(s)
           l == Len(t)
           u == SubSeq(t, m + 1, l)
           r == s \o u
<1>1. m \in Nat /\ l \in Nat /\ m <= l
  OBVIOUS
<1>2. u \in Seq(S) /\ Len(u) = l - m /\ \A i \in 1 .. l - m : u[i] = t[m + i]
  <2>1. \A i \in m + 1 .. l : t[i] \in S
    <3>1. m + 1 .. l \subseteq 1 .. l
      BY <1>1
    <3> HIDE DEF m
    <3> QED BY <3>1, ElementOfSeq
  <2> QED BY <1>1, <2>1, SubSeqProperties
<1> HIDE DEF u
<1>3. r \in Seq(S) /\ Len(r) = l
      /\ \A i \in 1 .. l : r[i] = IF i <= m THEN s[i] ELSE u[i - m]
  BY <1>1, <1>2, ConcatProperties
<1> HIDE DEF r
<1>4. SubSeq(r, 1, m) = s
  <2>1. \A i \in 1 .. m : r[i] = s[i] /\ r[i] \in S
    <3> SUFFICES ASSUME NEW i \in 1 .. m PROVE r[i] = s[i] /\ r[i] \in S
      OBVIOUS
    <3>1. i \in 1 .. l
      BY <1>1
    <3> QED BY <1>3, <3>1, ElementOfSeq
  <2>2. /\ SubSeq(r, 1, m) \in Seq(S) /\ Len(SubSeq(r, 1, m)) = m
        /\ \A i \in 1 .. m : SubSeq(r, 1, m)[i] = r[i]
    BY <1>1, <1>3
  <2> DEFINE q == SubSeq(r, 1, m)
  <2>3. q \in Seq(S) /\ Len(q) = Len(s) /\ \A i \in 1 .. Len(q) : q[i] = s[i]
    BY <2>1, <2>2
  <2> HIDE DEF q
  <2> QED BY <2>3, SeqEqual DEF q
<1>5. SubSeq(r, m + 1, l) = u
  <2> DEFINE q == SubSeq(r, m + 1, l)
  <2>1. q \in Seq(S) /\ Len(q) = l - m /\ \A i \in 1 .. l - m : q[i] = r[m + i]
    BY <1>1, <1>3, SubSeqProperties
  <2>2. \A i \in 1 .. l - m : r[m + i] = u[i]
    <3> SUFFICES ASSUME NEW i \in 1 .. l - m PROVE r[m + i] = u[i]
      OBVIOUS
    <3>1. m + i \in 1 .. l /\ ~ (m + i <= m) /\ (m + i) - m = i
      BY <1>1
    <3> QED BY <1>3, <3>1
  <2> HIDE DEF q
  <2>3. q \in Seq(S) /\ Len(q) = Len(u) /\ \A i \in 1 .. Len(q) : q[i] = u[i]
    BY <1>2, <2>1, <2>2
  <2> QED BY <1>2, <2>3, SeqEqual DEF q
<1> QED BY <1>3, <1>4, <1>5 DEF r, u

\* A decode leaves the block's facts alone, and what it returns is the payload
\* of a polynomial, or -1.
LEMMA DecodeEnds ==
    ASSUME DecodeStep
    PROVE  /\ Underway /\ UNCHANGED <<call, encoded, returned>>
           /\ phase' # "done" => Underway'
           /\ phase' # "idle"
           /\ (phase' = "done" /\ status' # -1) => \E poly : msg' = Payload(poly)
<1>1. CASE TooManyErasures
  BY <1>1 DEF TooManyErasures, encoderVars, Underway
<1>2. CASE Receive
  BY <1>2 DEF Receive, encoderVars, Underway
<1>3. CASE NoErrors
  BY <1>3 DEF NoErrors, encoderVars, Underway
<1>4. CASE FindSyndromes
  BY <1>4 DEF FindSyndromes, encoderVars, Underway
<1>5. CASE NoDiscrepancy \/ Lengthen \/ Adjust
  BY <1>5 DEF NoDiscrepancy, Lengthen, Adjust, InLoop, UNCHANGEDbutMassey, encoderVars, Underway
<1>6. CASE Factorize
  BY <1>6 DEF Factorize, encoderVars, Underway
<1>7. CASE Locate
  BY <1>7 DEF Locate, encoderVars, Underway
<1>8. CASE Correct
  BY <1>8 DEF Correct, encoderVars, Underway
<1> QED BY <1>1, <1>2, <1>3, <1>4, <1>5, <1>6, <1>7, <1>8 DEF DecodeStep

\* The block on the wire has the codeword's length.
LEMMA ChangedBlockTypes ==
    ASSUME BlockSent
    PROVE  /\ ChangedBlock \in Seq(Elements) /\ Len(ChangedBlock) = Len(encoded)
           /\ msgLength = Len(call.message) /\ msgLength \in Nat /\ msgLength <= Len(encoded)
<1>1. /\ Len(encoded) \in Nat /\ Len(encoded) = Len(call.message) + MinDistance
      /\ Len(call.message) \in Nat /\ MinDistance \in Nat
      /\ \A k \in 1 .. Len(encoded) : encoded[k] \in Elements /\ call.noise[k] \in Elements
  BY BlockFacts, FieldSize
<1> DEFINE l == Len(encoded)
<1>2. ChangedBlock \in [1 .. l -> Elements]
  BY <1>1, AddGroup DEF ChangedBlock
<1>3. ChangedBlock \in Seq(Elements) /\ Len(ChangedBlock) = l
  <2> DEFINE c == ChangedBlock
  <2>1. l \in Nat /\ c \in [1 .. l -> Elements]
    BY <1>1, <1>2
  <2> HIDE DEF l, c
  <2>2. c \in Seq(Elements) /\ Len(c) = l
    BY <2>1
  <2> QED BY <2>2 DEF c
<1> QED BY <1>1, <1>3 DEF msgLength

\* A byte has one erasure in the shim's terms where it has one in the library's.
LEMMA SameUnknown ==
    ASSUME PlacesGiven
    PROVE  /\ numUnknown = Cardinality({k \in 1 .. Len(encoded) :
                              /\ call.noise[k] # 0
                              /\ \A j \in 1 .. Len(given) : given[j] # pad + k - 1})
           /\ numErasures = Len(given)
<1>1. /\ N \in Nat /\ MinDistance \in Nat /\ pad \in 0 .. N - MinDistance /\ pad \in 0 .. N
      /\ Len(encoded) = N - pad /\ 2^Width = N + 1
      /\ call.erased = [j \in 1 .. Len(given) |-> IndexOf(given[j])]
  <2>1. N \in Nat /\ MinDistance \in Nat /\ 2^Width = N + 1
    BY FieldSize, Sizes
  <2> QED BY <2>1 DEF PlacesGiven
<1>2. Len(given) \in Nat /\ given \in Seq(0 .. N - 1)
  BY DEF PlacesGiven
<1>3. numErasures = Len(given)
  BY <1>1, <1>2 DEF numErasures
<1>4. ASSUME NEW k \in 1 .. Len(encoded), NEW j \in 1 .. Len(given)
      PROVE  call.erased[j] = k - 1 <=> given[j] = pad + k - 1
  <2> DEFINE a == given[j]
             d == a - pad
             m == N + 1
             S == 0 .. N - 1
  <2>1. a \in 0 .. N - 1
    <3>1. given \in Seq(S)
      BY <1>2
    <3> HIDE DEF S
    <3>2. given[j] \in S
      BY <3>1, ElementOfSeq
    <3> QED BY <3>2 DEF S
  <2>2. call.erased[j] = d % m
    BY <1>1 DEF IndexOf
  <2> HIDE DEF a
  <2>3. d \in Int /\ m \in Nat \ {0} /\ k \in 1 .. N - pad
    BY <1>1, <2>1
  <2>4. CASE a < pad
    <3> DEFINE b == N + 1 + a - pad
    <3>1. b \in 0 .. m - 1 /\ d = m * (-1) + b /\ -1 \in Int
      BY <1>1, <2>1, <2>3, <2>4
    <3>2. d % m = b
      <4> HIDE DEF b, d, m
      <4> QED BY <2>3, <3>1, DivisionUnique
    <3>3. b # k - 1 /\ a # pad + k - 1
      BY <1>1, <2>1, <2>3, <2>4
    <3> QED BY <2>2, <3>2, <3>3 DEF a
  <2>5. CASE ~ (a < pad)
    <3>1. d \in 0 .. m - 1 /\ d = m * 0 + d /\ 0 \in Int
      BY <1>1, <2>1, <2>3, <2>5
    <3>2. d % m = d
      <4> HIDE DEF d, m
      <4> QED BY <2>3, <3>1, DivisionUnique
    <3>3. d = k - 1 <=> a = pad + k - 1
      BY <1>1, <2>1, <2>3
    <3> QED BY <2>2, <3>2, <3>3 DEF a
  <2> QED BY <2>4, <2>5
<1>5. {k \in 1 .. Len(encoded) : /\ call.noise[k] # 0
                                 /\ \A j \in 1 .. numErasures : call.erased[j] # k - 1}
        = {k \in 1 .. Len(encoded) : /\ call.noise[k] # 0
                                     /\ \A j \in 1 .. Len(given) : given[j] # pad + k - 1}
  BY <1>3, <1>4
<1> QED BY <1>3, <1>5 DEF numUnknown

\* What is the same after a step that leaves the block and the caller's places.
LEMMA InPlaceKept ==
    ASSUME UNCHANGED <<call, encoded, pad, given>>
    PROVE  PlacesGiven' = PlacesGiven /\ ChangedBlock' = ChangedBlock /\ ThroughShim' = ThroughShim
  BY DEF PlacesGiven, ChangedBlock, ThroughShim, IndexOf

\* encode_rs_char hands the caller's padding and places on (fec_shim.c:64-77).
LEMMA InPlaceEncode ==
    ASSUME PadInv, ThroughShim, NEW t \in ShimTransmissions[pad], EncodeRsChar(t), pad' = pad
    PROVE  InPlaceInv'
<1>1. /\ phase' = "encoded" /\ call' = ForLibrary(t) /\ returned' = N
      /\ encoded' = Encoded(ForLibrary(t).message)
      /\ block' = [k \in 1 .. N - pad |-> field_add(encoded'[k], t.noise[k])]
      /\ given' = t.erased
  BY DEF EncodeRsChar, Encode
<1>2. /\ pad \in Pads
      /\ t \in TransmissionRecords
      /\ t.message \in [1 .. N - pad - MinDistance -> Elements]
      /\ t.erased \in Seq(0 .. N - 1)
      /\ pad \in 0 .. N - MinDistance
  <2>1. pad \in Pads
    BY DEF PadInv, ThroughShim
  <2> QED BY <2>1, ShimAssumption
<1>3. N \in Nat /\ MinDistance \in Nat /\ N >= 2
  BY FieldSize
<1>4. /\ ForLibrary(t).message = t.message /\ ForLibrary(t).noise = t.noise
      /\ ForLibrary(t).erased = [k \in 1 .. Len(t.erased) |-> IndexOf(t.erased[k])]
  <2>1. DOMAIN t.erased = 1 .. Len(t.erased)
    BY <1>2
  <2> QED BY <1>2, <2>1 DEF ForLibrary, TransmissionRecords
<1>5. Len(encoded') = N - pad
  <2> DEFINE m == t.message
             c == N - pad - MinDistance
  <2>1. c \in Nat /\ m \in [1 .. c -> Elements]
    BY <1>2, <1>3
  <2>2. m \in Seq(Elements) /\ Len(m) = c
    <3> HIDE DEF c, m
    <3> QED BY <2>1
  <2>3. Len(m) <= message_length
    BY <1>2, <1>3, <2>2 DEF message_length
  <2> HIDE DEF m
  <2>4. Len(Encoded(m)) = Len(m) + MinDistance
    BY <2>2, <2>3, EncodedTypes
  <2>5. Len(m) + MinDistance = N - pad
    BY <1>2, <1>3, <2>2
  <2> QED BY <1>1, <1>4, <2>4, <2>5 DEF m
<1>6. PlacesGiven'
  <2>1. call'.erased = [k \in 1 .. Len(given') |-> IndexOf(given'[k])]
    BY <1>1, <1>4
  <2> QED BY <1>1, <1>2, <1>5, <2>1 DEF PlacesGiven, IndexOf
<1>7. block' = ChangedBlock'
  BY <1>1, <1>4, <1>5 DEF ChangedBlock
<1>8. returned' # -1
  BY <1>1, <1>3
<1> QED BY <1>1, <1>6, <1>7, <1>8 DEF InPlaceInv, BlockDecodedInPlace

\* The decode writes over the front of the block, or not at all.
LEMMA InPlaceDecode ==
    ASSUME CorrectInv, CorrectInv', ThroughShim, InPlaceInv, DecodeRsChar, pad' = pad
    PROVE  InPlaceInv'
<1>1. /\ Underway /\ UNCHANGED <<call, encoded, returned, given>>
      /\ phase' # "done" => Underway' /\ block' = block
      /\ phase' = "done" => block' = InPlace
      /\ phase' # "idle"
      /\ (phase' = "done" /\ status' # -1) => \E poly : msg' = Payload(poly)
  BY DecodeEnds DEF DecodeRsChar
<1>2. BlockSent /\ PlacesGiven /\ returned # -1 /\ block = ChangedBlock
  BY <1>1 DEF CorrectInv, InPlaceInv, Underway
<1>3. PlacesGiven' /\ ChangedBlock' = ChangedBlock /\ ThroughShim' = ThroughShim
  BY <1>1, <1>2, InPlaceKept
<1>4. /\ numErasures' = numErasures /\ numUnknown' = numUnknown
      /\ msgLength' = msgLength
  BY <1>1, BlockKept DEF msgLength
<1>5. CASE phase' # "done"
  <2>1. ~ BlockDecodedInPlace' => FALSE
    BY <1>5 DEF BlockDecodedInPlace
  <2> QED BY <1>1, <1>2, <1>3, <1>5, <2>1 DEF InPlaceInv
<1>6. CASE phase' = "done"
  <2> DEFINE m == msgLength
             b == ChangedBlock
             within == 2 * numUnknown + numErasures <= MinDistance
  <2>1. /\ b \in Seq(Elements) /\ Len(b) = Len(encoded) /\ m = Len(call.message)
        /\ m \in Nat /\ m <= Len(b) /\ numUnknown \in Nat
    BY <1>2, ChangedBlockTypes, UnknownCount
  <2>2. within => msg' = call.message /\ status' # -1
    BY <1>1, <1>2, <1>4, <1>6 DEF CorrectInv, CorrectsWithinBound
  <2>3. within => status' # -1
    BY <2>1, <2>2
  <2>4. ASSUME status' # -1
        PROVE  /\ SubSeq(block', m + 1, Len(block')) = SubSeq(b, m + 1, Len(b))
               /\ SubSeq(block', 1, m) = msg'
    <3>1. PICK poly : msg' = Payload(poly)
      BY <1>1, <1>6, <2>4
    <3> DEFINE s == msg'
               S == {s[k] : k \in 1 .. m} \cup Elements
    <3>2. s = [k \in 1 .. m |-> poly[Len(encoded) - k]]
      BY <3>1 DEF Payload
    <3>3. s \in [1 .. m -> S]
      BY <3>2
    <3> HIDE DEF m
    <3>4. s \in Seq(S) /\ Len(s) = m
      <4> HIDE DEF s, S
      <4> QED BY <2>1, <3>3
    <3>5. b \in Seq(S)
      <4> HIDE DEF b
      <4> QED BY <2>1
    <3>6. block' = s \o SubSeq(b, Len(s) + 1, Len(b))
      BY <1>1, <1>2, <1>6, <2>4 DEF InPlace
    <3> HIDE DEF s, S, b
    <3>7. Len(s) <= Len(b)
      BY <2>1, <3>4
    <3>8. /\ SubSeq(block', 1, Len(s)) = s
          /\ SubSeq(block', Len(s) + 1, Len(block')) = SubSeq(b, Len(s) + 1, Len(b))
      <4> DEFINE q == s \o SubSeq(b, Len(s) + 1, Len(b))
      <4>1. s \in Seq(S) /\ b \in Seq(S) /\ Len(s) <= Len(b)
        BY <3>4, <3>5, <3>7
      <4>2. /\ SubSeq(q, 1, Len(s)) = s
            /\ SubSeq(q, Len(s) + 1, Len(q)) = SubSeq(b, Len(s) + 1, Len(b))
        BY ONLY <4>1, OverTheFront
      <4>3. block' = q
        BY <3>6
      <4> HIDE DEF q
      <4> QED BY <4>2, <4>3
    <3> QED BY <3>4, <3>8 DEF s
  <2>5. ASSUME status' = -1 PROVE block' = b
    BY <1>1, <1>2, <1>6, <2>5 DEF InPlace
  <2>6. SubSeq(block', m + 1, Len(block')) = SubSeq(b, m + 1, Len(b))
    BY <2>4, <2>5
  <2>7. within => SubSeq(block', 1, m) = call.message
    BY <2>2, <2>3, <2>4
  <2>8. BlockDecodedInPlace'
    <3>1. /\ numUnknown' = Cardinality({k \in 1 .. Len(encoded') :
                              /\ call'.noise[k] # 0
                              /\ \A j \in 1 .. Len(given') : given'[j] # pad' + k - 1})
          /\ numErasures' = Len(given')
      <4>1. numUnknown = Cardinality({k \in 1 .. Len(encoded) :
                              /\ call.noise[k] # 0
                              /\ \A j \in 1 .. Len(given) : given[j] # pad + k - 1})
            /\ numErasures = Len(given)
        BY <1>2, SameUnknown
      <4> QED BY <1>1, <1>4, <4>1
    <3> DEFINE c == {k \in 1 .. Len(encoded') :
                              /\ call'.noise[k] # 0
                              /\ \A j \in 1 .. Len(given') : given'[j] # pad' + k - 1}
    <3>2. 2 * Cardinality(c) + Len(given') <= MinDistance => SubSeq(block', 1, msgLength') = call'.message
      BY <1>1, <1>4, <2>7, <3>1
    <3>3. status' = -1 => block' = b
      BY <2>5
    <3>4. b = [k \in 1 .. Len(encoded') |-> field_add(encoded'[k], call'.noise[k])]
      BY <1>1 DEF ChangedBlock
    <3>5. SubSeq(block', msgLength' + 1, Len(block')) = SubSeq(b, msgLength' + 1, Len(b))
      BY <1>4, <2>6
    <3> HIDE DEF b, within, m
    <3> QED BY <3>2, <3>3, <3>4, <3>5 DEF BlockDecodedInPlace
  <2> QED BY <1>1, <1>2, <1>3, <1>6, <2>8 DEF InPlaceInv, Underway
<1> QED BY <1>5, <1>6

\* A step that changes nothing keeps all of it,
LEMMA InPlaceUnchanged ==
    ASSUME InPlaceInv, UNCHANGED shimVars
    PROVE  InPlaceInv'
<1>1. UNCHANGED <<call, encoded, returned, phase, status, pad, block, given>>
  BY DEF shimVars, vars, encoderVars, results
<1>2. PlacesGiven' = PlacesGiven /\ ChangedBlock' = ChangedBlock /\ ThroughShim' = ThroughShim
  BY <1>1, InPlaceKept
<1>3. msgLength' = msgLength /\ Underway' = Underway
  BY <1>1 DEF msgLength, Underway
<1>4. BlockDecodedInPlace' = BlockDecodedInPlace
  BY <1>1, <1>2, <1>3 DEF BlockDecodedInPlace
<1> QED BY <1>1, <1>2, <1>3, <1>4 DEF InPlaceInv

\* and so does every step of either interface.
LEMMA InPlaceNext ==
    ASSUME PadInv, CorrectInv, CorrectInv', InPlaceInv, [ShimNext]_shimVars
    PROVE  InPlaceInv'
<1>1. CASE ThroughShim /\ pad' = pad
  <2>1. ASSUME NEW t \in ShimTransmissions[pad], EncodeRsChar(t) PROVE InPlaceInv'
    BY <1>1, <2>1, InPlaceEncode
  <2>2. CASE DecodeRsChar
    BY <1>1, <2>2, InPlaceDecode
  <2>3. CASE ShimRest \/ UNCHANGED shimVars
    BY <1>1, <2>3, InPlaceUnchanged DEF ShimRest, shimVars
  <2> QED BY <1>1, <2>1, <2>2, <2>3 DEF ShimNext
<1>2. CASE ~ ThroughShim /\ pad' = pad
  <2>1. ~ ThroughShim'
    BY <1>2 DEF ThroughShim
  <2> QED BY <2>1 DEF InPlaceInv, BlockDecodedInPlace
<1>3. pad' = pad
  BY DEF ShimNext, shimVars
<1> QED BY <1>1, <1>2, <1>3

\* decode_rs_char gives its caller the message in place, as far as the code
\* corrects, and does not touch the parity, nor a block it cannot decode
\* (fec_shim.c:79-87, rs_decode.c:461-464).
THEOREM ShimDecodesInPlace ==
    ASSUME GapIsUnit
    PROVE  ShimSpec => []BlockDecodedInPlace
<1>1. PadInv /\ TypeInv /\ DecodeInv /\ CorrectInv /\ InPlaceInv /\ [ShimNext]_shimVars
        => (TypeInv /\ DecodeInv /\ CorrectInv /\ InPlaceInv)'
  BY TypeShimNext, DecodeInvShimNext, CorrectShimNext, InPlaceNext
<1>2. ShimInit => PadInv /\ TypeInv /\ DecodeInv /\ CorrectInv /\ InPlaceInv
  BY ShimTypeInit, DecodeInvInit, CorrectInit, InPlaceInit DEF ShimInit
<1>3. InPlaceInv => BlockDecodedInPlace
  BY DEF InPlaceInv
<1> QED BY <1>1, <1>2, <1>3, PadKept, PTL DEF ShimSpec
=============================================================================

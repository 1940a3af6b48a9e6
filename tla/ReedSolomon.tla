----------------------------- MODULE ReedSolomon -----------------------------
(***************************************************************************)
(* correct_reed_solomon of reed-solomon.c, rs_encode.c and rs_decode.c: a  *)
(* systematic encoder, and a decoder for errors and erasures that keeps    *)
(* its syndromes, locators, roots, locations and values in scratch arrays  *)
(* of the codec from one call to the next.                                 *)
(*                                                                         *)
(* A transmission is one message encoded, changed by a channel, and handed *)
(* to correct_reed_solomon_decode or, with erasures, to                    *)
(* correct_reed_solomon_decode_with_erasures.  The stages of a decode are  *)
(* actions of their own, every round of the Berlekamp-Massey loop too.     *)
(*                                                                         *)
(* N stands for the code's 255 and MinDistance for its min_distance.  Two  *)
(* arrays are modelled longer than they are, for what is written behind    *)
(* them: index N of `received` is behind received_polynomial, indices from *)
(* 2 * MinDistance on are behind error_roots, see RootSets.                *)
(***************************************************************************)
EXTENDS GaloisField, FiniteSets

CONSTANTS MinDistance,      \* num_roots
          FirstRoot,        \* first_consecutive_root
          RootGap,          \* generator_root_gap
          Transmissions,    \* records message, noise, erased
          Repeated,         \* bound: those that share a codec with others
          MaxCalls          \* bound: transmissions over one codec

ASSUME CodeAssumption ==
    /\ MinDistance \in 1 .. N - 1
    /\ FirstRoot \in Elements
    /\ RootGap \in Elements

TransmissionRecords == [message : Seq(Elements), noise : Seq(Elements), erased : Seq(Nat)]

\* The noise is added to the block, the erasures are indices into it.
ASSUME TransmissionsAssumption ==
    /\ Repeated \subseteq Transmissions
    /\ Transmissions \subseteq TransmissionRecords
    /\ \A t \in Transmissions :
           LET len == Len(t.message) + MinDistance
           IN  /\ t.noise \in [1 .. len -> Elements]
               /\ t.erased \in Seq(0 .. len - 1)
               /\ \A j, k \in 1 .. Len(t.erased) : t.erased[j] = t.erased[k] => j = k

VARIABLES
    call,              \* the transmission under way
    encoded,           \* what encode wrote
    returned,          \* what encode returned
    phase,
    received,          \* received_polynomial
    syndromes,
    savedSyndromes,    \* syndrome_copy
    locator,           \* error_locator, with its order
    lastLocator,       \* last_error_locator, with its order
    erasureLocator,
    roots,             \* error_roots
    vals,              \* error_vals
    locations,         \* error_locations
    numerrors, delay, lastDiscrepancy, round,    \* of the loop over syndromes
    msg,               \* the caller's message buffer
    status,            \* what decode returned
    calls

encoderVars == <<call, encoded, returned, calls>>
massey      == <<locator, lastLocator, numerrors, delay, lastDiscrepancy, round>>
places      == <<roots, vals, locations>>
results     == <<msg, status>>
vars == <<encoderVars, phase, received, syndromes, savedSyndromes, massey,
          erasureLocator, places, results>>

message_length == N - MinDistance
Coefficients   == 0 .. MinDistance
Polynomials    == [coeff : [Coefficients -> Elements], order : Coefficients]

numErasures == Len(call.erased)
msgLength   == Len(encoded) - MinDistance
padLength   == N - Len(encoded)

------------------------------------------------------------------------------
(* What correct_reed_solomon_create and the first decode compute.          *)

generator_roots ==
    [k \in 0 .. MinDistance - 1 |-> Exp[(RootGap * (k + FirstRoot)) % N]]

generator == polynomial_from_roots(MinDistance, generator_roots)

generator_root_exp ==
    [k \in 0 .. MinDistance - 1 |->
        polynomial_build_exp_lut(generator_roots[k], N - 1)]

element_exp == [x \in Elements |-> polynomial_build_exp_lut(x, MinDistance - 1)]

------------------------------------------------------------------------------
(* The encoder.                                                            *)

\* The message from high order to low order, zeros around it.
EncodedPolynomial(m) ==
    LET pad == message_length - Len(m)
    IN  [k \in 0 .. N - 1 |->
            IF k \in MinDistance .. N - 1 - pad THEN m[N - pad - k] ELSE 0]

Remainder(m) == polynomial_mod(EncodedPolynomial(m), N - 1, generator, MinDistance)

\* The message, then the remainder from high order to low order.
Encoded(m) ==
    [k \in 1 .. Len(m) + MinDistance |->
        IF k <= Len(m) THEN m[k] ELSE Remainder(m)[MinDistance + Len(m) - k]]

------------------------------------------------------------------------------
(* The decoder.                                                            *)

Syndromes(poly) ==
    [k \in 0 .. MinDistance - 1 |->
        polynomial_eval_lut(poly, N - 1, generator_root_exp[k])]

\* Mutant: the padding of a short block is forgotten.
ErasureLocations_NoPad(old) ==
    [k \in 0 .. MinDistance - 1 |->
        IF k < numErasures THEN (N - (call.erased[k + 1] + 1)) % 2^Width ELSE old[k]]

\* The caller's indices count from the front of the block, the polynomial's
\* exponents from its end.
ErasureLocations(old) ==
    [k \in 0 .. MinDistance - 1 |->
        IF k < numErasures
        THEN (N - (call.erased[k + 1] + padLength + 1)) % 2^Width ELSE old[k]]

\* reed_solomon_find_error_roots_from_locations.
ErasureRoots(old, locs) ==
    [k \in DOMAIN old |->
        IF k < numErasures THEN field_div(1, field_pow(Exp[locs[k]], RootGap)) ELSE old[k]]

\* reed_solomon_find_modified_syndromes, moved down over the syndromes.
WithoutErasures(synd, erasureLoc) ==
    LET modified == polynomial_mul(erasureLoc, numErasures, synd, MinDistance - 1,
                                   MinDistance - 1)
    IN  [k \in 0 .. MinDistance - 1 |->
            IF k + numErasures < MinDistance THEN modified[k + numErasures] ELSE synd[k]]

One == [coeff |-> [k \in Coefficients |-> IF k = 0 THEN 1 ELSE 0], order |-> 0]

Discrepancy ==
    FieldTotal([j \in 0 .. numerrors |->
                   IF j = 0 THEN syndromes[round]
                   ELSE field_mul(locator.coeff[j], syndromes[round - j])], 0, numerrors)

\* The last locator times x^delay and the ratio of the two discrepancies.
Shifted ==
    [k \in Coefficients |->
        IF k \in delay .. delay + lastLocator.order
        THEN field_div(field_mul(lastLocator.coeff[k - delay], Discrepancy), lastDiscrepancy)
        ELSE 0]

Corrected == [k \in Coefficients |-> field_add(locator.coeff[k], Shifted[k])]

\* What one call of Chien's search can find.  When the locator has MinDistance
\* as its order, the search reads one logarithm behind the row of element_exp:
\* then every element whose sum is not zero without that term may or may not
\* turn out a root, and they may be more than error_roots has places.
RootSets ==
    LET order == locator.order
        logs == [k \in 0 .. order |-> Log[locator.coeff[k]]]
        value(x, n) == polynomial_eval_log_lut(logs, n, element_exp[x])
    IN  IF order = MinDistance /\ logs[order] # 0
        THEN SUBSET {x \in 1 .. N : value(x, order - 1) # 0}
        ELSE {{x \in Elements : value(x, order) = 0}}

\* The roots in their order behind those of the erasures, each written before
\* anyone counts them.
Placed(old, found) ==
    [k \in DOMAIN old |->
        CASE k \in numErasures .. numErasures + Cardinality(found) - 1 ->
                CHOOSE x \in found : Cardinality({y \in found : y < x}) = k - numErasures
          [] k \in numErasures + Cardinality(found) .. numErasures + locator.order - 1 -> 0
          [] OTHER -> old[k]]

EnoughRoots(found) == Cardinality(found) = locator.order

\* The locator of all errors: temp_poly when there are erasures.
FullOrder == locator.order + numErasures
FullLocator ==
    IF numErasures = 0 THEN [k \in 0 .. FullOrder |-> locator.coeff[k]]
    ELSE polynomial_mul(erasureLocator, numErasures, locator.coeff, locator.order, FullOrder)

\* reed_solomon_find_error_locations: the first element whose power is the
\* reciprocal of the root, by its logarithm.
ErrorLocations(old) ==
    [k \in DOMAIN old |->
        LET fits == {x \in Elements : field_pow(x, RootGap) = field_div(1, roots[k])}
        IN  IF k \in numErasures .. FullOrder - 1 /\ roots[k] # 0 /\ fits # {}
            THEN Log[CHOOSE x \in fits : \A y \in fits : x <= y]
            ELSE old[k]]

\* Mutant: Forney's formula without the power of the root.
ErrorValues_NoPower(old, synd) ==
    LET evaluator == polynomial_mul(FullLocator, FullOrder, synd, MinDistance - 1,
                                    MinDistance - 1)
        derivative == polynomial_formal_derivative(FullLocator, FullOrder)
    IN  [k \in DOMAIN old |->
            IF k >= FullOrder \/ roots[k] = 0 THEN old[k]
            ELSE field_div(
                    polynomial_eval_lut(evaluator, MinDistance - 1, element_exp[roots[k]]),
                    polynomial_eval_lut(derivative, FullOrder - 1, element_exp[roots[k]]))]

\* reed_solomon_find_error_values: Forney's formula.
ErrorValues(old, synd) ==
    LET evaluator == polynomial_mul(FullLocator, FullOrder, synd, MinDistance - 1,
                                    MinDistance - 1)
        derivative == polynomial_formal_derivative(FullLocator, FullOrder)
    IN  [k \in DOMAIN old |->
            IF k >= FullOrder \/ roots[k] = 0 THEN old[k]
            ELSE field_mul(
                    field_pow(roots[k], FirstRoot - 1),
                    field_div(
                      polynomial_eval_lut(evaluator, MinDistance - 1, element_exp[roots[k]]),
                      polynomial_eval_lut(derivative, FullOrder - 1, element_exp[roots[k]])))]

\* The received polynomial with every value subtracted at its location.
Repaired ==
    [p \in 0 .. N |->
        FieldTotal([k \in 0 .. FullOrder |->
                       IF k = 0 THEN received[p]
                       ELSE IF locations[k - 1] = p THEN vals[k - 1] ELSE 0], 0, FullOrder)]

Payload(poly) == [k \in 1 .. msgLength |-> poly[Len(encoded) - k]]
------------------------------------------------------------------------------
\* malloc leaves the arrays as they are; the first decode allocates them.
Init ==
    \E junk \in {0, N} :
        /\ call = [message |-> <<>>, noise |-> <<>>, erased |-> <<>>]
        /\ encoded = <<>>
        /\ returned = 0
        /\ phase = "idle"
        /\ received = [p \in 0 .. N |-> junk]
        /\ syndromes = [k \in 0 .. MinDistance - 1 |-> 0]
        /\ savedSyndromes = syndromes
        /\ locator = [coeff |-> [k \in Coefficients |-> junk], order |-> MinDistance]
        /\ lastLocator = locator
        /\ erasureLocator = [k \in Coefficients |-> junk]
        /\ roots = [k \in 0 .. MinDistance + N - 1 |-> 0]
        /\ vals = [k \in 0 .. MinDistance - 1 |-> junk]
        /\ locations = vals
        /\ numerrors = 0 /\ delay = 1 /\ lastDiscrepancy = 1 /\ round = 0
        /\ msg = <<>>
        /\ status = 0
        /\ calls = 0

\* correct_reed_solomon_encode.
Encode(t) ==
    /\ phase \in {"idle", "done"}
    /\ calls < MaxCalls
    /\ Len(t.message) <= message_length
    /\ phase' = "encoded"
    /\ call' = t
    /\ encoded' = Encoded(t.message)
    /\ returned' = N
    /\ calls' = calls + 1
    /\ UNCHANGED <<received, syndromes, savedSyndromes, massey, erasureLocator,
                   places, results>>

\* A message that is too long is refused, and nothing is written.
EncodeTooLong(t) ==
    /\ phase \in {"idle", "done"}
    /\ calls < MaxCalls
    /\ Len(t.message) > message_length
    /\ phase' = "done"
    /\ call' = t
    /\ encoded' = <<>>
    /\ returned' = -1
    /\ calls' = calls + 1
    /\ msg' = <<>>
    /\ status' = -1
    /\ UNCHANGED <<received, syndromes, savedSyndromes, massey, erasureLocator, places>>

\* So are more erasures than parity bytes.
TooManyErasures ==
    /\ phase = "encoded"
    /\ numErasures > MinDistance
    /\ phase' = "done"
    /\ msg' = <<>>
    /\ status' = -1
    /\ UNCHANGED <<encoderVars, received, syndromes, savedSyndromes, massey,
                   erasureLocator, places>>

\* The head of both decode functions: the block is turned around and padded,
\* and with erasures their locator is built.  The caller's buffer for the
\* message is a new one.
Receive ==
    /\ phase = "encoded"
    /\ numErasures <= MinDistance
    /\ phase' = "received"
    /\ received' =
         [p \in 0 .. N |->
            CASE p < Len(encoded) -> field_add(encoded[Len(encoded) - p],
                                               call.noise[Len(encoded) - p])
              [] p >= Len(encoded) /\ p < N -> 0
              [] p = N -> received[p]]
    /\ msg' = <<>>
    /\ IF numErasures = 0 THEN UNCHANGED <<locations, roots, erasureLocator>>
       ELSE /\ locations' = ErasureLocations(locations)
            /\ roots' = ErasureRoots(roots, locations')
            /\ erasureLocator' =
                 [k \in Coefficients |->
                    IF k <= numErasures
                    THEN polynomial_from_roots(numErasures, roots')[k]
                    ELSE erasureLocator[k]]
    /\ UNCHANGED <<encoderVars, syndromes, savedSyndromes, massey, vals, status>>

\* reed_solomon_find_syndromes when they are all zero: the block is taken.
NoErrors ==
    /\ phase = "received"
    /\ \A k \in 0 .. MinDistance - 1 : Syndromes(received)[k] = 0
    /\ phase' = "done"
    /\ syndromes' = Syndromes(received)
    /\ msg' = Payload(received)
    /\ status' = IF numErasures = 0 THEN 0 ELSE msgLength
    /\ UNCHANGED <<encoderVars, received, savedSyndromes, massey, erasureLocator, places>>

\* Otherwise the effect of the erasures is taken out of the syndromes, and the
\* search for the error locator starts with f(x) = 1.
FindSyndromes ==
    /\ phase = "received"
    /\ \E k \in 0 .. MinDistance - 1 : Syndromes(received)[k] # 0
    /\ phase' = "massey"
    /\ IF numErasures = 0
       THEN syndromes' = Syndromes(received) /\ UNCHANGED savedSyndromes
       ELSE /\ savedSyndromes' = Syndromes(received)
            /\ syndromes' = WithoutErasures(Syndromes(received), erasureLocator)
    /\ locator' = One
    /\ lastLocator' = One
    /\ numerrors' = 0 /\ delay' = 1 /\ lastDiscrepancy' = 1 /\ round' = 0
    /\ UNCHANGED <<encoderVars, received, erasureLocator, places, results>>

InLoop == phase = "massey" /\ round < MinDistance - numErasures

UNCHANGEDbutMassey ==
    UNCHANGED <<encoderVars, phase, received, syndromes, savedSyndromes,
                erasureLocator, places, results>>

\* The locator describes the next syndrome already.
NoDiscrepancy ==
    /\ InLoop
    /\ Discrepancy = 0
    /\ delay' = delay + 1
    /\ round' = round + 1
    /\ UNCHANGED <<locator, lastLocator, numerrors, lastDiscrepancy>>
    /\ UNCHANGEDbutMassey

\* Mutant: the delay is not started over.
Lengthen_KeepsDelay ==
    /\ InLoop
    /\ Discrepancy # 0
    /\ 2 * numerrors <= round
    /\ locator' = [coeff |-> Corrected, order |-> lastLocator.order + delay]
    /\ lastLocator' = locator
    /\ numerrors' = round + 1 - numerrors
    /\ lastDiscrepancy' = Discrepancy
    /\ delay' = delay + 1
    /\ round' = round + 1
    /\ UNCHANGEDbutMassey

\* The register is lengthened, and the locator becomes the last locator.
Lengthen ==
    /\ InLoop
    /\ Discrepancy # 0
    /\ 2 * numerrors <= round
    /\ locator' = [coeff |-> Corrected, order |-> lastLocator.order + delay]
    /\ lastLocator' = locator
    /\ numerrors' = round + 1 - numerrors
    /\ lastDiscrepancy' = Discrepancy
    /\ delay' = 1
    /\ round' = round + 1
    /\ UNCHANGEDbutMassey

\* Mutant: the last locator is replaced here, too.
Adjust_MovesLast ==
    /\ InLoop
    /\ Discrepancy # 0
    /\ 2 * numerrors > round
    /\ locator' = [coeff |-> Corrected,
                   order |-> IF lastLocator.order + delay > locator.order
                             THEN lastLocator.order + delay ELSE locator.order]
    /\ lastLocator' = locator
    /\ delay' = delay + 1
    /\ round' = round + 1
    /\ UNCHANGED <<numerrors, lastDiscrepancy>>
    /\ UNCHANGEDbutMassey

\* No more taps: the locator is corrected, the last locator stays.
Adjust ==
    /\ InLoop
    /\ Discrepancy # 0
    /\ 2 * numerrors > round
    /\ locator' = [coeff |-> Corrected,
                   order |-> IF lastLocator.order + delay > locator.order
                             THEN lastLocator.order + delay ELSE locator.order]
    /\ delay' = delay + 1
    /\ round' = round + 1
    /\ UNCHANGED <<lastLocator, numerrors, lastDiscrepancy>>
    /\ UNCHANGEDbutMassey

\* reed_solomon_factorize_error_locator, and the return of -1.
Factorize ==
    /\ phase = "massey"
    /\ ~InLoop
    /\ \E found \in RootSets :
         /\ roots' = Placed(roots, found)
         /\ IF EnoughRoots(found)
            THEN phase' = "factorized" /\ UNCHANGED status
            ELSE phase' = "done" /\ status' = -1
    /\ UNCHANGED <<encoderVars, received, syndromes, savedSyndromes, massey,
                   erasureLocator, vals, locations, msg>>

\* Locations, with the syndromes put back, and values.
Locate ==
    /\ phase = "factorized"
    /\ phase' = "located"
    /\ locations' = ErrorLocations(locations)
    /\ syndromes' = IF numErasures = 0 THEN syndromes ELSE savedSyndromes
    /\ vals' = ErrorValues(vals, syndromes')
    /\ UNCHANGED <<encoderVars, received, savedSyndromes, massey, erasureLocator,
                   roots, results>>

\* The errors are subtracted and the message is copied out.
Correct ==
    /\ phase = "located"
    /\ phase' = "done"
    /\ received' = Repaired
    /\ msg' = Payload(Repaired)
    /\ status' = IF numErasures = 0 THEN FullOrder ELSE msgLength
    /\ UNCHANGED <<encoderVars, syndromes, savedSyndromes, massey, erasureLocator, places>>

\* The caller has no more blocks.
Rest ==
    /\ phase = "done"
    /\ calls = MaxCalls \/ call \notin Repeated
    /\ UNCHANGED vars

\* What may be sent next.
Pending == IF calls = 0 THEN Transmissions
           ELSE IF call \in Repeated THEN Repeated ELSE {}

DecodeStep ==
    \/ TooManyErasures
    \/ Receive \/ NoErrors \/ FindSyndromes
    \/ NoDiscrepancy \/ Lengthen \/ Adjust
    \/ Factorize \/ Locate \/ Correct

Next ==
    \/ \E t \in Pending : Encode(t) \/ EncodeTooLong(t)
    \/ DecodeStep
    \/ Rest

Spec == Init /\ [][Next]_vars
------------------------------------------------------------------------------
Value(poly, x) ==
    FieldTotal([p \in 0 .. N - 1 |-> field_mul(poly[p], field_pow(x, p))], 0, N - 1)

\* The polynomial of a block, its last byte the constant term.
BlockPolynomial(block) ==
    [p \in 0 .. N - 1 |-> IF p < Len(block) THEN block[Len(block) - p] ELSE 0]

IsCodeword(poly) == \A k \in 0 .. MinDistance - 1 : Value(poly, generator_roots[k]) = 0

\* The number of bytes the channel changed where the decoder was not told.
numUnknown ==
    Cardinality({k \in 1 .. Len(encoded) :
        /\ call.noise[k] # 0
        /\ \A j \in 1 .. numErasures : call.erased[j] # k - 1})

\* The received polynomial as it is about to be repaired, with the byte behind
\* the array taken for what the code means it for, the coefficient of x^0.
Folded ==
    LET behind == {k \in 0 .. FullOrder - 1 : locations[k] = N}
    IN  [p \in 0 .. N - 1 |->
            IF p = 0 THEN FieldTotal([k \in 0 .. FullOrder |->
                              IF k = 0 THEN Repaired[0]
                              ELSE IF k - 1 \in behind THEN vals[k - 1] ELSE 0], 0, FullOrder)
            ELSE Repaired[p]]

TypeOK ==
    /\ phase \in {"idle", "encoded", "received", "massey", "factorized", "located", "done"}
    /\ encoded \in Seq(Elements)
    /\ received \in [0 .. N -> Elements]
    /\ {syndromes, savedSyndromes} \subseteq [0 .. MinDistance - 1 -> Elements]
    /\ {locator, lastLocator} \subseteq Polynomials
    /\ erasureLocator \in [Coefficients -> Elements]
    /\ roots \in [0 .. MinDistance + N - 1 -> Elements]
    /\ vals \in [0 .. MinDistance - 1 -> Elements]
    /\ locations \in [0 .. MinDistance - 1 -> Elements]
    /\ msg \in Seq(Elements)
    /\ status \in -1 .. N

\* What encode writes starts with the message and is a multiple of the
\* generator, for short messages too: it vanishes at every root the decoder
\* evaluates it at (rs_encode.c:8-31, rs_decode.c:11-19).
EncodesCodeword ==
    phase = "encoded" =>
        /\ SubSeq(encoded, 1, msgLength) = call.message
        /\ IsCodeword(BlockPolynomial(encoded))

\* The invariant of the Berlekamp-Massey loop: the locator is a register of
\* numerrors taps that produces every syndrome seen so far (rs_decode.c:55-118).
LocatorDescribesSyndromes ==
    phase = "massey" =>
        /\ locator.coeff[0] = 1
        /\ locator.order = numerrors
        /\ \A k \in Coefficients : locator.coeff[k] # 0 => k <= locator.order
        /\ \A k \in numerrors .. round - 1 :
             FieldTotal([j \in 0 .. numerrors |->
                            field_mul(locator.coeff[j], syndromes[k - j])], 0, numerrors) = 0

\* No shorter register produces the syndromes: the loop has not given up taps
\* it could have kept (rs_decode.c:69-71, 106).
NoShorterRegister ==
    (phase = "massey" /\ ~InLoop /\ numerrors > 0) =>
        \A taps \in [1 .. numerrors - 1 -> Elements] :
            \E k \in numerrors - 1 .. round - 1 :
                syndromes[k] # FieldTotal([j \in 1 .. numerrors - 1 |->
                                   field_mul(taps[j], syndromes[k - j])], 1, numerrors - 1)

\* "The bounds here will be ok": the shifted locator stays in the arrays of
\* MinDistance + 1 coefficients in both branches, so do the erasures and the
\* roots of the locator behind them in the arrays of MinDistance places; and the
\* search, which counts the roots only when it has written them, finds no more
\* than the locator's order, unless it reads behind the table of powers
\* (rs_decode.c:77-91, 111-116, 137-147, 188-200, 585).
ScratchStaysInBounds ==
    /\ (InLoop /\ Discrepancy # 0) =>
           /\ lastLocator.order + delay <= MinDistance
           /\ numerrors <= round
    /\ (phase = "massey" /\ ~InLoop /\ locator.order < MinDistance) =>
           \A found \in RootSets : numErasures + Cardinality(found) <= FullOrder
    /\ phase = "factorized" => FullOrder <= MinDistance

\* A block with e erasures and t unknown errors is decoded to the message
\* whenever 2 t + e does not exceed MinDistance, and not given up, whatever an
\* earlier decode left in the arrays (rs_decode.c:404-614).
CorrectsWithinBound ==
    (phase = "done" /\ returned # -1 /\ 2 * numUnknown + numErasures <= MinDistance) =>
        /\ msg = call.message
        /\ status # -1

\* correct.h:226-227, "This function returns a positive number of bytes written
\* to msg if it has decoded".
ReturnsBytesWritten ==
    (phase = "done" /\ returned # -1 /\ 2 * numUnknown + numErasures <= MinDistance) =>
        status = Len(msg)

\* Beyond that bound the message may be the wrong one, but the block a decode
\* repairs becomes a codeword of the full length: the number of roots is all the
\* code checks (rs_decode.c:144-147).  Three things break it, a root found behind
\* the table of powers, one that an erasure has already, and a gap between the
\* generator's roots that shares a factor with N: then a root may have no place,
\* and the location that is left from before is taken (rs_decode.c:221-224).
SuccessIsCodeword ==
    (/\ phase = "located"
     /\ locator.order < MinDistance
     /\ \A j, k \in 0 .. FullOrder - 1 : roots[j] = roots[k] => j = k)
        => IsCodeword(Folded)

\* "The 255th index is not even valid, just wrap it back to 0": every place
\* that is corrected lies in the block (rs_decode.c:211-215, 474, 602).
LocationsInBlock ==
    phase = "located" => \A k \in 0 .. FullOrder - 1 : locations[k] < N

==============================================================================

------------------------------ MODULE SseDecoder ------------------------------
(***************************************************************************)
(* correct_convolutional_sse_decode_soft (sse/cv_decode.c): the decoder of *)
(* cv_decode.c with another inner loop.  That one keeps the ring's index,  *)
(* length and counter in local variables, takes branch distances from a    *)
(* lookup of 8 registers a time, compares metrics as signed numbers, and   *)
(* calls the history buffer only when there is something to renormalise or *)
(* to trace back.  Hard decisions are the subject of SseSchedule.          *)
(***************************************************************************)
EXTENDS ViterbiDecoder

\* The loop handles 32 states a time.
ASSUME SseOrderAssumption == Order >= 6

VARIABLES localIndex, localLen, localCounter     \* hist_buf_index, _len, _rn_cnt

localVars == <<localIndex, localLen, localCounter>>
fieldVars == <<ringIndex, len, renormalizeCounter>>
sseVars   == <<vars, localVars>>

\* Mutant: the interval of the plain decoder.
SseInterval_Plain == DistanceMax \div (Rate * SoftMax)

\* (distance_max / 2) / (rate * soft_max)
SseInterval == (DistanceMax \div 2) \div (Rate * SoftMax)

\* The history buffer when the local variables are restored into it.
LocalRing == INSTANCE HistoryBuffer
                 WITH index <- localIndex, len <- localLen,
                      renormalizeCounter <- localCounter,
                      SliceInputs <- {}, DistanceInputs <- {}, MaxSlices <- 0

-----------------------------------------------------------------------------
OctOutputs == GroupOutputs(8)
OctKeys    == GroupKeys(8, OctOutputs)

OctDistances ==
    LET filled == FillDistance(OctOutputs, OutputDistances)
    IN  [r \in Registers |-> filled[OctKeys[r \div 8]][r % 8]]

\* A 16-bit register as _mm_cmpgt_epi16 reads it.
Signed(x) == IF x > DistanceMax \div 2 THEN x - (DistanceMax + 1) ELSE x

\* The least errors (_mm_min_epu16), and for which states the low path has more
\* of them.
Least(low, high) == [s \in States |-> IF low[s] <= high[s] THEN low[s] ELSE high[s]]
HighChosen(low, least) ==
    [s \in States |-> IF Signed(low[s]) > Signed(least[s]) THEN 1 ELSE 0]

\* history_buffer_process on the restored fields, and the local variables
\* loaded from it again.
Restore(slice, metrics) ==
    /\ LocalRing!ProcessSkip(slice, metrics, 1)
    /\ ringIndex' = localIndex'
    /\ len' = localLen'
    /\ renormalizeCounter' = localCounter'

\* The round without the call.
Bypass(slice, metrics) ==
    /\ history' = [history EXCEPT ![localIndex] = slice]
    /\ localLen' = localLen + 1
    /\ localIndex' = LocalRing!NextIndex(localIndex)
    /\ localCounter' = localCounter + 1
    /\ distances' = metrics
    /\ handed' = metrics
    /\ slices' = Append(slices, slice)
    /\ UNCHANGED <<fieldVars, out, merged>>

\* Is the ring about to be full, or is it time to renormalise?
MustProcess == localLen = LocalRing!Cap - 1 \/ localCounter = RenormalizeInterval - 1

-----------------------------------------------------------------------------
SseInit ==
    /\ Init
    /\ localIndex = 0 /\ localLen = 0 /\ localCounter = 0

\* The inner loop begins.
Load ==
    /\ Schedule!WarmupEnd
    /\ localIndex' = ringIndex /\ localLen' = len /\ localCounter' = renormalizeCounter
    /\ UNCHANGED <<errorVars, ringVars, distances, block, decodes>>

SseInnerRound ==
    LET low   == LowErrors(OctDistances)
        high  == HighErrors(OctDistances)
        least == Least(low, high)
        slice == HighChosen(low, least)
    IN  /\ Schedule!InnerRound
        /\ IF MustProcess THEN Restore(slice, least) ELSE Bypass(slice, least)
        /\ skip' = 1
        /\ Errors!Round(distances')
        /\ UNCHANGED <<block, decodes>>

\* Mutant: the counter is not written back.
Store_NoCounter ==
    /\ Schedule!EndInner
    /\ ringIndex' = localIndex /\ len' = localLen
    /\ UNCHANGED <<history, out, skip, slices, handed, merged, renormalizeCounter>>
    /\ UNCHANGED <<errorVars, distances, block, decodes, localVars>>

\* The inner loop ends.
Store ==
    /\ Schedule!EndInner
    /\ ringIndex' = localIndex /\ len' = localLen /\ renormalizeCounter' = localCounter
    /\ UNCHANGED <<history, out, skip, slices, handed, merged>>
    /\ UNCHANGED <<errorVars, distances, block, decodes, localVars>>

SseStep ==
    \/ (WarmupRound \/ TailRound \/ Finish) /\ UNCHANGED localVars
    \/ Load \/ SseInnerRound \/ Store

SseNext ==
    \/ SseStep
    \/ (\E b \in Pending : Start(b)) /\ UNCHANGED localVars
    \/ Done /\ UNCHANGED localVars

\* As in DecodeSchedule: a call that has begun goes on.
SseSpec == SseInit /\ [][SseNext]_sseVars /\ WF_sseVars(SseStep)

-----------------------------------------------------------------------------
(* Properties.                                                             *)

\* The plain decoder at the interval of this one, whose ring is what the local
\* variables say while the inner loop runs.
InInner == phase = "inner"
Plain == INSTANCE ViterbiDecoder
             WITH ringIndex <- IF InInner THEN localIndex ELSE ringIndex,
                  len <- IF InInner THEN localLen ELSE len,
                  renormalizeCounter <- IF InInner THEN localCounter ELSE renormalizeCounter

\* With soft decisions the SSE decoder is the plain one, decision for decision,
\* metric for metric and bit for bit: going past the history buffer, the copies
\* of its fields, the signed comparison and the lookup of eight registers make
\* no difference (sse/cv_decode.c:6-10, 33-34, 97-226).
ImplementsPlain == Plain!Init /\ [][Plain!Next]_Plain!vars

\* "sse implementation unfortunately uses signed math on our unsigned values"
\* (sse/cv_decode.c:247): no sum the inner loop compares reaches the sign bit,
\* however many blocks share the renormalisation counter.
SumsStayPositive ==
    InInner /\ i < Schedule!InnerEnd =>
        \A r \in Registers : PathError(OctDistances, r) <= DistanceMax \div 2
=============================================================================

----------------------------- MODULE SseSchedule -----------------------------
(***************************************************************************)
(* DecodeSchedule with the inner loop of sse/cv_decode.c.  For hard        *)
(* decisions that loop works the distances of a slice out with a second    *)
(* loop over the same counter i, which leaves i at 2^rate whatever slice   *)
(* it was.                                                                 *)
(***************************************************************************)
EXTENDS DecodeSchedule

CONSTANTS Rate,
          MaxReads     \* bound: reads and decisions that the history counts

VARIABLES soft,       \* was the decode given soft decisions?
          measured    \* is the round past its loop over the outputs?

sseVars == <<scheduleVars, soft, measured>>

SseInit == Init /\ soft = FALSE /\ measured = FALSE

SseStart(n) == Start(n) /\ soft' \in BOOLEAN /\ UNCHANGED measured

\* bit_reader_read takes the next slice, behind the end of the block if need be;
\* the loop over the outputs ends with its counter at their number.
HardMeasure ==
    /\ phase = "inner"
    /\ ~soft
    /\ ~measured
    /\ i < InnerEnd
    /\ i' = 2^Rate
    /\ consumed' = IF Len(consumed) < MaxReads THEN Append(consumed, Len(consumed))
                   ELSE consumed
    /\ measured' = TRUE
    /\ UNCHANGED <<order, sets, phase, processed, soft>>

\* The rest of the round, and the increment of the outer loop.
HardRound ==
    /\ measured
    /\ i' = i + 1
    /\ processed' = IF processed < MaxReads THEN processed + 1 ELSE processed
    /\ measured' = FALSE
    /\ UNCHANGED <<order, sets, phase, consumed, soft>>

SseStep ==
    \/ /\ WarmupRound \/ WarmupEnd \/ TailRound \/ Finish
       /\ UNCHANGED <<soft, measured>>
    \/ soft /\ InnerRound /\ UNCHANGED <<soft, measured>>
    \/ HardMeasure \/ HardRound
    \/ ~measured /\ EndInner /\ UNCHANGED <<soft, measured>>

SseNext == SseStep \/ \E b \in Blocks : SseStart(b[2])

\* As in DecodeSchedule: a call that has begun goes on.
SseSpec == SseInit /\ [][SseNext]_sseVars /\ WF_sseVars(SseStep)

\* correct.h:97: "This function returns the number of bytes written to msg."
\* correct-sse.h:9: "SSE versions of libcorrect's convolutional encoder/decoder".
SseDecodeReturns == DecodeReturns
=============================================================================

--------------------------- MODULE DecodeSchedule ---------------------------
(***************************************************************************)
(* The control of a Viterbi decode (cv_decode.c): which time slice of the  *)
(* received block each loop iteration reads, and which iterations produce  *)
(* a decision slice, hence a bit.  A time slice is `rate` received bits.   *)
(*                                                                         *)
(* Three loops follow one another.  The warm-up reads a slice while the    *)
(* shift register fills with its first order-1 bits and produces nothing.  *)
(* The inner loop handles slices from order-1 on.  The tail handles the    *)
(* last order-1 slices, in which the encoder shifted in zeros.  The loop   *)
(* bounds are not related in the code: in a block of fewer than            *)
(* 2*(order-1) slices the warm-up and the tail overlap.                    *)
(***************************************************************************)
EXTENDS Integers, Sequences

CONSTANT Blocks   \* the <<order, sets>> of the codes and blocks considered

\* A block that correct_convolutional_encode made has at least order+1 slices,
\* and the shim hands in at least order-1 of them, so that
\* `sets - conv->order + 1` does not wrap around.
ASSUME BlocksAssumption ==
    \A b \in Blocks :
        /\ b[1] \in Nat \ {0}
        /\ b[2] \in Nat
        /\ b[2] >= b[1] - 1

VARIABLES order,      \* fixed when the codec is created
          sets,       \* slices in the block being decoded
          phase,      \* the loop being run
          i,          \* its counter
          consumed,   \* history variable: the slices read so far, in order
          processed   \* decision slices handed to the history buffer

scheduleVars == <<order, sets, phase, i, consumed, processed>>

-----------------------------------------------------------------------------
Init ==
    /\ \E b \in Blocks : order = b[1]
    /\ sets = 0
    /\ phase = "idle"
    /\ i = 0
    /\ consumed = <<>>
    /\ processed = 0

\* _convolutional_decode up to the first loop.
Start(n) ==
    /\ phase \in {"idle", "done"}
    /\ <<order, n>> \in Blocks
    /\ sets' = n
    /\ phase' = "warmup"
    /\ i' = 0
    /\ consumed' = <<>>
    /\ processed' = 0
    /\ UNCHANGED order

Read == i' = i + 1 /\ consumed' = Append(consumed, i)

WarmupRound ==
    /\ phase = "warmup"
    /\ i < order - 1
    /\ i < sets
    /\ Read
    /\ UNCHANGED <<order, sets, phase, processed>>

WarmupEnd ==
    /\ phase = "warmup"
    /\ ~ (i < order - 1 /\ i < sets)
    /\ phase' = "inner"
    /\ i' = order - 1
    /\ UNCHANGED <<order, sets, consumed, processed>>

\* Mutant: the inner loop keeps going into the zero tail's first slice.
InnerEnd_OneLate == sets - order + 2

\* The first slice of the tail.
InnerEnd == sets - order + 1

InnerRound ==
    /\ phase = "inner"
    /\ i < InnerEnd
    /\ Read
    /\ processed' = processed + 1
    /\ UNCHANGED <<order, sets, phase>>

\* Mutant: the tail starts one slice late.
TailStart_OneLate == sets - order + 2

TailStart == sets - order + 1

EndInner ==
    /\ phase = "inner"
    /\ ~ (i < InnerEnd)
    /\ phase' = "tail"
    /\ i' = TailStart
    /\ UNCHANGED <<order, sets, consumed, processed>>

\* Mutant: the tail's loop does not get past its last slice.
TailRound_Stuck ==
    /\ phase = "tail"
    /\ i < sets
    /\ IF i + 1 < sets
       THEN Read /\ processed' = processed + 1
       ELSE UNCHANGED <<i, consumed, processed>>
    /\ UNCHANGED <<order, sets, phase>>

TailRound ==
    /\ phase = "tail"
    /\ i < sets
    /\ Read
    /\ processed' = processed + 1
    /\ UNCHANGED <<order, sets, phase>>

\* history_buffer_flush and the return of the number of whole bytes.
Finish ==
    /\ phase = "tail"
    /\ ~ (i < sets)
    /\ phase' = "done"
    /\ UNCHANGED <<order, sets, i, consumed, processed>>

Step ==
    \/ WarmupRound \/ WarmupEnd
    \/ InnerRound \/ EndInner
    \/ TailRound \/ Finish

Next == Step \/ \E b \in Blocks : Start(b[2])

\* A decode is one uninterrupted call: it takes its next step unless the
\* thread is never scheduled.  Nobody is obliged to call decode again.
Spec == Init /\ [][Next]_scheduleVars /\ WF_scheduleVars(Step)

-----------------------------------------------------------------------------
(* Properties.                                                             *)

TypeOK ==
    /\ order \in {b[1] : b \in Blocks}
    /\ sets \in {0} \cup {b[2] : b \in Blocks}
    /\ phase \in {"idle", "warmup", "inner", "tail", "done"}
    /\ i \in Nat
    /\ consumed \in Seq(Nat)
    /\ processed \in Nat

\* The warm-up and the tail do not overlap.
LongBlock == sets >= 2 * (order - 1)

\* Warm-up, inner loop and tail between them read every slice of the block
\* exactly once and in order: the bounds of the three loops, each written on
\* its own (cv_decode.c:6, 41, 156), meet without a gap or an overlap.  In a
\* shorter block the tail goes back to slices that the warm-up has read.
EachSliceOnce ==
    LongBlock =>
        /\ consumed = [k \in 1 .. Len(consumed) |-> k - 1]
        /\ phase = "done" => Len(consumed) = sets

\* Every message bit of the block and the two spare zeros the encoder appends
\* beyond order-1 get one decision, so that the whole bytes returned
\* (cv_decode.c:276, bit.c:226) are exactly those of the message.  A block too
\* short for that still gets the order-1 decisions of the tail.
OneDecisionPerBit ==
    phase = "done" =>
        processed = IF LongBlock THEN sets - (order - 1) ELSE order - 1

\* A decode that was called returns (cv_decode.c:6, 41, 156: three counters
\* that only count up to their bound).
DecodeReturns == (phase = "warmup") ~> (phase = "done")
=============================================================================

--------------------------- MODULE ViterbiDecoder ---------------------------
(***************************************************************************)
(* correct_convolutional_decode and _decode_soft (cv_decode.c): the loops  *)
(* of DecodeSchedule drive the trellis search.  Each round reads the       *)
(* metrics of the round before from ErrorBuffer, picks for each state the  *)
(* better of the two paths into it, and hands the decisions and the new    *)
(* metrics to HistoryBuffer.  One codec object decodes block after block;  *)
(* the ring's contents and its renormalisation counter survive from one    *)
(* block to the next.                                                      *)
(***************************************************************************)
EXTENDS Trellis, FiniteSetsExt

CONSTANTS MinTraceback,     \* 5 * order in the code
          TracebackGroup,   \* 15 * order in the code, 100 * order in its SSE version
          RenormalizeInterval,
          Lengths,          \* how many slices a block may have
          Inputs,           \* blocks to decode: see InputsAssumption
          Repeated,         \* bound: the inputs that share a codec with others
          MaxDecodes        \* bound: blocks one codec object decodes

\* An input has the bits that were sent, the received symbols, whether they are
\* soft decisions, and the number of symbol bits the channel changed.
ASSUME LengthsAssumption ==
    \A n \in Lengths : n \in Nat /\ n >= 2 * (Order - 1)
ASSUME InputsAssumption ==
    \A b \in Inputs :
        /\ b.sent \in Seq({0, 1})
        /\ Len(b.symbols) = Len(b.sent)
        /\ Len(b.symbols) \in Lengths
        /\ b.soft \in BOOLEAN
        /\ \A k \in 1 .. Len(b.symbols) :
               b.symbols[k] \in [1 .. Rate -> IF b.soft THEN 0 .. SoftMax ELSE {0, SoftMax}]
        /\ b.flips \in Nat
ASSUME RingAssumption ==
    /\ MinTraceback \in Nat
    /\ TracebackGroup \in Nat \ {0}
    /\ RenormalizeInterval \in Nat \ {0}
ASSUME MaxDecodesAssumption == Repeated \subseteq Inputs /\ MaxDecodes \in Nat

VARIABLES order, sets, phase, i, consumed, processed,     \* DecodeSchedule
          errors, index, read, write,                     \* ErrorBuffer
          history, ringIndex, len, renormalizeCounter,    \* HistoryBuffer
          distances,     \* the write array as the last round left it
          out,           \* the bits handed to the bit writer
          skip, slices, handed, merged,                   \* as in HistoryBuffer
          block,         \* the block being decoded
          decodes        \* blocks started so far

scheduleVars == <<order, sets, phase, i, consumed, processed>>
errorVars    == <<errors, index, read, write>>
ringVars     == <<history, ringIndex, len, renormalizeCounter, out, skip,
                  slices, handed, merged>>
vars == <<scheduleVars, errorVars, ringVars, distances, block, decodes>>

Zero == [s \in States |-> 0]

\* distance_max / (rate * soft_max): so many rounds cannot use up the range.
PlainInterval == DistanceMax \div (Rate * SoftMax)

Schedule == INSTANCE DecodeSchedule
                WITH Blocks <- {Order} \X Lengths

Errors == INSTANCE ErrorBuffer
              WITH Metrics <- [States -> 0 .. DistanceMax],
                   rounds <- Len(consumed), last <- distances

Ring == INSTANCE HistoryBuffer
            WITH index <- ringIndex, SliceInputs <- {}, DistanceInputs <- {},
                 MaxSlices <- 0

-----------------------------------------------------------------------------
(* One round.                                                              *)

\* How far slice i of the block is from each output.
OutputDistances ==
    [y \in Outputs |-> Distance(y, block.symbols[i + 1], block.soft)]

\* distance_t arithmetic.
Sum(a, b) == (a + b) % (DistanceMax + 1)

\* Mutant: the branch is measured with the other predecessor's output.
LowRegister_Swapped(s) == s + Highbit

\* The two registers that lead to state s: its oldest bit is clear or set.
LowRegister(s)  == s
HighRegister(s) == s + Highbit

\* The distance of the slice to each register's output: from the table, or
\* through the pairs.
DirectDistances == LET dist == OutputDistances IN [r \in Registers |-> dist[Table[r]]]
PairDistances ==
    LET filled == FillDistance(PairOutputs, OutputDistances)
    IN  [r \in Registers |-> filled[PairKeys[r \div 2]][r % 2]]

\* The errors of the path through register r.
PathError(far, r) == Sum(far[r], errors[read][r \div 2])

\* The states a register can hold after i+1 bits.
Warm == 2^(i + 1)

\* convolutional_decode_warmup: one path into each state.
WarmupMetrics ==
    LET far == DirectDistances
    IN  [s \in States |-> IF s < Warm THEN PathError(far, LowRegister(s))
                          ELSE errors[write][s]]

LowErrors(far)  == [s \in States |-> PathError(far, LowRegister(s))]
HighErrors(far) == [s \in States |-> PathError(far, HighRegister(s))]

\* The survivor into state s.  On a tie the inner loop keeps the low path
\* (`<=`), the tail the high one (`<`).
Better(low, high, s, tie) ==
    IF low[s] < high[s] \/ (low[s] = high[s] /\ tie = 0)
    THEN [bit |-> 0, error |-> low[s]]
    ELSE [bit |-> 1, error |-> high[s]]

\* A round over the states that are multiples of `every`; the others keep
\* what the write array held.
Search(far, every, tie) ==
    LET low  == LowErrors(far)
        high == HighErrors(far)
        survivor == [s \in States |-> Better(low, high, s, tie)]
        metrics  == [s \in States |-> IF s % every = 0 THEN survivor[s].error
                                      ELSE errors[write][s]]
        slice    == [s \in States |-> survivor[s].bit]
    IN  /\ Ring!ProcessSkip(slice, metrics, every)
        /\ skip' = every
        /\ Errors!Round(distances')

\* 1 << (conv->order - (sets - i))
TailSkip == 2^(order - (sets - i))

-----------------------------------------------------------------------------
Init ==
    /\ order = Order
    /\ Schedule!Init
    /\ Errors!Init
    /\ Ring!Init
    /\ block = [sent |-> <<>>, symbols |-> <<>>, soft |-> FALSE, flips |-> 0]
    /\ decodes = 0

\* _convolutional_decode up to its first loop.
Start(b) ==
    /\ decodes < MaxDecodes
    /\ Schedule!Start(Len(b.symbols))
    /\ Errors!Reset
    /\ Ring!Reset
    /\ block' = b
    /\ decodes' = decodes + 1

WarmupRound ==
    /\ Schedule!WarmupRound
    /\ Errors!Round(WarmupMetrics)
    /\ UNCHANGED <<ringVars, block, decodes>>

LoopEnd ==
    /\ Schedule!WarmupEnd \/ Schedule!EndInner
    /\ UNCHANGED <<errorVars, ringVars, distances, block, decodes>>

\* Mutant: the inner loop advances by two slices.
InnerRound_Stride ==
    /\ phase = "inner"
    /\ i < Schedule!InnerEnd
    /\ i' = i + 2
    /\ consumed' = Append(consumed, i)
    /\ processed' = processed + 1
    /\ UNCHANGED <<order, sets, phase>>
    /\ Search(PairDistances, 1, 0)
    /\ UNCHANGED <<block, decodes>>

InnerRound ==
    /\ Schedule!InnerRound
    /\ Search(PairDistances, 1, 0)
    /\ UNCHANGED <<block, decodes>>

TailRound ==
    /\ Schedule!TailRound
    /\ Search(DirectDistances, TailSkip, 1)
    /\ UNCHANGED <<block, decodes>>

Finish ==
    /\ Schedule!Finish
    /\ Ring!Flush
    /\ UNCHANGED <<errorVars, block, decodes>>

Step == WarmupRound \/ LoopEnd \/ InnerRound \/ TailRound \/ Finish

Done ==
    /\ phase = "done"
    /\ decodes = MaxDecodes \/ block \notin Repeated
    /\ UNCHANGED vars

\* What may be decoded next.
Pending == IF decodes = 0 THEN Inputs
           ELSE IF block \in Repeated THEN Repeated ELSE {}

Next == Step \/ (\E b \in Pending : Start(b)) \/ Done

\* As in DecodeSchedule: a call that has begun goes on.
Spec == Init /\ [][Next]_vars /\ WF_vars(Step)

-----------------------------------------------------------------------------
(* Reference definitions: paths through the trellis, one by one.           *)

\* Bound: blocks of up to so many slices are compared with all their paths.
CONSTANT PathBound
ASSUME PathBoundAssumption == PathBound \in Nat

AllPaths(n) == [1 .. n -> {0, 1}]

\* The outputs along every path of up to PathBound slices.
PathOuts == [n \in 1 .. PathBound |-> [u \in AllPaths(n) |-> Outs(u)]]

\* The distances of the paths of n input bits from slices first..n of the block
\* (from 1).
PathDistances(n, first) ==
    LET far == [k \in 1 .. n |-> [y \in Outputs |->
                   IF k < first THEN 0 ELSE Distance(y, block.symbols[k], block.soft)]]
    IN  [u \in AllPaths(n) |-> Total([k \in 1 .. n |-> far[k][PathOuts[n][u][k]]])]

EndState(u) == RegisterAt(u, Len(u)) % Highbit

\* The states the last round wrote.
LiveStates ==
    IF phase = "warmup" THEN {s \in States : s < 2^i}
    ELSE {s \in States : s % (IF skip = 0 THEN Highbit ELSE skip) = 0}

\* Are the metrics the least distances of all paths to each live state from
\* slices first..i, but for one common offset?
LeastDistances(first) ==
    LET path == PathDistances(i, first)
        ends == {<<EndState(u), path[u]>> : u \in AllPaths(i)}
        least(s) == Min({e[2] : e \in {f \in ends : f[1] = s}})
    IN  Cardinality({errors[read][s] - least(s) : s \in LiveStates}) = 1

InLoop == phase \in {"warmup", "inner", "tail"} /\ i <= PathBound

-----------------------------------------------------------------------------
(* Properties.                                                             *)

\* After each round the metric of each live state is the least distance of
\* any path to it from the slices read so far, the first one excepted: no
\* uint16_t sum wraps, no renormalisation and no stale entry of the buffers
\* (from the round before last, or from an earlier block) changes a
\* comparison (cv_decode.c:32, 111-145, 195-216).
MetricsAreLeastDistances == InLoop /\ i >= 2 => LeastDistances(2)

\* The metrics are double-buffered in the decoder, whatever it writes and
\* whenever a new block begins (error_buffer.c:61-65 as cv_decode.c:36, 147, 216
\* use it).
DoubleBuffer == Errors!DoubleBuffer

\* What error_buffer.c:30-31 says: "the error metric is the aggregated number
\* of bit errors found at a given path", the first slice's errors included.
MetricsAggregateEverySlice == InLoop /\ i >= 2 => LeastDistances(1)

\* The decoded bits are a most likely message: no other message, with the
\* tail's zeros, is nearer to what was received (the first slice excepted),
\* whenever the survivors had met at each group traceback.
DecodesMostLikely ==
    phase = "done" /\ merged /\ sets <= PathBound =>
        LET n == sets - (order - 1)
            path == PathDistances(sets, 2)
            tail == Zeros(order - 1)
        IN  /\ Len(out) = n
            /\ \A u \in AllPaths(n) : path[out \o tail] <= path[u \o tail]

\* The free distance of the code: how many bits any two code words differ in.
CONSTANT FreeDistance

\* A block of a code of free distance d comes back as it was sent when the
\* channel changed fewer than half of d - Rate bits (Rate bits are lost with
\* the first slice), whatever block the codec decoded before.
RecoversMessage ==
    phase = "done" /\ 2 * block.flips < FreeDistance - Rate =>
        out = SubSeq(block.sent, 1, sets - (order - 1))

\* No traceback reads a decision that was not made in this block
\* (history_buffer.c:106-148 with cv_decode.c:187-215).
RingIsCurrent == Ring!RingHoldsUndecided /\ Ring!TracebackReadsWritten

\* The decoder's loops are those of DecodeSchedule, and a decode returns.
ImplementsSchedule == Schedule!Spec
=============================================================================

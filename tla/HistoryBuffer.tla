---------------------------- MODULE HistoryBuffer ----------------------------
(***************************************************************************)
(* history_buffer.c: the ring of decision slices of the Viterbi decoder,   *)
(* its renormalisation of path metrics and its traceback.                  *)
(*                                                                         *)
(* The caller fills the slice at `index` (history_buffer_get_slice), hands *)
(* in the metrics of the same round, and history_buffer_process_skip       *)
(* advances the ring, renormalises the metrics every RenormalizeInterval   *)
(* rounds and, when the ring is full, walks MinTraceback slices back from  *)
(* the best state and writes out the rest.  The caller (cv_decode.c) uses  *)
(* skip = 1 for every ordinary round; in the last Order-1 rounds only the  *)
(* states that are multiples of skip = 2, 4, ..., Highbit are written; *)
(* it then flushes, and the next decode resets the buffer and keeps its    *)
(* contents and its renormalisation counter.                               *)
(***************************************************************************)
EXTENDS Integers, Sequences

CONSTANTS Highbit,               \* the oldest bit; num_states has the same value
          MinTraceback,          \* min_traceback_length
          TracebackGroup,        \* traceback_group_length
          RenormalizeInterval,
          DistanceMax,           \* largest distance_t (USHRT_MAX)
          SliceInputs,           \* slices a caller may have filled in
          DistanceInputs,        \* metric arrays a caller may hand in
          MaxSlices              \* bound: rounds in one decode

ASSUME HighbitAssumption == Highbit \in Nat \ {0}
\* 1 << (order - 1)
ASSUME HighbitIsPower == \E k \in 0 .. Highbit : Highbit = 2^k
ASSUME MinTracebackAssumption == MinTraceback \in Nat
ASSUME TracebackGroupAssumption == TracebackGroup \in Nat \ {0}
ASSUME RenormalizeAssumption == RenormalizeInterval \in Nat \ {0}
ASSUME DistanceMaxAssumption == DistanceMax \in Nat
ASSUME MaxSlicesAssumption == MaxSlices \in Nat

VARIABLES history,             \* the ring: Cap slices
          index,               \* slot the next round writes
          len,                 \* slices in the ring that are not decided
          renormalizeCounter,
          distances,           \* the caller's metrics, as the call left them
          out,                 \* bits handed to the bit writer in this decode
          skip,                \* states written per round; 0 between decodes
          slices,              \* history variable: every slice of this decode
          handed,              \* history variable: the metrics as handed in
          merged               \* history variable: see SeamlessWhenMerged

ringVars  == <<history, index, len, renormalizeCounter, distances, out>>
ghostVars == <<skip, slices, handed, merged>>
vars      == <<ringVars, ghostVars>>

Stream == INSTANCE SurvivorStream

Cap    == MinTraceback + TracebackGroup
States == Stream!States
Slots  == 0 .. Cap - 1
Live(every)  == {s \in States : s % every = 0}
Decided(view, start, keep) == Stream!Decided(view, start, keep)
Walk(view, start) == Stream!Walk(view, start)

ASSUME InputsAssumption ==
    /\ SliceInputs \subseteq [States -> {0, 1}]
    /\ DistanceInputs \subseteq [States -> 0 .. DistanceMax]

-----------------------------------------------------------------------------
(* The helpers of the traceback.                                           *)

\* The slot after i.
NextIndex(i) == IF i + 1 = Cap THEN 0 ELSE i + 1

\* Mutant: walking back from slot 0 lands one slot short of the last one.
Back_ShortWrap(i, j) == IF j <= i THEN i - j ELSE (i + Cap - j - 1) % Cap

\* The slot reached by j decrements with wrap-around, for j <= Cap.
Back(i, j) == IF j <= i THEN i - j ELSE i + Cap - j

\* The newest n slices of the ring, newest first, when slot i is written next.
RingView(hist, i, n) == [j \in 1 .. n |-> hist[Back(i, j)]]

\* Mutant: the comparison of the search is the wrong way round.
Search_Largest(dist, every) ==
    CHOOSE s \in Live(every) :
        \A t \in Live(every) : dist[s] > dist[t] \/ (dist[s] = dist[t] /\ s <= t)

\* The first of the least distances among the states the round wrote.
Search(dist, every) ==
    CHOOSE s \in Live(every) :
        \A t \in Live(every) : dist[s] < dist[t] \/ (dist[s] = dist[t] /\ s <= t)

\* Every entry is lowered, the stale ones too, where uint16_t may wrap.
Renormalized(dist, best) ==
    [s \in States |-> (dist[s] - dist[best]) % (DistanceMax + 1)]

\* The slice the caller leaves: states it skips keep what an old round wrote.
Filled(slice, d, every) ==
    [s \in States |-> IF s % every = 0 THEN d[s] ELSE slice[s]]

\* Mutant: one slice too many survives a group traceback.
LenAfterTraceback_Keeps(n) == MinTraceback + 1

\* buf->len -= fetched_index, after a group traceback.
LenAfterTraceback(n) == n - (n - MinTraceback)

-----------------------------------------------------------------------------
TypeOK ==
    /\ history \in [Slots -> [States -> {0, 1}]]
    /\ index \in Slots
    /\ len \in Slots
    /\ renormalizeCounter \in 0 .. RenormalizeInterval - 1
    /\ distances \in [States -> 0 .. DistanceMax]
    /\ out \in Seq({0, 1})
    /\ skip \in Nat
    /\ slices \in Seq([States -> {0, 1}])
    /\ handed \in [States -> 0 .. DistanceMax]
    /\ merged \in BOOLEAN

Init ==
    /\ history = [i \in Slots |-> [s \in States |-> 0]]
    /\ index = 0
    /\ len = 0
    /\ renormalizeCounter = 0
    /\ distances = [s \in States |-> 0]
    /\ handed = distances
    /\ out = <<>>
    /\ skip = 0
    /\ slices = <<>>
    /\ merged = TRUE

\* history_buffer_reset, the first call of a decode, with a new output buffer.
\* Neither the slices in the ring nor the counter are cleared.
Reset ==
    /\ skip = 0
    /\ skip' = 1
    /\ len' = 0
    /\ index' = 0
    /\ out' = <<>>
    /\ slices' = <<>>
    /\ merged' = TRUE
    /\ UNCHANGED <<history, renormalizeCounter, distances, handed>>

\* Have the survivors of all live states met after MinTraceback slices?
Merged(view, every) ==
    \A s, t \in Live(every) :
        Walk(view, s)[MinTraceback] = Walk(view, t)[MinTraceback]

\* history_buffer_process_skip.
ProcessSkip(d, dist, every) ==
    LET filled == [history EXCEPT ![index] = Filled(history[index], d, every)]
        best   == Search(dist, every)
        view   == RingView(filled, NextIndex(index), len + 1)
    IN  /\ history' = filled
        /\ index' = NextIndex(index)
        /\ handed' = dist
        /\ IF renormalizeCounter + 1 = RenormalizeInterval
           THEN /\ renormalizeCounter' = 0
                /\ distances' = Renormalized(dist, best)
           ELSE /\ renormalizeCounter' = renormalizeCounter + 1
                /\ distances' = dist
        /\ IF len + 1 = Cap
           THEN /\ out' = out \o Decided(view, best, MinTraceback)
                /\ len' = LenAfterTraceback(len + 1)
                /\ merged' = (merged /\ Merged(view, every))
           ELSE /\ len' = len + 1
                /\ UNCHANGED <<out, merged>>
        /\ slices' = Append(slices, filled[index])

Process(d, dist) ==
    /\ skip = 1
    /\ Len(slices) < MaxSlices
    /\ ProcessSkip(d, dist, 1)
    /\ UNCHANGED skip

\* The rounds that shift in the zeros at the end: skip doubles each time.
ProcessTail(d, dist) ==
    /\ skip > 0
    /\ skip < Highbit
    /\ skip' = 2 * skip
    /\ ProcessSkip(d, dist, 2 * skip)

\* history_buffer_flush: the register holds zeros, so the path ends in state 0.
Flush ==
    /\ skip = Highbit
    /\ skip' = 0
    /\ out' = out \o Decided(RingView(history, index, len), 0, 0)
    /\ len' = 0
    /\ UNCHANGED <<history, index, renormalizeCounter, distances,
                   slices, handed, merged>>

Next ==
    \/ Reset
    \/ \E d \in SliceInputs, dist \in DistanceInputs :
           Process(d, dist) \/ ProcessTail(d, dist)
    \/ Flush

Spec == Init /\ [][Next]_vars

-----------------------------------------------------------------------------
(* Properties.                                                             *)

\* The ring forgets nothing it still needs: its newest `len` slices, read
\* backwards from `index` with wrap-around, are exactly the slices of this
\* decode that have no bit in the output yet, whatever an earlier decode left
\* in the other slots (history_buffer.c:106-135, 151, 155-161).
RingHoldsUndecided ==
    /\ Len(slices) = Len(out) + len
    /\ RingView(history, index, len) = Stream!Undecided(slices, out)

\* A traceback from any state of the last round only reads decisions which
\* that round or the rounds before it wrote, never an entry the zero tail
\* skipped and an older round left there (cv_decode.c:187-215 with
\* history_buffer.c:116-119).
TracebackReadsWritten ==
    LET view == RingView(history, index, len)
        every(j) == IF 2^(j - 1) <= skip THEN skip \div 2^(j - 1) ELSE 1
    IN  skip > 0 =>
            \A start \in Live(skip), j \in 1 .. len :
                Walk(view, start)[j - 1] % every(j) = 0

\* Group tracebacks are seamless: if at every group traceback the survivors
\* of all states had met within MinTraceback slices, the bits of a decode are
\* those of one traceback over its whole history from state 0, although they
\* were read in several bursts from different best states
\* (history_buffer.c:101-152, 179-191).
SeamlessWhenMerged ==
    (skip = 0 /\ merged) =>
        out = Decided(Stream!Undecided(slices, <<>>), 0, 0)

\* Renormalising never changes which of two live states is better, nor by how
\* much: no live metric wraps below zero (history_buffer.c:79-99), although
\* stale entries of the tail's rounds may.
RenormalizeKeepsDifferences ==
    slices # <<>> /\ skip > 0 =>
        \A s, t \in Live(skip) :
            distances[s] - distances[t] = handed[s] - handed[t]

\* The ring, its group tracebacks and its flush do what SurvivorStream says:
\* every slice is decided exactly once, in order, along a survivor path.
ImplementsStream == Stream!SSpec
=============================================================================

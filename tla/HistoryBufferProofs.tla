------------------------- MODULE HistoryBufferProofs -------------------------
(***************************************************************************)
(* Proofs about HistoryBuffer for every ring size, register width,         *)
(* renormalisation interval and every decision and metric a caller may     *)
(* hand in: type correctness, RingHoldsUndecided, the exactness of         *)
(* renormalisation, that the ring implements SurvivorStream, that group    *)
(* tracebacks are seamless and that they never read a skipped entry.       *)
(*                                                                         *)
(* The inductive invariant is IInv: the ring's undecided part is the end   *)
(* of the list of all slices (RingHoldsUndecided), which needs the bounds  *)
(* TypeOK puts on index and len, and len < Cap between two calls, so that  *)
(* the slot a round overwrites is never one of the undecided slices.       *)
(* SeamlessWhenMerged needs PathInv besides: the bits that are out lie on   *)
(* the survivor path of EVERY live state, which a round keeps because the  *)
(* states it writes come from states the round before it wrote (skip is a  *)
(* power of two that divides Highbit), and a group traceback because all   *)
(* survivors met.                                                          *)
(***************************************************************************)
EXTENDS HistoryBuffer, Recursion

IInv == TypeOK /\ RingHoldsUndecided

\* The part of it that does not speak of metrics: what a caller whose metrics
\* are not known to be in range can rely on.
RingInv ==
    /\ history \in [Slots -> [States -> {0, 1}]]
    /\ index \in Slots
    /\ len \in Slots
    /\ out \in Seq({0, 1})
    /\ slices \in Seq([States -> {0, 1}])
    /\ RingHoldsUndecided

\* RingInv is the part of the invariant that speaks of the ring.
LEMMA RingPart == IInv => RingInv
  BY DEF IInv, TypeOK, RingInv

-----------------------------------------------------------------------------
(* Lemmas about the operators.                                             *)

\* The caller's constants: the ring has a slot, the register a state.
LEMMA ConstantFacts ==
    /\ Cap \in Nat \ {0}
    /\ MinTraceback < Cap
    /\ 0 \in States
    /\ States \subseteq Nat
  BY MinTracebackAssumption, TracebackGroupAssumption, HighbitAssumption
     DEF Cap, States, Stream!States

\* The search finds a live state, and none of the live states is better.
LEMMA SearchFindsLeast ==
    ASSUME NEW dist \in [States -> 0 .. DistanceMax],
           NEW every \in Nat \ {0}
    PROVE  /\ Search(dist, every) \in Live(every)
           /\ \A t \in Live(every) : dist[Search(dist, every)] <= dist[t]
<1> DEFINE L == Live(every)
           D == {dist[s] : s \in L}
           Best(s) == \A t \in L : dist[s] < dist[t] \/ (dist[s] = dist[t] /\ s <= t)
<1>1. L \subseteq States /\ L \subseteq Nat
  BY ConstantFacts DEF Live
<1>2. 0 \in L
  <2>1. 0 % every = 0
    OBVIOUS
  <2> QED
    BY <2>1, ConstantFacts DEF Live
<1>3. \A s \in L : dist[s] \in Nat
  BY <1>1, DistanceMaxAssumption
<1>4. PICK m \in D : \A d \in D : m <= d
  <2>1. D \subseteq Nat /\ D # {}
    BY <1>2, <1>3
  <2> QED
    BY <2>1, LeastNatural
<1> DEFINE F == {s \in L : dist[s] = m}
<1>5. PICK b \in F : \A s \in F : b <= s
  <2>1. F \subseteq Nat /\ F # {}
    BY <1>1, <1>4
  <2> QED
    BY <2>1, LeastNatural
<1>6. b \in L /\ Best(b)
  <2>1. b \in L
    BY <1>5
  <2>2. ASSUME NEW t \in L
        PROVE  dist[b] < dist[t] \/ (dist[b] = dist[t] /\ b <= t)
    <3>1. dist[b] = m /\ m <= dist[t] /\ dist[t] \in Nat /\ m \in Nat
      BY <1>3, <1>4, <1>5
    <3>2. CASE dist[t] = m
      BY <3>1, <3>2, <1>5
    <3>3. CASE dist[t] # m
      BY <3>1, <3>3
    <3> QED
      BY <3>2, <3>3
  <2> QED
    BY <2>1, <2>2
<1>7. Search(dist, every) \in L /\ Best(Search(dist, every))
  <2>1. \E s \in L : Best(s)
    BY <1>6
  <2>2. Search(dist, every) = CHOOSE s \in L : Best(s)
    BY DEF Search
  <2> HIDE DEF L, Best
  <2> QED
    BY <2>1, <2>2
<1>8. \A t \in L : dist[Search(dist, every)] <= dist[t]
  BY <1>3, <1>7
<1> QED
  BY <1>7, <1>8

\* The slot after a slot is a slot.
LEMMA NextIndexType == \A i \in Slots : NextIndex(i) \in Slots
  BY ConstantFacts DEF NextIndex, Slots

\* Walking back at most Cap slots ends in a slot.
LEMMA BackType == \A i \in Slots : \A j \in 1 .. Cap : Back(i, j) \in Slots
  BY ConstantFacts DEF Back, Slots

\* One slot back from the next index is the index, and each slot further back
\* is one further from the index.
LEMMA BackAfterNext ==
    ASSUME NEW i \in Slots
    PROVE  /\ Back(NextIndex(i), 1) = i
           /\ \A j \in 1 .. Cap - 1 : Back(NextIndex(i), j + 1) = Back(i, j)
           /\ \A j \in 1 .. Cap - 1 : Back(i, j) # i
  BY ConstantFacts DEF Back, NextIndex, Slots

\* A slice stays a slice when a round fills it.
LEMMA FilledType ==
    ASSUME NEW slice \in [States -> {0, 1}], NEW d \in [States -> {0, 1}],
           NEW every
    PROVE  Filled(slice, d, every) \in [States -> {0, 1}]
  BY DEF Filled

\* Decided always yields a sequence of bits, one for each slice it keeps.
LEMMA DecidedType ==
    ASSUME NEW n \in Nat, NEW keep \in 0 .. n, NEW S,
           NEW view \in [1 .. n -> S], NEW start
    PROVE  /\ Decided(view, start, keep) \in Seq({0, 1})
           /\ Len(Decided(view, start, keep)) = n - keep
<1>1. Len(view) = n
  OBVIOUS
<1>2. n - keep \in Nat
  OBVIOUS
<1> DEFINE W == Walk(view, start)
           f == [k \in 1 .. n - keep |-> Stream!PathBit(view[n + 1 - k], W[n - k])]
<1>3. Decided(view, start, keep) = f
  BY <1>1 DEF Decided, Stream!Decided, Walk
<1>4. \A k \in 1 .. n - keep : Stream!PathBit(view[n + 1 - k], W[n - k]) \in {0, 1}
  BY DEF Stream!PathBit
<1>5. f \in [1 .. n - keep -> {0, 1}]
  <2> HIDE DEF W
  <2> QED
    BY <1>4
<1>6. f \in Seq({0, 1}) /\ Len(f) = n - keep
  <2> HIDE DEF f
  <2> QED
    BY <1>2, <1>5
<1> QED
  BY <1>3, <1>6
\* Renormalising by the least live metric subtracts exactly that metric from
\* every live one: no live metric wraps.
LEMMA RenormalizedExact ==
    ASSUME NEW dist \in [States -> 0 .. DistanceMax],
           NEW every \in Nat \ {0}
    PROVE  LET best == Search(dist, every)
           IN  /\ Renormalized(dist, best) \in [States -> 0 .. DistanceMax]
               /\ \A s \in Live(every) :
                      Renormalized(dist, best)[s] = dist[s] - dist[best]
<1> DEFINE best == Search(dist, every)
<1>1. best \in Live(every) /\ \A t \in Live(every) : dist[best] <= dist[t]
  BY SearchFindsLeast
<1>2. best \in States /\ Live(every) \subseteq States
  BY <1>1 DEF Live
<1>3. \A s \in States : dist[s] \in 0 .. DistanceMax
  OBVIOUS
<1>4. \A x \in Int : x % (DistanceMax + 1) \in 0 .. DistanceMax
  BY DistanceMaxAssumption
<1>5. \A x \in 0 .. DistanceMax : x % (DistanceMax + 1) = x
  BY DistanceMaxAssumption
<1> HIDE DEF best
<1>6. \A s \in States : dist[s] - dist[best] \in Int
  BY <1>2, <1>3, DistanceMaxAssumption
<1>7. \A s \in Live(every) : dist[s] - dist[best] \in 0 .. DistanceMax
  BY <1>1, <1>2, <1>3, DistanceMaxAssumption
<1>8. Renormalized(dist, best) \in [States -> 0 .. DistanceMax]
  BY <1>4, <1>6 DEF Renormalized
<1>9. \A s \in Live(every) : Renormalized(dist, best)[s] = dist[s] - dist[best]
  BY <1>2, <1>5, <1>7 DEF Renormalized
<1> QED
  BY <1>8, <1>9 DEF best

\* Concatenating two sequences over S.
LEMMA ConcatType ==
    ASSUME NEW S, NEW s \in Seq(S), NEW t \in Seq(S)
    PROVE  s \o t \in Seq(S) /\ Len(s \o t) = Len(s) + Len(t)
  OBVIOUS

\* Appending to a sequence over S an element of S.
LEMMA AppendType ==
    ASSUME NEW S, NEW s \in Seq(S), NEW e \in S
    PROVE  Append(s, e) \in Seq(S) /\ Len(Append(s, e)) = Len(s) + 1
  OBVIOUS

\* The lists and metrics of a round: the live entries of the new slice are the
\* decisions d, and the live metrics are those handed in, all lowered by the least
\* of them or none.
RoundRecorded(d, dist, every) ==
    /\ distances' \in [States -> 0 .. DistanceMax]
    /\ \E slice \in [States -> {0, 1}] :
           slices' = Append(slices, slice) /\ \A s \in Live(every) : slice[s] = d[s]
    /\ \/ distances' = dist /\ renormalizeCounter' = renormalizeCounter + 1
       \/ /\ renormalizeCounter' = 0
          /\ \E best \in Live(every) :
                 /\ \A t \in Live(every) : dist[best] <= dist[t]
                 /\ \A s \in Live(every) : distances'[s] = dist[s] - dist[best]

\* That is what a round does, whatever the ring holds.
LEMMA RoundMetrics ==
    ASSUME history \in [Slots -> [States -> {0, 1}]], index \in Slots,
           renormalizeCounter \in 0 .. RenormalizeInterval - 1,
           NEW d \in [States -> {0, 1}], NEW dist \in [States -> 0 .. DistanceMax],
           NEW every \in Nat \ {0}, ProcessSkip(d, dist, every)
    PROVE  /\ history' \in [Slots -> [States -> {0, 1}]] /\ index' \in Slots
           /\ renormalizeCounter' \in 0 .. RenormalizeInterval - 1
           /\ RoundRecorded(d, dist, every)
<1> DEFINE slice == Filled(history[index], d, every)
           best  == Search(dist, every)
<1>1. /\ history' = [history EXCEPT ![index] = slice]
      /\ index' = NextIndex(index)
      /\ slices' = Append(slices, [history EXCEPT ![index] = slice][index])
      /\ IF renormalizeCounter + 1 = RenormalizeInterval
         THEN renormalizeCounter' = 0 /\ distances' = Renormalized(dist, best)
         ELSE renormalizeCounter' = renormalizeCounter + 1 /\ distances' = dist
  BY DEF ProcessSkip
<1>2. slice \in [States -> {0, 1}] /\ \A s \in Live(every) : slice[s] = d[s]
  <2>1. history[index] \in [States -> {0, 1}]
    OBVIOUS
  <2> QED BY <2>1, FilledType DEF Filled, Live
<1> HIDE DEF slice
<1>3. /\ history' \in [Slots -> [States -> {0, 1}]] /\ index' \in Slots
      /\ slices' = Append(slices, slice)
  BY <1>1, <1>2, NextIndexType
<1>4. best \in Live(every) /\ \A t \in Live(every) : dist[best] <= dist[t]
  BY SearchFindsLeast
<1>5. /\ Renormalized(dist, best) \in [States -> 0 .. DistanceMax]
      /\ \A s \in Live(every) : Renormalized(dist, best)[s] = dist[s] - dist[best]
  BY RenormalizedExact
<1> HIDE DEF best
<1>6. RenormalizeInterval \in Nat \ {0}
  BY RenormalizeAssumption
<1>7. CASE renormalizeCounter + 1 = RenormalizeInterval
  <2>1. renormalizeCounter' = 0 /\ distances' = Renormalized(dist, best)
    BY <1>1, <1>7
  <2>2. 0 \in 0 .. RenormalizeInterval - 1
    BY <1>6
  <2>3. /\ distances' \in [States -> 0 .. DistanceMax]
        /\ \A s \in Live(every) : distances'[s] = dist[s] - dist[best]
    BY <1>5, <2>1
  <2> QED BY <1>2, <1>3, <1>4, <2>1, <2>2, <2>3 DEF RoundRecorded
<1>8. CASE renormalizeCounter + 1 # RenormalizeInterval
  <2>1. renormalizeCounter' \in 0 .. RenormalizeInterval - 1
    BY <1>1, <1>6, <1>8
  <2> QED BY <2>1, <1>1, <1>2, <1>3, <1>8 DEF RoundRecorded
<1> QED BY <1>7, <1>8

-----------------------------------------------------------------------------
(* The ring after a round.                                                 *)

\* Filling the slot at `index` and moving on puts the new slice in front of
\* the undecided ones and moves none of them.
LEMMA RingAdvances ==
    ASSUME RingInv,
           NEW slice \in [States -> {0, 1}]
    PROVE  LET hist == [history EXCEPT ![index] = slice]
           IN  RingView(hist, NextIndex(index), len + 1)
                   = Stream!Undecided(Append(slices, slice), out)
<1> DEFINE hist == [history EXCEPT ![index] = slice]
           view == RingView(hist, NextIndex(index), len + 1)
           all  == Append(slices, slice)
<1>1. /\ history \in [Slots -> [States -> {0, 1}]]
      /\ index \in Slots
      /\ len \in 0 .. Cap - 1
      /\ slices \in Seq([States -> {0, 1}])
      /\ out \in Seq({0, 1})
      /\ Cap \in Nat \ {0} /\ len \in Nat
      /\ Len(slices) \in Nat /\ Len(out) \in Nat
  BY ConstantFacts DEF RingInv, Slots
<1>2. /\ Len(slices) = Len(out) + len
      /\ \A j \in 1 .. len : history[Back(index, j)] = slices[Len(slices) + 1 - j]
  <2>1. Len(slices) - Len(out) = len
    BY <1>1 DEF RingInv, RingHoldsUndecided
  <2>2. \A j \in 1 .. len :
            RingView(history, index, len)[j] = Stream!Undecided(slices, out)[j]
    BY DEF RingInv, RingHoldsUndecided
  <2> QED
    BY <2>1, <2>2, <1>1 DEF RingView, Stream!Undecided, RingInv, RingHoldsUndecided
<1>3. Len(all) = Len(slices) + 1 /\ Len(all) - Len(out) = len + 1
  BY <1>1, <1>2
<1>4. ASSUME NEW j \in 1 .. len + 1
      PROVE  hist[Back(NextIndex(index), j)] = all[Len(all) + 1 - j]
  <2>1. CASE j = 1
    <3>1. Back(NextIndex(index), 1) = index
      BY <1>1, BackAfterNext
    <3> QED
      BY <1>1, <1>3, <2>1, <3>1
  <2>2. CASE j # 1
    <3>1. j - 1 \in 1 .. len /\ j - 1 \in 1 .. Cap - 1 /\ (j - 1) + 1 = j
      BY <1>1, <2>2
    <3>2. /\ Back(NextIndex(index), j) = Back(index, j - 1)
          /\ Back(index, j - 1) # index
      BY <1>1, <3>1, BackAfterNext
    <3>3. Back(index, j - 1) \in Slots
      BY <1>1, <3>1, BackType
    <3>4. hist[Back(NextIndex(index), j)] = history[Back(index, j - 1)]
      BY <1>1, <3>2, <3>3
    <3>5. history[Back(index, j - 1)] = slices[Len(slices) + 1 - (j - 1)]
      BY <1>2, <3>1
    <3>6. /\ Len(all) + 1 - j = Len(slices) + 1 - (j - 1)
          /\ Len(all) + 1 - j \in 1 .. Len(slices)
      BY <1>1, <1>2, <1>3, <2>2
    <3>7. all[Len(all) + 1 - j] = slices[Len(all) + 1 - j]
      BY <1>1, <3>6
    <3> QED
      BY <3>4, <3>5, <3>6, <3>7
  <2> QED
    BY <2>1, <2>2
<1>5. view = [j \in 1 .. len + 1 |-> hist[Back(NextIndex(index), j)]]
  BY DEF RingView
<1>6. Stream!Undecided(all, out) = [j \in 1 .. len + 1 |-> all[Len(all) + 1 - j]]
  BY <1>3 DEF Stream!Undecided
<1> HIDE DEF hist, all
<1>7. view = Stream!Undecided(all, out)
  BY <1>4, <1>5, <1>6
<1> QED
  BY <1>7 DEF hist, all

\* The newest n slices of a ring are what `bits` leaves undecided of `all`.
Holds(hist, i, n, all, bits) ==
    /\ Len(all) = Len(bits) + n
    /\ RingView(hist, i, n) = Stream!Undecided(all, bits)

\* After a group traceback the MinTraceback newest slices stay undecided: both
\* sides of RingHoldsUndecided lose their oldest entries and nothing else.
LEMMA RingShrinks ==
    ASSUME NEW hist, NEW i, NEW all, Len(all) \in Nat,
           NEW n \in Nat, NEW m \in 0 .. n,
           NEW bits \in Seq({0, 1}), NEW more \in Seq({0, 1}),
           Len(more) = n - m,
           Holds(hist, i, n, all, bits)
    PROVE  Holds(hist, i, m, all, bits \o more)
<1>0. /\ Len(all) = Len(bits) + n
      /\ RingView(hist, i, n) = Stream!Undecided(all, bits)
  BY DEF Holds
<1>1. Len(bits \o more) = Len(bits) + (n - m)
  OBVIOUS
<1>2. Len(all) = Len(bits \o more) + m
  BY <1>0, <1>1
<1>3. Len(all) - Len(bits) = n /\ Len(all) - Len(bits \o more) = m
  BY <1>0, <1>1
<1>4. \A j \in 1 .. n : hist[Back(i, j)] = all[Len(all) + 1 - j]
  <2>1. \A j \in 1 .. n : RingView(hist, i, n)[j] = Stream!Undecided(all, bits)[j]
    BY <1>0
  <2>2. \A j \in 1 .. n : RingView(hist, i, n)[j] = hist[Back(i, j)]
    BY DEF RingView
  <2>3. \A j \in 1 .. n : Stream!Undecided(all, bits)[j] = all[Len(all) + 1 - j]
    BY <1>3 DEF Stream!Undecided
  <2> QED
    BY <2>1, <2>2, <2>3
<1>5. \A j \in 1 .. m : hist[Back(i, j)] = all[Len(all) + 1 - j]
  BY <1>4
<1>6. RingView(hist, i, m) = Stream!Undecided(all, bits \o more)
  BY <1>3, <1>5 DEF RingView, Stream!Undecided
<1> QED
  BY <1>2, <1>6 DEF Holds
-----------------------------------------------------------------------------
(* One round: what history_buffer_process_skip does to the invariant and to *)
(* the stream.                                                              *)

\* Whatever the metrics are, a round keeps the ring, decides at most the slices
\* older than MinTraceback, and is a Record or a RecordAndDecide of the stream.
LEMMA RingRound ==
    ASSUME RingInv,
           NEW d \in [States -> {0, 1}], NEW dist, NEW every,
           ProcessSkip(d, dist, every)
    PROVE  LET slice == Filled(history[index], d, every)
           IN  /\ RingInv'
               /\ slice \in [States -> {0, 1}]
               /\ \/ Stream!Record(slice)
                  \/ Stream!RecordAndDecide(slice, Search(dist, every))
<1> DEFINE slice == Filled(history[index], d, every)
           hist  == [history EXCEPT ![index] = slice]
           best  == Search(dist, every)
           view  == RingView(hist, NextIndex(index), len + 1)
           burst == Decided(view, best, MinTraceback)
<1>1. /\ history \in [Slots -> [States -> {0, 1}]]
      /\ index \in Slots /\ len \in Slots /\ len \in Nat /\ len < Cap
      /\ slices \in Seq([States -> {0, 1}]) /\ Len(slices) \in Nat
      /\ out \in Seq({0, 1}) /\ Len(out) \in Nat
      /\ Cap \in Nat \ {0} /\ MinTraceback \in Nat /\ MinTraceback < Cap
      /\ Len(slices) = Len(out) + len
  BY ConstantFacts, MinTracebackAssumption
     DEF RingInv, Slots, RingHoldsUndecided
<1>2. slice \in [States -> {0, 1}]
  BY <1>1, FilledType
<1>3. hist \in [Slots -> [States -> {0, 1}]] /\ hist[index] = slice
  BY <1>1, <1>2
<1>4. NextIndex(index) \in Slots
  BY <1>1, NextIndexType
<1>6. view = Stream!Undecided(Append(slices, slice), out)
  BY <1>2, RingAdvances
<1>7. /\ slices' = Append(slices, slice)
      /\ slices' \in Seq([States -> {0, 1}])
      /\ Len(slices') = Len(out) + (len + 1)
  <2>1. slices' = Append(slices, slice)
    BY <1>3 DEF ProcessSkip
  <2>2. slices \in Seq([States -> {0, 1}]) /\ Len(slices) = Len(out) + len
    BY <1>1
  <2>3. /\ Append(slices, slice) \in Seq([States -> {0, 1}])
        /\ Len(Append(slices, slice)) = Len(slices) + 1
    BY <1>2, <2>2, AppendType
  <2> HIDE DEF slice
  <2> QED
    BY <1>1, <2>1, <2>2, <2>3
<1>8. /\ history' = hist
      /\ index' = NextIndex(index)
  BY DEF ProcessSkip
<1> HIDE DEF slice, hist, best, view, burst
<1>11. CASE len + 1 = Cap
  <2>1. /\ out' = out \o burst
        /\ len' = LenAfterTraceback(len + 1)
    BY <1>11 DEF ProcessSkip, slice, hist, best, view, burst
  <2>2. len' = MinTraceback
    BY <1>1, <2>1 DEF LenAfterTraceback
  <2>3. /\ burst \in Seq({0, 1})
        /\ Len(burst) = (len + 1) - MinTraceback
    <3>1. view \in [1 .. len + 1 -> {hist[i] : i \in Slots}]
      <4>1. ASSUME NEW j \in 1 .. len + 1
            PROVE  Back(NextIndex(index), j) \in Slots
        <5>1. j \in 1 .. Cap
          BY <1>1, <1>11
        <5> QED
          BY <1>4, <5>1, BackType
      <4> QED
        BY <4>1 DEF view, RingView
    <3>2. len + 1 \in Nat /\ MinTraceback \in 0 .. len + 1
      BY <1>1, <1>11
    <3> QED
      BY <3>1, <3>2, DecidedType DEF burst
  <2>4. out' \in Seq({0, 1})
    BY <1>1, <2>1, <2>3
  <2>6. RingHoldsUndecided'
    <3>1. /\ len + 1 \in Nat /\ MinTraceback \in 0 .. len + 1
      BY <1>1, <1>11
    <3>2. RingView(hist, NextIndex(index), len + 1) = Stream!Undecided(slices', out)
      BY <1>6, <1>7 DEF view
    <3>3. /\ Len(slices') = Len(out \o burst) + MinTraceback
          /\ RingView(hist, NextIndex(index), MinTraceback)
                 = Stream!Undecided(slices', out \o burst)
      <4> DEFINE i   == NextIndex(index)
                 n   == len + 1
                 m   == MinTraceback
                 all == slices'
      <4>1. /\ n \in Nat /\ m \in 0 .. n
            /\ out \in Seq({0, 1}) /\ burst \in Seq({0, 1})
            /\ Len(burst) = n - m
            /\ Len(all) \in Nat /\ Holds(hist, i, n, all, out)
        BY <1>1, <1>7, <2>3, <3>1, <3>2 DEF Holds
      <4> HIDE DEF i, n, m, all
      <4>2. Holds(hist, i, m, all, out \o burst)
        BY <4>1, RingShrinks
      <4> QED
        BY <4>2 DEF i, m, all, Holds
    <3>4. Stream!Undecided(slices, out)' = Stream!Undecided(slices', out')
      BY DEF Stream!Undecided
    <3> QED
      BY <1>8, <2>1, <2>2, <3>3, <3>4 DEF RingHoldsUndecided, RingView, Back
  <2>7. RingInv'
    BY <1>1, <1>3, <1>4, <1>7, <1>8, <2>2, <2>4, <2>6 DEF RingInv, Slots
  <2>8. Stream!RecordAndDecide(slice, best)
    <3>1. Len(slices') - Len(out) > MinTraceback
      BY <1>1, <1>7, <1>11
    <3> QED
      BY <1>6, <1>7, <2>1, <3>1 DEF Stream!RecordAndDecide, burst, Decided
  <2> QED
    BY <1>2, <2>7, <2>8 DEF best, slice
<1>12. CASE len + 1 # Cap
  <2>1. len' = len + 1 /\ out' = out
    BY <1>12 DEF ProcessSkip
  <2>2. RingHoldsUndecided'
    BY <1>6, <1>7, <1>8, <2>1
       DEF RingHoldsUndecided, RingView, Back, view, Stream!Undecided
  <2>3. RingInv'
    BY <1>1, <1>3, <1>4, <1>7, <1>8, <1>12, <2>1, <2>2 DEF RingInv, Slots
  <2>4. Stream!Record(slice)
    BY <1>7, <2>1 DEF Stream!Record
  <2> QED
    BY <1>2, <2>3, <2>4 DEF slice
<1> QED
  BY <1>11, <1>12 DEF slice

\* With metrics in range the round keeps all of the invariant.
LEMMA ProcessSkipStep ==
    ASSUME IInv, skip' \in Nat,
           NEW d \in [States -> {0, 1}],
           NEW dist \in [States -> 0 .. DistanceMax],
           NEW every \in Nat \ {0},
           ProcessSkip(d, dist, every)
    PROVE  IInv' /\ Stream!SNext
<1> DEFINE best == Search(dist, every)
<1>1. renormalizeCounter \in 0 .. RenormalizeInterval - 1 /\ merged \in BOOLEAN
  BY DEF IInv, TypeOK
<1>2. /\ RingInv'
      /\ Filled(history[index], d, every) \in [States -> {0, 1}]
      /\ \/ Stream!Record(Filled(history[index], d, every))
         \/ Stream!RecordAndDecide(Filled(history[index], d, every), best)
  BY RingPart, RingRound
<1>3. best \in States
  BY SearchFindsLeast DEF Live
<1>4. handed' = dist /\ merged' \in BOOLEAN
  BY <1>1 DEF ProcessSkip
<1>5. /\ distances' \in [States -> 0 .. DistanceMax]
      /\ renormalizeCounter' \in 0 .. RenormalizeInterval - 1
  <2>1. CASE renormalizeCounter + 1 = RenormalizeInterval
    <3>1. renormalizeCounter' = 0 /\ distances' = Renormalized(dist, best)
      BY <2>1 DEF ProcessSkip
    <3> QED
      BY <3>1, RenormalizedExact, RenormalizeAssumption
  <2>2. CASE renormalizeCounter + 1 # RenormalizeInterval
    <3>1. renormalizeCounter' = renormalizeCounter + 1 /\ distances' = dist
      BY <2>2 DEF ProcessSkip
    <3> QED
      BY <1>1, <2>2, <3>1, RenormalizeAssumption
  <2> QED
    BY <2>1, <2>2
<1>6. IInv'
  BY <1>2, <1>4, <1>5 DEF IInv, TypeOK, RingInv
<1> QED
  BY <1>2, <1>3, <1>6 DEF Stream!SNext, Stream!Slices, States
-----------------------------------------------------------------------------
(* The initial state and the other actions.                                *)

\* A new buffer satisfies the invariant and starts an empty stream.
LEMMA InitStep == Init => IInv /\ Stream!SInit
<1> SUFFICES ASSUME Init PROVE IInv /\ Stream!SInit
  OBVIOUS
<1>1. /\ Cap \in Nat \ {0} /\ 0 \in Slots
      /\ DistanceMax \in Nat
      /\ RenormalizeInterval \in Nat \ {0}
  BY ConstantFacts, DistanceMaxAssumption, RenormalizeAssumption DEF Slots
<1>2. TypeOK
  BY <1>1 DEF Init, TypeOK
<1>3. RingHoldsUndecided
  <2>1. Len(slices) = 0 /\ Len(out) = 0 /\ len = 0
    BY DEF Init
  <2> QED
    BY <2>1 DEF RingHoldsUndecided, RingView, Stream!Undecided
<1> QED
  BY <1>2, <1>3 DEF IInv, Init, Stream!SInit

\* history_buffer_reset starts an empty stream over whatever the ring holds.
LEMMA RingReset == RingInv /\ Reset => RingInv' /\ Stream!SNext
<1> SUFFICES ASSUME RingInv, Reset PROVE RingInv' /\ Stream!SNext
  OBVIOUS
<1>1. 0 \in Slots
  BY ConstantFacts DEF Slots
<1>2. RingHoldsUndecided'
  <2>1. Len(slices') = 0 /\ Len(out') = 0 /\ len' = 0
    BY DEF Reset
  <2> QED
    BY <2>1 DEF RingHoldsUndecided, RingView, Stream!Undecided
<1>3. Stream!Restart
  BY DEF Reset, Stream!Restart
<1> QED
  BY <1>1, <1>2, <1>3 DEF RingInv, Reset, Stream!SNext

\* history_buffer_flush decides every slice that is left.
LEMMA RingFlush == RingInv /\ Flush => RingInv' /\ Stream!SNext
<1> SUFFICES ASSUME RingInv, Flush PROVE RingInv' /\ Stream!SNext
  OBVIOUS
<1> DEFINE view == RingView(history, index, len)
           burst == Decided(view, 0, 0)
<1>1. /\ len \in Nat /\ len < Cap /\ index \in Slots /\ Cap \in Nat
      /\ out \in Seq({0, 1}) /\ Len(out) \in Nat
      /\ Len(slices) \in Nat /\ Len(slices) = Len(out) + len
      /\ view = Stream!Undecided(slices, out)
      /\ 0 \in Slots
  BY ConstantFacts DEF RingInv, Slots, RingHoldsUndecided
<1>2. out' = out \o burst /\ len' = 0 /\ slices' = slices /\ skip' = 0
  BY DEF Flush
<1>3. burst \in Seq({0, 1}) /\ Len(burst) = len
  <2>1. ASSUME NEW j \in 1 .. len
        PROVE  Back(index, j) \in Slots
    <3>1. j \in 1 .. Cap
      BY <1>1
    <3> QED
      BY <1>1, <3>1, BackType
  <2>2. view \in [1 .. len -> {history[i] : i \in Slots}]
    BY <2>1 DEF RingView
  <2>3. 0 \in 0 .. len /\ len - 0 = len
    BY <1>1
  <2> QED
    BY <1>1, <2>2, <2>3, DecidedType
<1> HIDE DEF view, burst
<1>4. out' \in Seq({0, 1}) /\ Len(out') = Len(slices')
  <2>1. out \o burst \in Seq({0, 1}) /\ Len(out \o burst) = Len(out) + Len(burst)
    BY <1>1, <1>3, ConcatType
  <2> QED
    BY <1>1, <1>2, <1>3, <2>1
<1>6. RingHoldsUndecided'
  <2>1. /\ Len(slices') = Len(out') + len'
        /\ Len(slices') - Len(out') = 0
    BY <1>1, <1>2, <1>4
  <2> QED
    BY <1>2, <2>1 DEF RingHoldsUndecided, RingView, Stream!Undecided
<1>7. Stream!Finish
  BY <1>1, <1>2 DEF Stream!Finish, burst, Decided
<1> QED
  BY <1>1, <1>2, <1>4, <1>6, <1>7 DEF RingInv, Flush, Stream!SNext

\* With the types, both keep all of the invariant.
LEMMA ResetStep == IInv /\ Reset => IInv' /\ Stream!SNext
  BY RingPart, RingReset DEF IInv, TypeOK, RingInv, Reset

\* The flush keeps the invariant.
LEMMA FlushStep == IInv /\ Flush => IInv' /\ Stream!SNext
  BY RingPart, RingFlush DEF IInv, TypeOK, RingInv, Flush

\* Every step keeps the invariant and is a step of the stream or a stutter.
LEMMA NextStep == IInv /\ [Next]_vars => IInv' /\ [Stream!SNext]_Stream!sVars
<1> SUFFICES ASSUME IInv, [Next]_vars
             PROVE  IInv' /\ [Stream!SNext]_Stream!sVars
  OBVIOUS
<1>1. CASE Reset
  BY <1>1, ResetStep
<1>2. ASSUME NEW d \in SliceInputs, NEW dist \in DistanceInputs,
             Process(d, dist)
      PROVE  IInv' /\ Stream!SNext
  <2>1. skip' \in Nat
    BY <1>2 DEF Process, IInv, TypeOK
  <2> QED
    BY <1>2, <2>1, InputsAssumption, ProcessSkipStep DEF Process
<1>3. ASSUME NEW d \in SliceInputs, NEW dist \in DistanceInputs,
             ProcessTail(d, dist)
      PROVE  IInv' /\ Stream!SNext
  <2>1. skip' \in Nat /\ 2 * skip \in Nat \ {0}
    BY <1>3 DEF ProcessTail, IInv, TypeOK
  <2> QED
    BY <1>3, <2>1, InputsAssumption, ProcessSkipStep DEF ProcessTail
<1>4. CASE Flush
  BY <1>4, FlushStep
<1>5. CASE UNCHANGED vars
  <2>1. IInv'
    BY <1>5 DEF IInv, TypeOK, RingHoldsUndecided, RingView, Back,
                Stream!Undecided, vars, ringVars, ghostVars
  <2>2. UNCHANGED Stream!sVars
    BY <1>5 DEF vars, ringVars, ghostVars, Stream!sVars
  <2> QED
    BY <2>1, <2>2
<1> QED
  BY <1>1, <1>2, <1>3, <1>4, <1>5 DEF Next

-----------------------------------------------------------------------------
(* Survivor paths.                                                         *)

\* Going one slice back ends in a state.
LEMMA PredecessorType ==
    ASSUME NEW slice, NEW s \in States
    PROVE  /\ Stream!Predecessor(slice, s) \in States
           /\ Stream!PathBit(slice, s) \in {0, 1}
<1> DEFINE bit == Stream!PathBit(slice, s)
<1>1. bit \in {0, 1}
  BY DEF Stream!PathBit
<1> HIDE DEF bit
<1>2. s \in Nat /\ s < Highbit /\ Highbit \in Nat
  BY HighbitAssumption DEF States, Stream!States
<1>3. bit * Highbit = 0 \/ bit * Highbit = Highbit
  BY <1>1, <1>2
<1>4. (s + bit * Highbit) \div 2 \in 0 .. Highbit - 1
  BY <1>2, <1>3
<1> QED
  BY <1>1, <1>4 DEF bit, Stream!Predecessor, States, Stream!States

\* The recursion of the walk.
LEMMA WalkDef ==
    ASSUME NEW view, Len(view) \in Nat, NEW start \in States
    PROVE  /\ Walk(view, start) \in [0 .. Len(view) -> States]
           /\ Walk(view, start)[0] = start
           /\ \A j \in 1 .. Len(view) :
                  Walk(view, start)[j]
                      = Stream!Predecessor(view[j], Walk(view, start)[j - 1])
<1> DEFINE n == Len(view)
           g == [p \in (1 .. n) \X States |-> Stream!Predecessor(view[p[1]], p[2])]
           Is(f) == f = [j \in 0 .. n |->
                            IF j = 0 THEN start
                            ELSE Stream!Predecessor(view[j], f[j - 1])]
<1>1. \A j \in 1 .. n, s \in States : g[<<j, s>>] \in States
  BY PredecessorType
<1>2. \A j \in 1 .. n, s \in States :
          g[<<j, s>>] = Stream!Predecessor(view[j], s)
  OBVIOUS
<1>3. PICK f \in [0 .. n -> States] :
          f[0] = start /\ \A j \in 1 .. n : f[j] = g[<<j, f[j - 1]>>]
  <2>1. StepOn(g, n, States)
    BY <1>1 DEF StepOn
  <2>2. n \in Nat
    OBVIOUS
  <2> HIDE DEF g, n
  <2>3. \E f : Follows(f, g, n, States, start)
    BY <2>1, <2>2, RecursionExists
  <2> QED
    BY <2>3 DEF Follows
<1>4. \A j \in 1 .. n : f[j] = Stream!Predecessor(view[j], f[j - 1])
  <2> SUFFICES ASSUME NEW j \in 1 .. n
               PROVE  f[j] = Stream!Predecessor(view[j], f[j - 1])
    OBVIOUS
  <2>1. f[j - 1] \in States
    OBVIOUS
  <2>2. g[<<j, f[j - 1]>>] = Stream!Predecessor(view[j], f[j - 1])
    BY <1>2, <2>1
  <2>3. f[j] = g[<<j, f[j - 1]>>]
    BY <1>3
  <2> QED
    BY <2>2, <2>3
<1>5. Is(f)
  BY <1>3, <1>4
<1>6. Walk(view, start) = CHOOSE h : Is(h)
  BY DEF Walk, Stream!Walk
<1>7. Is(Walk(view, start))
  <2> HIDE DEF Is
  <2> QED
    BY <1>5, <1>6
<1> DEFINE W == Walk(view, start)
<1> HIDE DEF W
<1>8. W = [j \in 0 .. n |-> IF j = 0 THEN start
                            ELSE Stream!Predecessor(view[j], W[j - 1])]
  BY <1>7 DEF W
<1>9. W[0] = start /\ \A j \in 1 .. n : W[j] = Stream!Predecessor(view[j], W[j - 1])
  BY <1>8
<1>10. W \in [0 .. n -> States]
  <2> DEFINE A == {j \in Nat : j <= n => W[j] \in States}
  <2>1. 0 \in A
    BY <1>9
  <2>2. ASSUME NEW j \in Nat, j \in A PROVE j + 1 \in A
    <3> SUFFICES ASSUME j + 1 <= n PROVE W[j + 1] \in States
      OBVIOUS
    <3>1. W[j] \in States /\ j + 1 \in 1 .. n /\ (j + 1) - 1 = j
      BY <2>2
    <3> QED
      BY <1>9, <3>1, PredecessorType
  <2>3. \A j \in Nat : j \in A
    <3> HIDE DEF A
    <3> QED
      BY <2>1, <2>2, SetInduction
  <2> QED
    BY <1>8, <2>3
<1> QED
  BY <1>9, <1>10 DEF W

\* Beyond place a, the view v holds the slices of the view u beyond place b.
SlicesAgree(v, a, u, b) ==
    \A j \in 1 .. Len(v) : a < j /\ j - a + b <= Len(u) => v[j] = u[j - a + b]

\* From place a on, the path from s in v is that from t in u from place b on.
PathsAgree(v, s, a, u, t, b) ==
    \A j \in a .. Len(v) : j - a + b <= Len(u) =>
        Walk(v, s)[j] = Walk(u, t)[j - a + b]

\* Two paths that meet stay together as long as they walk over equal slices,
\* wherever in their views these lie.
LEMMA PathsMeet ==
    ASSUME NEW v, Len(v) \in Nat, NEW s \in States,
           NEW u, Len(u) \in Nat, NEW t \in States,
           NEW a \in 0 .. Len(v), NEW b \in 0 .. Len(u),
           Walk(v, s)[a] = Walk(u, t)[b],
           SlicesAgree(v, a, u, b)
    PROVE  PathsAgree(v, s, a, u, t, b)
<1> DEFINE n == Len(v)
           m == Len(u)
           V == Walk(v, s)
           U == Walk(u, t)
           A == {k \in Nat : a + k <= n /\ b + k <= m => V[a + k] = U[b + k]}
<1>1. /\ \A j \in 1 .. n : V[j] = Stream!Predecessor(v[j], V[j - 1])
      /\ \A j \in 1 .. m : U[j] = Stream!Predecessor(u[j], U[j - 1])
  <2>1. \A j \in 1 .. n : V[j] = Stream!Predecessor(v[j], V[j - 1])
    BY WalkDef
  <2>2. \A j \in 1 .. m : U[j] = Stream!Predecessor(u[j], U[j - 1])
    BY WalkDef
  <2> QED
    BY <2>1, <2>2
<1>2. V[a] = U[b]
  OBVIOUS
<1>0. /\ n \in Nat /\ m \in Nat /\ a \in 0 .. n /\ b \in 0 .. m
      /\ \A j \in 1 .. n : a < j /\ j - a + b <= m => v[j] = u[j - a + b]
  BY DEF SlicesAgree
<1> HIDE DEF V, U, n, m
<1>3. 0 \in A
  BY <1>2
<1>4. ASSUME NEW k \in Nat, k \in A PROVE k + 1 \in A
  <2> SUFFICES ASSUME a + (k + 1) <= n, b + (k + 1) <= m
               PROVE  V[a + (k + 1)] = U[b + (k + 1)]
    OBVIOUS
  <2>1. /\ a + (k + 1) \in 1 .. n /\ (a + (k + 1)) - 1 = a + k
        /\ b + (k + 1) \in 1 .. m /\ (b + (k + 1)) - 1 = b + k
        /\ (a + (k + 1)) - a + b = b + (k + 1)
        /\ V[a + k] = U[b + k]
    BY <1>4, <1>0
  <2>2. v[a + (k + 1)] = u[b + (k + 1)]
    <3> DEFINE j == a + (k + 1)
    <3>1. j \in 1 .. n /\ a < j /\ j - a + b <= m /\ j - a + b = b + (k + 1)
      BY <1>0, <2>1
    <3> HIDE DEF j
    <3>2. v[j] = u[j - a + b]
      BY <1>0, <3>1
    <3> QED
      BY <3>1, <3>2 DEF j
  <2> QED
    BY <1>1, <2>1, <2>2
<1>5. \A k \in Nat : k \in A
  <2> HIDE DEF A
  <2> QED
    BY <1>3, <1>4, SetInduction
<1>6. \A j \in a .. n : j - a + b <= m => V[j] = U[j - a + b]
  <2> SUFFICES ASSUME NEW j \in a .. n, j - a + b <= m
               PROVE  V[j] = U[j - a + b]
    OBVIOUS
  <2>1. /\ j - a \in Nat /\ a + (j - a) = j /\ b + (j - a) = j - a + b
        /\ a + (j - a) <= n /\ b + (j - a) <= m
    BY <1>0
  <2>2. j - a \in A
    BY <1>5, <2>1
  <2>3. V[a + (j - a)] = U[b + (j - a)]
    BY <2>1, <2>2
  <2> QED
    BY <2>1, <2>3
<1> QED
  BY <1>6 DEF V, U, n, m, PathsAgree

\* Every slice of a decode, newest first, and the bit that slice k puts out on
\* the survivor path that ends in s.
Full(all) == Stream!Undecided(all, <<>>)
BitAt(all, s, k) == Stream!PathBit(all[k], Walk(Full(all), s)[Len(all) - k])

\* The fuller invariant has the ring's in it.
LEMMA FullFacts ==
    ASSUME NEW all, Len(all) \in Nat
    PROVE  /\ Len(Full(all)) = Len(all)
           /\ \A j \in 1 .. Len(all) : Full(all)[j] = all[Len(all) + 1 - j]
<1>1. Len(<<>>) = 0 /\ Len(all) - 0 = Len(all)
  OBVIOUS
<1> QED
  BY <1>1 DEF Full, Stream!Undecided

\* The ring's view is the newest part of the full view.
LEMMA ViewFacts ==
    ASSUME NEW all, Len(all) \in Nat,
           NEW bits, Len(bits) \in 0 .. Len(all)
    PROVE  /\ Len(Stream!Undecided(all, bits)) = Len(all) - Len(bits)
           /\ \A j \in 1 .. Len(all) - Len(bits) :
                  Stream!Undecided(all, bits)[j] = all[Len(all) + 1 - j]
<1>1. Len(all) - Len(bits) \in Nat
  OBVIOUS
<1> QED
  BY <1>1 DEF Stream!Undecided

\* A new slice moves the survivor path of a state back to its predecessor: the
\* bits of the older slices are those of the predecessor's path.
LEMMA PathExtends ==
    ASSUME NEW S, NEW all \in Seq(S), NEW d \in S, NEW s \in States,
           NEW k \in 1 .. Len(all)
    PROVE  BitAt(Append(all, d), s, k) = BitAt(all, Stream!Predecessor(d, s), k)
<1> DEFINE more == Append(all, d)
           p == Stream!Predecessor(d, s)
           v == Full(more)
           u == Full(all)
           n == Len(all)
<1>1. /\ more \in Seq(S) /\ Len(more) = n + 1 /\ n \in Nat
      /\ more[n + 1] = d
      /\ \A j \in 1 .. n : more[j] = all[j]
  OBVIOUS
<1>2. p \in States
  BY PredecessorType
<1> HIDE DEF more, p
<1>4. /\ Len(u) = n
      /\ \A j \in 1 .. n : u[j] = all[n + 1 - j]
  BY <1>1, FullFacts
<1>5. /\ Len(v) = n + 1
      /\ \A j \in 1 .. n + 1 : v[j] = more[(n + 1) + 1 - j]
  <2>1. /\ Len(v) = Len(more)
        /\ \A j \in 1 .. Len(more) : v[j] = more[Len(more) + 1 - j]
    BY <1>1, FullFacts
  <2> QED
    BY <1>1, <2>1
<1> HIDE DEF u, v, n
<1>6. v[1] = d /\ \A j \in 2 .. n + 1 : v[j] = u[j - 1 + 0]
  <2>1. v[1] = d
    BY <1>1, <1>5
  <2>2. ASSUME NEW j \in 2 .. n + 1 PROVE v[j] = u[j - 1 + 0]
    <3>1. /\ j \in 1 .. n + 1 /\ j - 1 \in 1 .. n
          /\ (n + 1) + 1 - j \in 1 .. n
          /\ (n + 1) + 1 - j = n + 1 - (j - 1)
          /\ j - 1 + 0 = j - 1
      BY <1>1
    <3>2. v[j] = more[(n + 1) + 1 - j] /\ u[j - 1] = all[n + 1 - (j - 1)]
      BY <1>4, <1>5, <3>1
    <3> QED
      BY <1>1, <3>1, <3>2
  <2> QED
    BY <2>1, <2>2
<1>7. Walk(v, s)[1] = Walk(u, p)[0]
  <2>1. Len(v) \in Nat /\ Len(u) \in Nat /\ 1 \in 1 .. Len(v) /\ 1 - 1 = 0
    BY <1>1, <1>4, <1>5
  <2>2. /\ Walk(v, s)[0] = s
        /\ \A j \in 1 .. Len(v) : Walk(v, s)[j] = Stream!Predecessor(v[j], Walk(v, s)[j - 1])
    BY <2>1, WalkDef
  <2>3. Walk(u, p)[0] = p
    BY <1>2, <2>1, WalkDef
  <2>4. Walk(v, s)[1] = Stream!Predecessor(v[1], Walk(v, s)[1 - 1])
    BY <2>1, <2>2
  <2> QED
    BY <1>6, <2>1, <2>2, <2>3, <2>4 DEF p
<1>8. \A j \in 1 .. n + 1 : j - 1 + 0 <= n => Walk(v, s)[j] = Walk(u, p)[j - 1 + 0]
  <2>1. /\ Len(v) \in Nat /\ Len(u) \in Nat
        /\ 1 \in 0 .. Len(v) /\ 0 \in 0 .. Len(u)
    BY <1>1, <1>4, <1>5
  <2>2. SlicesAgree(v, 1, u, 0)
    BY <1>1, <1>4, <1>5, <1>6 DEF SlicesAgree
  <2>3. PathsAgree(v, s, 1, u, p, 0)
    BY <1>2, <1>7, <2>1, <2>2, PathsMeet
  <2> QED
    BY <1>4, <1>5, <2>3 DEF PathsAgree
<1>9. k \in 1 .. n /\ n + 1 - k \in 1 .. n + 1 /\ n + 1 - k - 1 + 0 = n - k
  BY <1>1 DEF n
<1>10. Walk(v, s)[n + 1 - k] = Walk(u, p)[n - k]
  BY <1>1, <1>8, <1>9
<1>11. /\ BitAt(more, s, k) = Stream!PathBit(more[k], Walk(v, s)[Len(more) - k])
       /\ BitAt(all, p, k) = Stream!PathBit(all[k], Walk(u, p)[n - k])
  BY DEF BitAt, v, u, n
<1> QED
  BY <1>1, <1>9, <1>10, <1>11 DEF more, p

\* What one traceback decides lies on the survivor path of every state whose
\* path has met the one walked by the time it starts to decide.
LEMMA BurstIsPath ==
    ASSUME NEW all, Len(all) \in Nat, NEW bits, Len(bits) \in 0 .. Len(all),
           NEW s \in States, NEW t \in States,
           NEW keep \in 0 .. Len(all) - Len(bits),
           Walk(Stream!Undecided(all, bits), t)[keep]
               = Walk(Stream!Undecided(all, bits), s)[keep],
           NEW k \in Len(bits) + 1 .. Len(all) - keep
    PROVE  Decided(Stream!Undecided(all, bits), t, keep)[k - Len(bits)]
               = BitAt(all, s, k)
<1> DEFINE L == Len(bits)
           N == Len(all)
           n == N - L
           view == Stream!Undecided(all, bits)
           full == Full(all)
<1>1. L \in Nat /\ N \in Nat /\ n \in Nat /\ keep \in 0 .. n /\ L \in 0 .. N
  OBVIOUS
<1>2. /\ Len(full) = N /\ \A j \in 1 .. N : full[j] = all[N + 1 - j]
      /\ Len(view) = n /\ \A j \in 1 .. n : view[j] = all[N + 1 - j]
  BY <1>1, ViewFacts, FullFacts
<1>3. Walk(view, t)[keep] = Walk(view, s)[keep] /\ k \in L + 1 .. N - keep
  OBVIOUS
<1>4. /\ Decided(view, t, keep)
            = [i \in 1 .. n - keep |-> Stream!PathBit(view[n + 1 - i], Walk(view, t)[n - i])]
      /\ BitAt(all, s, k) = Stream!PathBit(all[k], Walk(full, s)[N - k])
  BY <1>2 DEF Decided, Stream!Decided, Walk, BitAt
<1> HIDE DEF L, N, n, view, full
<1>5. /\ k - L \in 1 .. n - keep
      /\ n + 1 - (k - L) \in 1 .. n
      /\ n + 1 - (k - L) = N + 1 - k
      /\ n - (k - L) = N - k
      /\ N - k \in keep .. n /\ N - k \in 0 .. n
      /\ N + 1 - (N + 1 - k) = k
  BY <1>1, <1>3 DEF n
<1>6. Decided(view, t, keep)[k - L] = Stream!PathBit(view[N + 1 - k], Walk(view, t)[N - k])
  BY <1>4, <1>5
<1>7. view[N + 1 - k] = all[k]
  BY <1>2, <1>5
<1>8. Walk(view, t)[N - k] = Walk(view, s)[N - k]
  <2>1. /\ Len(view) \in Nat /\ keep \in 0 .. Len(view)
        /\ N - k \in keep .. Len(view)
        /\ N - k - keep + keep = N - k
        /\ N - k - keep + keep <= Len(view)
    BY <1>1, <1>2, <1>5
  <2>2. SlicesAgree(view, keep, view, keep)
    BY <1>1, <2>1 DEF SlicesAgree
  <2>3. PathsAgree(view, t, keep, view, s, keep)
    BY <1>3, <2>1, <2>2, PathsMeet
  <2> QED
    BY <2>1, <2>3 DEF PathsAgree
<1>9. Walk(view, s)[N - k] = Walk(full, s)[N - k]
  <2>1. /\ Len(view) \in Nat /\ Len(full) \in Nat
        /\ 0 \in 0 .. Len(view) /\ 0 \in 0 .. Len(full)
        /\ N - k \in 0 .. Len(view)
        /\ N - k - 0 + 0 = N - k
        /\ N - k - 0 + 0 <= Len(full)
    BY <1>1, <1>2, <1>5 DEF n
  <2>2. Walk(view, s)[0] = Walk(full, s)[0]
    BY <2>1, WalkDef
  <2>3. SlicesAgree(view, 0, full, 0)
    <3> SUFFICES ASSUME NEW j \in 1 .. Len(view), j - 0 + 0 <= Len(full)
                 PROVE  view[j] = full[j - 0 + 0]
      BY DEF SlicesAgree
    <3>1. j - 0 + 0 = j /\ j \in 1 .. n /\ j \in 1 .. N
      BY <1>1, <1>2 DEF n
    <3> QED
      BY <1>2, <3>1
  <2>4. PathsAgree(view, s, 0, full, s, 0)
    BY <2>1, <2>2, <2>3, PathsMeet
  <2> QED
    BY <2>1, <2>4 DEF PathsAgree
<1> QED
  BY <1>4, <1>6, <1>7, <1>8, <1>9 DEF L, view

\* The states a round writes are every skip-th of a power of two of them.
SkipIsPower ==
    skip > 0 => \E a, b \in Nat : skip = 2^a /\ skip * 2^b = Highbit

\* While all group tracebacks found their survivors merged, the bits that are
\* out lie on the survivor path of every live state.
OutIsOnEveryPath ==
    skip > 0 /\ merged =>
        \A s \in Live(skip), k \in 1 .. Len(out) : out[k] = BitAt(slices, s, k)

\* Multiples.
LEMMA MultipleOf ==
    ASSUME NEW e \in Nat \ {0}, NEW s \in Nat
    PROVE  /\ s % e = 0 => \E q \in Nat : s = e * q
           /\ (e * s) % e = 0
  OBVIOUS

\* The predecessors of the states a tail round writes are states the round
\* before it wrote.
LEMMA PredecessorIsLive ==
    ASSUME NEW e \in Nat \ {0}, NEW h \in Nat, Highbit = (2 * e) * h,
           NEW s \in Live(2 * e), NEW d
    PROVE  Stream!Predecessor(d, s) \in Live(e)
<1>1. s \in States /\ s \in Nat /\ s % (2 * e) = 0 /\ 2 * e \in Nat \ {0}
  BY ConstantFacts DEF Live
<1>2. PICK q \in Nat : s = (2 * e) * q
  BY <1>1, MultipleOf
<1> DEFINE p == Stream!Predecessor(d, s)
<1>3. p \in States
  BY <1>1, PredecessorType
<1>4. Stream!PathBit(d, s) = 0 \/ Stream!PathBit(d, s) = 1
  BY DEF Stream!PathBit
<1>5. e * q \in Nat /\ e * h \in Nat /\ s = 2 * (e * q) /\ Highbit = 2 * (e * h)
      /\ q + h \in Nat /\ e * (q + h) = e * q + e * h
  BY <1>2
<1>6. p = e * q \/ p = e * (q + h)
  <2>1. CASE Stream!PathBit(d, s) = 0
    BY <1>5, <2>1 DEF Stream!Predecessor
  <2>2. CASE Stream!PathBit(d, s) = 1
    BY <1>5, <2>2 DEF Stream!Predecessor
  <2> QED
    BY <1>4, <2>1, <2>2
<1>7. p % e = 0
  <2> HIDE DEF p
  <2>1. (e * q) % e = 0
    BY MultipleOf
  <2>2. (e * (q + h)) % e = 0
    BY <1>5, MultipleOf
  <2> QED
    BY <1>6, <2>1, <2>2
<1> QED
  BY <1>3, <1>7 DEF Live

\* What OutIsOnEveryPath says of the next state.
LEMMA OutIsOnEveryPathPrimed ==
    OutIsOnEveryPath' <=>
        (skip' > 0 /\ merged' =>
            \A s \in Live(skip'), k \in 1 .. Len(out') :
                out'[k] = BitAt(slices', s, k))
<1>1. (skip > 0 /\ merged =>
           \A s \in Live(skip), k \in 1 .. Len(out) : out[k] = BitAt(slices, s, k))'
      <=> (skip' > 0 /\ merged' =>
           \A s \in Live(skip'), k \in 1 .. Len(out') : out'[k] = BitAt(slices', s, k))
  BY DEF Live, BitAt, Full, Walk, Stream!Walk, Stream!Undecided
<1> QED
  BY <1>1 DEF OutIsOnEveryPath

\* A round keeps the decided bits on the survivor path of every state it
\* writes: the states it writes come from states the round before it wrote,
\* and the bits a group traceback adds lie on all the survivors if these met.
LEMMA RoundKeepsPath ==
    ASSUME RingInv, OutIsOnEveryPath, skip \in Nat \ {0},
           NEW d \in [States -> {0, 1}],
           NEW dist \in [States -> 0 .. DistanceMax],
           NEW every \in Nat \ {0},
           ProcessSkip(d, dist, every), skip' = every,
           \A slice, s : s \in Live(every) =>
               Stream!Predecessor(slice, s) \in Live(skip)
    PROVE  OutIsOnEveryPath'
<1> DEFINE slice == Filled(history[index], d, every)
           hist  == [history EXCEPT ![index] = slice]
           best  == Search(dist, every)
           view  == RingView(hist, NextIndex(index), len + 1)
           burst == Decided(view, best, MinTraceback)
           all   == Append(slices, slice)
           S     == [States -> {0, 1}]
<1>1. /\ index \in Slots /\ history \in [Slots -> S]
      /\ slices \in Seq(S) /\ Len(slices) \in Nat
      /\ out \in Seq({0, 1}) /\ Len(out) \in Nat
      /\ len \in Nat /\ Len(slices) = Len(out) + len
  BY ConstantFacts DEF RingInv, Slots, RingHoldsUndecided
<1>2. slice \in S
  BY <1>1, FilledType
<1>3. slices' = all
  <2>1. hist[index] = slice
    BY <1>1, <1>2
  <2> QED
    BY <2>1 DEF ProcessSkip
<1>4. view = Stream!Undecided(all, out)
  BY <1>2, RingAdvances
<1>5. /\ all \in Seq(S) /\ Len(all) = Len(slices) + 1
      /\ Len(all) = Len(out) + (len + 1)
  <2>1. all \in Seq(S) /\ Len(all) = Len(slices) + 1
    BY <1>1, <1>2, AppendType
  <2> QED
    BY <1>1, <2>1
<1>6. Live(every) \subseteq States /\ best \in Live(every)
  BY SearchFindsLeast DEF Live
<1> HIDE DEF slice, hist, best, view, burst, all, S
<1> SUFFICES ASSUME merged', NEW s \in Live(every), NEW k \in 1 .. Len(out')
             PROVE  out'[k] = BitAt(all, s, k)
  BY <1>3, OutIsOnEveryPathPrimed
<1>7. merged
  BY DEF ProcessSkip
<1>8. ASSUME NEW i \in 1 .. Len(out) PROVE out[i] = BitAt(all, s, i)
  <2>1. Stream!Predecessor(slice, s) \in Live(skip)
    OBVIOUS
  <2>2. out[i] = BitAt(slices, Stream!Predecessor(slice, s), i)
    BY <1>7, <2>1 DEF OutIsOnEveryPath
  <2>3. i \in 1 .. Len(slices)
    BY <1>1
  <2>4. BitAt(all, s, i) = BitAt(slices, Stream!Predecessor(slice, s), i)
    BY <1>1, <1>2, <1>6, <2>3, PathExtends DEF all
  <2> QED
    BY <2>2, <2>4
<1>9. CASE len + 1 # Cap
  <2>1. out' = out
    BY <1>9 DEF ProcessSkip
  <2> QED
    BY <1>8, <2>1
<1>10. CASE len + 1 = Cap
  <2>1. out' = out \o burst /\ Merged(view, every)
    BY <1>10 DEF ProcessSkip, slice, hist, best, view, burst
  <2>2. MinTraceback \in 0 .. Len(all) - Len(out)
    BY <1>1, <1>5, <1>10, ConstantFacts, MinTracebackAssumption
  <2>3. Walk(view, best)[MinTraceback] = Walk(view, s)[MinTraceback]
    BY <1>6, <2>1 DEF Merged
  <2>4. burst \in Seq({0, 1}) /\ Len(burst) = len + 1 - MinTraceback
    <3>1. view = [j \in 1 .. len + 1 |-> all[Len(all) + 1 - j]]
      <4>1. Len(all) - Len(out) = len + 1
        BY <1>1, <1>5
      <4> QED
        BY <1>4, <4>1 DEF Stream!Undecided
    <3>2. view \in [1 .. len + 1 -> {all[Len(all) + 1 - j] : j \in 1 .. len + 1}]
      BY <3>1
    <3> DEFINE n == len + 1
               T == {all[Len(all) + 1 - j] : j \in 1 .. len + 1}
    <3>3. n \in Nat /\ MinTraceback \in 0 .. n
      BY <1>1, <1>10, ConstantFacts, MinTracebackAssumption
    <3>5. view \in [1 .. n -> T]
      BY <3>2
    <3> HIDE DEF n, T
    <3>4. burst \in Seq({0, 1}) /\ Len(burst) = n - MinTraceback
      BY <3>3, <3>5, DecidedType DEF burst
    <3> QED
      BY <1>1, <3>4, MinTracebackAssumption DEF n
  <2>5. CASE k \in 1 .. Len(out)
    <3>1. out'[k] = out[k]
      BY <1>1, <2>1, <2>4, <2>5
    <3> QED
      BY <1>8, <2>5, <3>1
  <2>6. CASE k \notin 1 .. Len(out)
    <3>1. /\ k \in Len(out) + 1 .. Len(all) - MinTraceback
          /\ k \in Len(out) + 1 .. Len(out) + Len(burst)
      BY <1>1, <1>5, <2>1, <2>2, <2>4, <2>6, MinTracebackAssumption
    <3>2. out'[k] = burst[k - Len(out)]
      BY <1>1, <2>1, <2>4, <3>1
    <3>3. /\ Len(all) \in Nat /\ Len(out) \in 0 .. Len(all)
          /\ best \in States /\ s \in States
      BY <1>1, <1>5, <1>6
    <3> DEFINE m == MinTraceback
    <3>4. /\ m \in 0 .. Len(all) - Len(out) /\ k \in Len(out) + 1 .. Len(all) - m
          /\ Walk(Stream!Undecided(all, out), best)[m]
                = Walk(Stream!Undecided(all, out), s)[m]
      BY <1>4, <2>2, <2>3, <3>1
    <3> HIDE DEF m
    <3>5. Decided(Stream!Undecided(all, out), best, m)[k - Len(out)] = BitAt(all, s, k)
      BY <3>3, <3>4, BurstIsPath
    <3> QED
      BY <1>4, <3>2, <3>5 DEF burst, m
  <2> QED
    BY <2>5, <2>6
<1> QED
  BY <1>9, <1>10

\* With the final skip only state 0 is live, and the flush decides the rest of
\* the path that ends there.
LEMMA FlushIsSeamless ==
    ASSUME RingInv, OutIsOnEveryPath, merged, Flush
    PROVE  /\ out' = Decided(Full(slices), 0, 0)
           /\ out' \in Seq({0, 1}) /\ Len(out') = Len(slices)
           /\ \A k \in 1 .. Len(slices) : out'[k] = BitAt(slices, 0, k)
<1> DEFINE view  == RingView(history, index, len)
           burst == Decided(view, 0, 0)
           N     == Len(slices)
           L     == Len(out)
<1>1. /\ slices \in Seq([States -> {0, 1}]) /\ N \in Nat
      /\ out \in Seq({0, 1}) /\ L \in Nat
      /\ len \in Nat /\ N = L + len
      /\ view = Stream!Undecided(slices, out)
      /\ out' = out \o burst
      /\ skip = Highbit
  BY ConstantFacts DEF RingInv, Slots, RingHoldsUndecided, Flush
<1>2. 0 \in Live(Highbit) /\ 0 \in States
  BY HighbitAssumption, ConstantFacts, MultipleOf DEF Live
<1>3. burst \in Seq({0, 1}) /\ Len(burst) = N - L
  <2> DEFINE n == len
             T == {slices[N + 1 - j] : j \in 1 .. n}
  <2>1. n \in Nat /\ 0 \in 0 .. n
    BY <1>1
  <2>2. view = [j \in 1 .. n |-> slices[N + 1 - j]]
    <3>1. N - L = n
      BY <1>1
    <3> QED
      BY <1>1, <3>1 DEF Stream!Undecided
  <2>3. view \in [1 .. n -> T]
    BY <2>2
  <2> HIDE DEF n, T, view
  <2>4. burst \in Seq({0, 1}) /\ Len(burst) = n - 0
    BY <2>1, <2>3, DecidedType
  <2> QED
    BY <1>1, <2>4 DEF n
<1> HIDE DEF view, burst
<1>4. Decided(Full(slices), 0, 0) = [k \in 1 .. N |-> BitAt(slices, 0, k)]
  <2>1. Len(Full(slices)) = N /\ N - 0 = N
        /\ \A j \in 1 .. N : Full(slices)[j] = slices[N + 1 - j]
    BY <1>1, FullFacts
  <2>2. \A k \in 1 .. N : Full(slices)[N + 1 - k] = slices[k]
    <3> SUFFICES ASSUME NEW k \in 1 .. N PROVE Full(slices)[N + 1 - k] = slices[k]
      OBVIOUS
    <3>1. N + 1 - k \in 1 .. N /\ N + 1 - (N + 1 - k) = k
      BY <1>1
    <3> QED
      BY <2>1, <3>1
  <2>3. Decided(Full(slices), 0, 0)
            = [k \in 1 .. N |-> Stream!PathBit(Full(slices)[N + 1 - k], Walk(Full(slices), 0)[N - k])]
    BY <2>1 DEF Decided, Stream!Decided, Walk
  <2> QED
    BY <2>2, <2>3 DEF BitAt
<1>5. ASSUME NEW k \in 1 .. N PROVE out'[k] = BitAt(slices, 0, k)
  <2>1. CASE k \in 1 .. L
    <3>1. out'[k] = out[k]
      BY <1>1, <1>3, <2>1
    <3>2. out[k] = BitAt(slices, 0, k)
      BY <1>1, <1>2, <2>1, HighbitAssumption DEF OutIsOnEveryPath
    <3> QED
      BY <3>1, <3>2
  <2>2. CASE k \notin 1 .. L
    <3>1. k \in L + 1 .. N - 0 /\ L \in 0 .. N /\ 0 \in 0 .. N - L
      BY <1>1, <2>2
    <3>2. out'[k] = burst[k - L]
      BY <1>1, <1>3, <3>1
    <3>3. Decided(Stream!Undecided(slices, out), 0, 0)[k - L] = BitAt(slices, 0, k)
      BY <1>1, <1>2, <3>1, BurstIsPath
    <3> QED
      BY <1>1, <3>2, <3>3 DEF burst
  <2> QED
    BY <2>1, <2>2
<1>7. out' \in Seq({0, 1}) /\ Len(out') = N
  <2>1. out' \in Seq({0, 1}) /\ Len(out') = N
    <3>1. /\ out \o burst \in Seq({0, 1})
          /\ Len(out \o burst) = Len(out) + Len(burst)
      BY <1>1, <1>3, ConcatType
    <3> QED
      BY <1>1, <1>3, <3>1
  <2> QED
    BY <2>1
<1>6. out' = [k \in 1 .. N |-> out'[k]]
  <2> HIDE DEF N
  <2> QED
    BY <1>7
<1> QED
  BY <1>4, <1>5, <1>6, <1>7

PathInv == SkipIsPower /\ OutIsOnEveryPath /\ SeamlessWhenMerged

\* A new buffer has decided nothing.
LEMMA PathInit == Init => PathInv
<1> SUFFICES ASSUME Init PROVE PathInv
  OBVIOUS
<1>1. Len(Full(<<>>)) = 0
  BY FullFacts
<1>2. Decided(Full(<<>>), 0, 0) = <<>>
  BY <1>1 DEF Decided, Stream!Decided
<1> QED
  BY <1>2 DEF Init, PathInv, SkipIsPower, OutIsOnEveryPath, SeamlessWhenMerged, Full

\* Every step keeps the decided bits on the survivor paths.
LEMMA PathStep == IInv /\ PathInv /\ [Next]_vars => PathInv'
<1> SUFFICES ASSUME IInv, PathInv, [Next]_vars PROVE PathInv'
  OBVIOUS
<1>1. skip \in Nat /\ Highbit \in Nat \ {0} /\ SkipIsPower /\ OutIsOnEveryPath
  BY HighbitAssumption DEF IInv, TypeOK, PathInv
<1>0. Decided(Stream!Undecided(slices, <<>>), 0, 0)'
          = Decided(Stream!Undecided(slices', <<>>), 0, 0)
  BY DEF Decided, Stream!Decided, Stream!Walk, Stream!Undecided, Stream!PathBit,
         Stream!Predecessor
<1>2. CASE Reset
  <2>1. skip' = 1 /\ Len(out') = 0
    BY <1>2 DEF Reset
  <2>2. PICK b \in Nat : Highbit = 2^b
    BY HighbitIsPower
  <2>3. 1 = 2^0 /\ 1 * 2^b = Highbit
    BY <1>1, <2>2, PowerZero
  <2>4. SkipIsPower'
    <3>1. \E a, c \in Nat : 1 = 2^a /\ 1 * 2^c = Highbit
      BY <2>3, Zenon
    <3> QED
      BY <2>1, <3>1 DEF SkipIsPower
  <2> QED
    BY <2>1, <2>4 DEF PathInv, OutIsOnEveryPath, SeamlessWhenMerged
<1>3. ASSUME NEW d \in SliceInputs, NEW dist \in DistanceInputs, Process(d, dist)
      PROVE  PathInv'
  <2>1. skip = 1 /\ skip' = 1 /\ ProcessSkip(d, dist, 1)
    BY <1>3 DEF Process
  <2>2. \A slice, s : s \in Live(1) => Stream!Predecessor(slice, s) \in Live(skip)
    <3> SUFFICES ASSUME NEW slice, NEW s \in Live(1)
                 PROVE  Stream!Predecessor(slice, s) \in Live(1)
      BY <2>1
    <3>1. Stream!Predecessor(slice, s) \in States
      BY PredecessorType DEF Live
    <3>2. Stream!Predecessor(slice, s) \in Nat
      BY <3>1, ConstantFacts
    <3> HIDE DEF Stream!Predecessor
    <3> QED
      BY <3>1, <3>2 DEF Live
  <2>3. /\ d \in [States -> {0, 1}] /\ dist \in [States -> 0 .. DistanceMax]
        /\ skip \in Nat \ {0}
    BY <2>1, InputsAssumption
  <2>4. OutIsOnEveryPath'
    BY <1>1, <2>1, <2>2, <2>3, RingPart, RoundKeepsPath
  <2> QED
    BY <1>1, <2>1, <2>4 DEF PathInv, SkipIsPower, SeamlessWhenMerged
<1>4. ASSUME NEW d \in SliceInputs, NEW dist \in DistanceInputs, ProcessTail(d, dist)
      PROVE  PathInv'
  <2>1. skip > 0 /\ skip < Highbit /\ skip' = 2 * skip /\ ProcessSkip(d, dist, 2 * skip)
    BY <1>4 DEF ProcessTail
  <2>2. PICK a, b \in Nat : skip = 2^a /\ skip * 2^b = Highbit
    BY <1>1, <2>1 DEF SkipIsPower
  <2>3. b # 0
    <3>1. skip * 1 # Highbit
      BY <1>1, <2>1
    <3> QED
      BY <2>2, <3>1, PowerZero
  <2>4. /\ b - 1 \in Nat /\ 2^(b - 1) \in Nat /\ 2^b = 2 * 2^(b - 1)
    <3>1. b - 1 \in Nat /\ (b - 1) + 1 = b
      BY <2>3
    <3> QED
      BY <3>1, PowerStep
  <2> DEFINE h == 2^(b - 1)
  <2>5. h \in Nat /\ (2 * skip) * h = Highbit
    <3>1. skip * (2 * h) = Highbit /\ h \in Nat
      BY <2>2, <2>4
    <3> HIDE DEF h
    <3> QED
      BY <1>1, <3>1
  <2>6. 2 * skip = 2^(a + 1) /\ a + 1 \in Nat
    BY <2>2, PowerStep
  <2>7. SkipIsPower'
    BY <2>1, <2>4, <2>5, <2>6 DEF SkipIsPower
  <2> HIDE DEF h
  <2>8. \A slice, s : s \in Live(2 * skip) => Stream!Predecessor(slice, s) \in Live(skip)
    BY <1>1, <2>1, <2>5, PredecessorIsLive
  <2>9. /\ d \in [States -> {0, 1}] /\ dist \in [States -> 0 .. DistanceMax]
        /\ skip \in Nat \ {0} /\ 2 * skip \in Nat \ {0}
    BY <1>1, <2>1, InputsAssumption
  <2>10. OutIsOnEveryPath'
    BY <1>1, <2>1, <2>8, <2>9, RingPart, RoundKeepsPath
  <2> QED
    BY <1>1, <2>1, <2>7, <2>10 DEF PathInv, SeamlessWhenMerged
<1>5. CASE Flush
  <2>1. skip' = 0 /\ slices' = slices /\ merged' = merged
    BY <1>5 DEF Flush
  <2>2. merged => out' = Decided(Full(slices), 0, 0)
    BY <1>1, <1>5, RingPart, FlushIsSeamless
  <2>3. SeamlessWhenMerged'
    BY <1>0, <2>1, <2>2 DEF SeamlessWhenMerged, Full
  <2> QED
    BY <2>1, <2>3 DEF PathInv, SkipIsPower, OutIsOnEveryPath
<1>6. CASE UNCHANGED vars
  <2>1. /\ skip' = skip /\ merged' = merged /\ out' = out /\ slices' = slices
    BY <1>6 DEF vars, ringVars, ghostVars
  <2>2. OutIsOnEveryPath'
    BY <1>1, <2>1, OutIsOnEveryPathPrimed DEF OutIsOnEveryPath
  <2>3. SeamlessWhenMerged'
    BY <1>0, <2>1 DEF PathInv, SeamlessWhenMerged
  <2> QED
    BY <1>1, <2>1, <2>2, <2>3 DEF PathInv, SkipIsPower
<1> QED
  BY <1>2, <1>3, <1>4, <1>5, <1>6 DEF Next


\* Walking back from a live state the walk stays on states that were live when
\* their slice was filled: the spacing halves with each slice until it is one.
LEMMA WalkIsLive ==
    ASSUME NEW a \in Nat, NEW b \in Nat, 2^a * 2^b = Highbit,
           NEW view, Len(view) \in Nat, NEW start \in Live(2^a),
           NEW m \in 0 .. Len(view), m <= a
    PROVE  Walk(view, start)[m] \in Live(2^(a - m))
<1> DEFINE n == Len(view)
           W == Walk(view, start)
           D == {k \in Nat : k <= a /\ k <= n => W[k] \in Live(2^(a - k))}
<1>1. start \in States
  BY DEF Live
<1>2. W[0] = start /\ \A j \in 1 .. n : W[j] = Stream!Predecessor(view[j], W[j - 1])
  BY <1>1, WalkDef
<1>3. n \in Nat /\ m \in 0 .. n
  OBVIOUS
<1> HIDE DEF n, W
<1>4. 0 \in D
  <2>1. a - 0 = a
    OBVIOUS
  <2> QED
    BY <1>2, <2>1
<1>5. ASSUME NEW k \in Nat, k \in D PROVE k + 1 \in D
  <2> SUFFICES ASSUME k + 1 <= a, k + 1 <= n
               PROVE  W[k + 1] \in Live(2^(a - (k + 1)))
    OBVIOUS
  <2> DEFINE e == 2^(a - (k + 1))
             h == 2^k * 2^b
  <2>1. k \in 0 .. a /\ a - (k + 1) \in Nat /\ (a - (k + 1)) + 1 = a - k
        /\ k + 1 \in 1 .. n /\ (k + 1) - 1 = k /\ k <= n
    BY <1>3
  <2>2. e \in Nat \ {0} /\ 2^(a - k) = 2 * e
    BY <2>1, PowerStep
  <2>3. h \in Nat /\ Highbit = (2 * e) * h
    <3> DEFINE x == 2^k
               y == 2^b
               z == 2^(a - k)
    <3>1. x \in Nat /\ y \in Nat /\ z \in Nat
      BY <2>1, PowerStep
    <3>2. (x * z) * y = Highbit
      BY <2>1, PowerSplit
    <3> HIDE DEF x, y, z
    <3>3. x * y \in Nat /\ z * (x * y) = (x * z) * y
      BY <3>1
    <3> QED
      BY <2>2, <3>2, <3>3 DEF x, y, z
  <2>4. W[k] \in Live(2 * e)
    BY <1>5, <2>1, <2>2
  <2> HIDE DEF e, h
  <2>5. Stream!Predecessor(view[k + 1], W[k]) \in Live(e)
    BY <2>2, <2>3, <2>4, PredecessorIsLive
  <2>6. W[k + 1] = Stream!Predecessor(view[k + 1], W[k])
    BY <1>2, <2>1
  <2> QED
    BY <2>5, <2>6 DEF e
<1>6. \A k \in Nat : k \in D
  <2> HIDE DEF D
  <2> QED
    BY <1>4, <1>5, SetInduction
<1> QED
  BY <1>3, <1>6 DEF W

\* A traceback from a live state never reads what the zero tail skipped.
LEMMA ReadsWritten == RingInv /\ SkipIsPower => TracebackReadsWritten
<1> SUFFICES ASSUME RingInv, SkipIsPower, skip > 0,
                    NEW start \in Live(skip), NEW j \in 1 .. len
             PROVE  Walk(RingView(history, index, len), start)[j - 1]
                        % (IF 2^(j - 1) <= skip THEN skip \div 2^(j - 1) ELSE 1) = 0
  BY DEF TracebackReadsWritten
<1> DEFINE view == RingView(history, index, len)
           W    == Walk(view, start)
           m    == j - 1
<1>1. PICK a, b \in Nat : skip = 2^a /\ skip * 2^b = Highbit
  BY DEF SkipIsPower
<1>2. len \in Nat /\ m \in 0 .. len /\ m \in Nat
  BY ConstantFacts DEF RingInv, Slots
<1>3. Len(view) = len
  BY <1>2 DEF RingView
<1>4. start \in States
  BY DEF Live
<1>5. W[m] \in States /\ W[m] \in Nat
  <2>1. Len(view) \in Nat
    BY <1>2, <1>3
  <2> HIDE DEF view, m
  <2>2. W \in [0 .. Len(view) -> States]
    BY <1>4, <2>1, WalkDef
  <2> QED
    BY <1>2, <1>3, <2>2, ConstantFacts
<1> HIDE DEF W, m, view
<1>6. W[m] % (IF 2^m <= skip THEN skip \div 2^m ELSE 1) = 0
  <2>1. CASE m <= a
    <3>1. 2^m <= skip /\ skip \div 2^m = 2^(a - m)
      BY <1>1, <1>2, <2>1, PowerOrder
    <3>2. W[m] \in Live(2^(a - m))
      <4>1. 2^a * 2^b = Highbit /\ start \in Live(2^a)
        BY <1>1
      <4> QED
        BY <1>2, <1>3, <2>1, <4>1, WalkIsLive DEF W
    <3> QED
      BY <3>1, <3>2 DEF Live
  <2>2. CASE ~ (m <= a)
    <3>1. 2^m > 2^a /\ 2^m \in Nat /\ 2^a \in Nat
      BY <1>2, <2>2, PowerOrder, PowerStep
    <3>2. ~ (2^m <= skip)
      BY <1>1, <3>1
    <3>3. W[m] % 1 = 0
      BY <1>5
    <3> QED
      BY <3>2, <3>3
  <2> QED
    BY <2>1, <2>2
<1> QED
  BY <1>6 DEF W, m, view


-----------------------------------------------------------------------------
(* The theorems.                                                           *)

\* IInv holds in every reachable state.
THEOREM Invariance == Spec => []IInv
<1>1. Init => IInv
  BY InitStep
<1>2. IInv /\ [Next]_vars => IInv'
  BY NextStep
<1> QED
  BY <1>1, <1>2, PTL DEF Spec

\* Every variable keeps its type: the index stays in the ring, len below Cap
\* between two calls, and no metric leaves the range of distance_t.
THEOREM TypeCorrect == Spec => []TypeOK
<1>1. IInv => TypeOK
  BY DEF IInv
<1> QED
  BY <1>1, Invariance, PTL

\* The ring holds exactly the slices that are not decided yet, in order.
THEOREM RingCorrect == Spec => []RingHoldsUndecided
<1>1. IInv => RingHoldsUndecided
  BY DEF IInv
<1> QED
  BY <1>1, Invariance, PTL

\* Renormalising is exact on the live states of every round, for any metrics.
THEOREM RenormalizeExact == Spec => []RenormalizeKeepsDifferences
<1>1. Init => RenormalizeKeepsDifferences
  BY DEF Init, RenormalizeKeepsDifferences
<1>2. ASSUME NEW dist \in [States -> 0 .. DistanceMax],
             NEW every \in Nat \ {0}, NEW d,
             ProcessSkip(d, dist, every), skip' = every
      PROVE  RenormalizeKeepsDifferences'
  <2> DEFINE best == Search(dist, every)
  <2>1. handed' = dist
    BY <1>2 DEF ProcessSkip
  <2>2. distances' = dist \/ distances' = Renormalized(dist, best)
    BY <1>2 DEF ProcessSkip
  <2>3. best \in States /\ Live(every) \subseteq States
    BY SearchFindsLeast DEF Live
  <2>4. \A s \in States : dist[s] \in Int
    BY DistanceMaxAssumption
  <2>5. \A s, t \in Live(every) :
            distances'[s] - distances'[t] = handed'[s] - handed'[t]
    <3>1. CASE distances' = dist
      BY <2>1, <3>1
    <3>2. CASE distances' = Renormalized(dist, best)
      <4>1. \A s \in Live(every) :
                Renormalized(dist, best)[s] = dist[s] - dist[best]
        BY RenormalizedExact
      <4> HIDE DEF best
      <4> QED
        BY <2>1, <2>3, <2>4, <3>2, <4>1
    <3> QED
      BY <2>2, <3>1, <3>2
  <2> QED
    BY <1>2, <2>5 DEF RenormalizeKeepsDifferences, Live
<1>3. IInv /\ RenormalizeKeepsDifferences /\ [Next]_vars
        => RenormalizeKeepsDifferences'
  <2> SUFFICES ASSUME IInv, RenormalizeKeepsDifferences, [Next]_vars
               PROVE  RenormalizeKeepsDifferences'
    OBVIOUS
  <2>1. CASE Reset
    BY <2>1 DEF Reset, RenormalizeKeepsDifferences
  <2>2. ASSUME NEW d \in SliceInputs, NEW dist \in DistanceInputs,
               Process(d, dist) \/ ProcessTail(d, dist)
        PROVE  RenormalizeKeepsDifferences'
    <3>1. dist \in [States -> 0 .. DistanceMax]
      BY InputsAssumption
    <3>2. CASE Process(d, dist)
      BY <1>2, <3>1, <3>2 DEF Process
    <3>3. CASE ProcessTail(d, dist)
      <4>1. 2 * skip \in Nat \ {0}
        BY <3>3 DEF ProcessTail, IInv, TypeOK
      <4> QED
        BY <1>2, <3>1, <3>3, <4>1 DEF ProcessTail
    <3> QED
      BY <2>2, <3>2, <3>3
  <2>3. CASE Flush
    BY <2>3 DEF Flush, RenormalizeKeepsDifferences
  <2>4. CASE UNCHANGED vars
    BY <2>4 DEF RenormalizeKeepsDifferences, vars, ringVars, ghostVars, Live
  <2> QED
    BY <2>1, <2>2, <2>3, <2>4 DEF Next
<1> QED
  BY <1>1, <1>3, Invariance, PTL DEF Spec

\* The ring buffer implements the unbounded stream: each slice is decided
\* exactly once, in order, along a survivor path of all slices.
THEOREM Refinement == Spec => ImplementsStream
<1>1. Init => Stream!SInit
  BY InitStep
<1>2. IInv /\ [Next]_vars => [Stream!SNext]_Stream!sVars
  BY NextStep
<1> QED
  BY <1>1, <1>2, Invariance, PTL DEF Spec, ImplementsStream, Stream!SSpec

\* Group tracebacks are seamless (history_buffer.c:101-152, 179-191): if the
\* survivors had met at each of them, the bits of a decode are those of one
\* traceback from state 0, for every ring size and register width.
THEOREM TracebacksAreSeamless == Spec => []SeamlessWhenMerged
<1>1. IInv /\ PathInv /\ [Next]_vars => PathInv'
  BY PathStep
<1>2. PathInv => SeamlessWhenMerged
  BY DEF PathInv
<1> QED
  BY <1>1, <1>2, PathInit, Invariance, PTL DEF Spec

\* A traceback never reads an entry the zero tail skipped (cv_decode.c:187-215
\* with history_buffer.c:116-119), however many slices it walks.
THEOREM TracebacksReadWritten == Spec => []TracebackReadsWritten
<1>1. IInv /\ PathInv /\ [Next]_vars => PathInv'
  BY PathStep
<1>2. IInv /\ PathInv => TracebackReadsWritten
  BY RingPart, ReadsWritten DEF PathInv
<1> QED
  BY <1>1, <1>2, PathInit, Invariance, PTL DEF Spec
=============================================================================

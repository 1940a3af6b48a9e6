--------------------------- MODULE MCHistoryBuffer ---------------------------
(***************************************************************************)
(* A register of 3 bits (4 states), a ring of 2 + 2 slices and at most 5   *)
(* ordinary rounds a decode, so that the ring wraps and tracebacks happen  *)
(* in ordinary rounds and in the zero tail; decodes follow one another     *)
(* over the same ring.                                                     *)
(***************************************************************************)
EXTENDS HistoryBuffer, TLC

\* Decisions: keep, cross over, and two mixed ones whose survivors differ.
MCSlices ==
    { [s \in 0 .. 3 |-> 0],
      [s \in 0 .. 3 |-> 1],
      0 :> 1 @@ 1 :> 0 @@ 2 :> 0 @@ 3 :> 1 }

\* Metrics: the best state is first, in the middle, or only among the states
\* a tail round skips; the largest metric is DistanceMax.
MCDistances ==
    { 0 :> 0 @@ 1 :> 3 @@ 2 :> 1 @@ 3 :> 7,
      0 :> 3 @@ 1 :> 2 @@ 2 :> 2 @@ 3 :> 0 }
=============================================================================

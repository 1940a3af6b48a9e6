----------------------------- MODULE ErrorBuffer -----------------------------
(***************************************************************************)
(* error_buffer.c: the two arrays of path metrics of the Viterbi decoder.  *)
(* A round fills the array `write` points to from the one `read` points    *)
(* to; the swap then turns the pointers for the next round.  An array is   *)
(* one value here: the buffer never looks inside.                          *)
(***************************************************************************)
EXTENDS Integers

CONSTANTS Metrics,     \* what a round may leave in the array it fills
          Zero         \* the array as calloc and memset leave it

VARIABLES errors,   \* the two arrays
          index,    \* which array the next swap hands out for reading
          read,     \* the array read_errors points to
          write,    \* the array write_errors points to
          rounds,   \* history variable: rounds since the reset
          last      \* history variable: what the last round wrote

bufferVars == <<errors, index, read, write>>
vars       == <<bufferVars, rounds, last>>

TypeOK ==
    /\ errors \in [{0, 1} -> Metrics \cup {Zero}]
    /\ index \in {0, 1}
    /\ read \in {0, 1}
    /\ write \in {0, 1}
    /\ rounds \in Nat
    /\ last \in Metrics \cup {Zero}

Cleared ==
    /\ errors' = [b \in {0, 1} |-> Zero]
    /\ index' = 0
    /\ read' = 0
    /\ write' = 1

\* error_buffer_create.
Init ==
    /\ errors = [b \in {0, 1} |-> Zero]
    /\ index = 0
    /\ read = 0
    /\ write = 1
    /\ rounds = 0
    /\ last = Zero

\* Mutant: the reset clears the arrays and leaves the pointers turned.
Reset_ArraysOnly ==
    /\ errors' = [b \in {0, 1} |-> Zero]
    /\ index' = 0
    /\ rounds' = 0
    /\ UNCHANGED <<read, write, last>>

\* error_buffer_reset, the start of a decode.
Reset ==
    /\ Cleared
    /\ rounds' = 0
    /\ UNCHANGED last

\* Mutant: write_errors is taken before the index moves on.
Swap_SamePointer ==
    /\ read' = index
    /\ write' = index
    /\ index' = (index + 1) % 2

\* error_buffer_swap.
Swap ==
    /\ read' = index
    /\ index' = (index + 1) % 2
    /\ write' = index'

\* A round of the decoder: it fills `write` with m and swaps.
Round(m) ==
    /\ errors' = [errors EXCEPT ![write] = m]
    /\ Swap
    /\ rounds' = rounds + 1
    /\ last' = m

Next ==
    \/ Reset
    \/ \E m \in Metrics : Round(m)

Spec == Init /\ [][Next]_vars

-----------------------------------------------------------------------------
(* Properties.                                                             *)

\* From the second round after a reset on, the buffer is a double buffer: the
\* next round reads what the last one wrote and writes over the other array,
\* never over the one it reads, in spite of a first swap that is different
\* (error_buffer.c:61-65).
DoubleBuffer ==
    /\ read # write
    /\ rounds >= 2 => errors[read] = last
=============================================================================

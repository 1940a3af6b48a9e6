--------------------------- MODULE SurvivorStream ---------------------------
(***************************************************************************)
(* What the traceback of a Viterbi decoder promises, with no ring buffer:  *)
(* the decoder keeps EVERY decision slice it ever made in one sequence,    *)
(* and from time to time reads a survivor path back through the slices it  *)
(* has not decided yet and emits the oldest bits of that path, in the      *)
(* order in which they were sent.  Each slice is decided exactly once.     *)
(*                                                                         *)
(* A state is the content of the shift register without its oldest bit.    *)
(* A slice holds, for each state, the bit that was shifted out on the      *)
(* better of the two paths into that state.                                *)
(***************************************************************************)
EXTENDS Integers, Sequences

CONSTANTS Highbit,        \* the register's oldest bit; also the number of states
          MinTraceback    \* slices always walked before a bit is decided

VARIABLES slices,   \* every decision slice so far, oldest first
          out       \* the bits decided so far, oldest first

sVars == <<slices, out>>

States == 0 .. Highbit - 1
Slices == [States -> {0, 1}]

\* The bit a slice holds for state s: `pathbit ? 1 : 0`.
PathBit(slice, s) == IF slice[s] = 0 THEN 0 ELSE 1

\* Mutant: the shifted-out bit comes back one position too low.
Predecessor_LowBit(slice, s) == (s + PathBit(slice, s) * (Highbit \div 2)) \div 2

\* The state one slice earlier: the shifted-out bit comes back in on top.
Predecessor(slice, s) == (s + PathBit(slice, s) * Highbit) \div 2

\* The states met when walking back through `view` (newest slice first).
Walk(view, start) ==
    LET at[j \in 0 .. Len(view)] ==
            IF j = 0 THEN start
            ELSE LET s == at[j - 1] IN Predecessor(view[j], s)
    IN  at

\* The bits of the survivor path that ends in `start`, oldest first, but for
\* the newest `keep` slices, which are walked and not decided.
Decided(view, start, keep) ==
    LET at == Walk(view, start)
        n  == Len(view)
    IN  [k \in 1 .. n - keep |-> PathBit(view[n + 1 - k], at[n - k])]

\* The slices of `all` with no bit in `bits` yet, newest first.
Undecided(all, bits) ==
    [j \in 1 .. Len(all) - Len(bits) |-> all[Len(all) + 1 - j]]

-----------------------------------------------------------------------------
SInit == slices = <<>> /\ out = <<>>

Record(d) ==
    /\ slices' = Append(slices, d)
    /\ UNCHANGED out

RecordAndDecide(d, start) ==
    /\ slices' = Append(slices, d)
    /\ Len(slices') - Len(out) > MinTraceback
    /\ out' = out \o Decided(Undecided(slices', out), start, MinTraceback)

Finish ==
    /\ out' = out \o Decided(Undecided(slices, out), 0, 0)
    /\ UNCHANGED slices

Restart == slices' = <<>> /\ out' = <<>>

SNext ==
    \/ \E d \in Slices : Record(d)
    \/ \E d \in Slices, start \in States : RecordAndDecide(d, start)
    \/ Finish
    \/ Restart

SSpec == SInit /\ [][SNext]_sVars
=============================================================================

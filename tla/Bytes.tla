------------------------------- MODULE Bytes -------------------------------
(* What the bit writer and the bit reader of bit.c mean by a bit and a byte. *)
EXTENDS Naturals, Sequences

CONSTANT Width    \* bits in a byte, 8 in the code

ASSUME WidthAssumption == Width \in Nat \ {0}

Bit  == {0, 1}
Byte == 0 .. 2^Width - 1

\* The k bits of v, highest first.
BitsOf(v, k) == [i \in 1 .. k |-> (v \div 2^(k - i)) % 2]

\* Bit p of a sequence of bytes, counted from 0, the highest of a byte first.
BitAt(bytes, p) == (bytes[(p \div Width) + 1] \div 2^(Width - 1 - (p % Width))) % 2
=============================================================================

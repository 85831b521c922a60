-------------------------------- MODULE Words --------------------------------
(***************************************************************************)
(* uint32_t as the set of the positions of its one bits, 0 the lowest.     *)
(***************************************************************************)
EXTENDS Naturals

Bit == 0 .. 31
Word == SUBSET Bit
Byte == SUBSET (0 .. 7)

(* The bits of n < 2^16, and the word with these two halves.               *)
Bits(n) == {k \in 0 .. 15 : (n \div 2^k) % 2 = 1}
Halves(high, low) == {k + 16 : k \in Bits(high)} \cup Bits(low)

Xor(a, b) == (a \ b) \cup (b \ a)
Not(a) == Bit \ a
LowByte(a) == a \cap (0 .. 7)
ShiftRight(a, n) == {k - n : k \in {j \in a : j >= n}}
RotateRight(a, n) == {(k + 32 - n) % 32 : k \in a}

(* Addition modulo 2^32: a carry begins where both words have a one and    *)
(* runs up for as long as one of them has.                                 *)
Add(a, b) ==
    {k \in Bit : (k \in Xor(a, b)) #
                  (\E j \in a \cap b : j < k /\ j + 1 .. k - 1 \subseteq a \cup b)}
=============================================================================

---------------------------- MODULE VerifyProofs ----------------------------
(***************************************************************************)
(* What Verify promises, for every image: that the device's two            *)
(* computations are the two that the build made, and that a burst of       *)
(* damage changes the checksum.                                            *)
(***************************************************************************)
EXTENDS Verify, WellFoundedInduction, TLAPS

-----------------------------------------------------------------------------
(* Recursion over the natural numbers                                      *)

(* A set of numbers that is not empty has a smallest.                      *)
LEMMA Smallest ==
    ASSUME NEW T, T \subseteq Nat, T # {}
    PROVE  \E x \in T : \A y \in T : x <= y
<1>1. PICK x \in T : \A y \in T : ~(<<y, x>> \in OpToRel(<, Nat))
  BY NatLessThanWellFounded, WFMin
<1>2. \A y \in T : ~(y < x)
  BY <1>1, Zenon DEF OpToRel
<1> QED
  BY <1>2

(* A set that holds 0, and with a number the next one, holds them all.     *)
LEMMA Induction ==
    ASSUME NEW S, 0 \in S, \A n \in Nat : n \in S => n + 1 \in S
    PROVE  Nat \subseteq S
<1> SUFFICES ASSUME Nat \ S # {} PROVE FALSE
  OBVIOUS
<1>1. PICK x \in Nat \ S : \A y \in Nat \ S : x <= y
  BY Smallest
<1>2. x # 0 /\ x - 1 \in Nat /\ x - 1 \in S
  BY <1>1
<1> QED
  BY <1>1, <1>2

(* The first values of the function that starts at base and goes on by     *)
(* step.                                                                   *)
Prefix(S, base, step, m) ==
    {g \in [0 .. m -> S] :
        g[0] = base /\ \A n \in 0 .. m - 1 : g[n + 1] = step[n][g[n]]}

(* Two of them agree where both are defined.                               *)
LEMMA PrefixesAgree ==
    ASSUME NEW S, NEW base, NEW step, NEW m \in Nat, NEW l \in Nat,
           NEW g \in Prefix(S, base, step, m),
           NEW h \in Prefix(S, base, step, l)
    PROVE  \A n \in Nat : n <= m /\ n <= l => g[n] = h[n]
<1> DEFINE A == {n \in Nat : n <= m /\ n <= l => g[n] = h[n]}
<1>1. 0 \in A
  BY DEF Prefix
<1>2. ASSUME NEW n \in Nat, n \in A
      PROVE  n + 1 \in A
  <2> SUFFICES ASSUME n + 1 <= m, n + 1 <= l PROVE g[n + 1] = h[n + 1]
    OBVIOUS
  <2>1. n \in 0 .. m - 1 /\ n \in 0 .. l - 1 /\ g[n] = h[n]
    BY <1>2
  <2> QED
    BY <2>1 DEF Prefix
<1> HIDE DEF A
<1>3. Nat \subseteq A
  BY <1>1, <1>2, Induction
<1> QED
  BY <1>3 DEF A

(* There is one of every length.                                           *)
LEMMA PrefixExists ==
    ASSUME NEW S, NEW base \in S, NEW step \in [Nat -> [S -> S]]
    PROVE  \A m \in Nat : Prefix(S, base, step, m) # {}
<1> DEFINE A == {m \in Nat : Prefix(S, base, step, m) # {}}
<1>1. 0 \in A
  <2>1. [n \in 0 .. 0 |-> base] \in Prefix(S, base, step, 0)
    BY DEF Prefix
  <2> QED
    BY <2>1
<1>2. ASSUME NEW m \in Nat, m \in A
      PROVE  m + 1 \in A
  <2>1. PICK g : g \in Prefix(S, base, step, m)
    BY <1>2
  <2>2. g \in [0 .. m -> S] /\ g[m] \in S
    BY <2>1 DEF Prefix
  <2> DEFINE h == [n \in 0 .. m + 1 |-> IF n = m + 1 THEN step[m][g[m]] ELSE g[n]]
  <2>3. step[m][g[m]] \in S
    BY <2>2
  <2>4. h \in [0 .. m + 1 -> S]
    BY <2>2, <2>3
  <2>5. h[0] = base
    BY <2>1 DEF Prefix
  <2>6. ASSUME NEW n \in 0 .. m
        PROVE  h[n + 1] = step[n][h[n]]
    <3>1. h[n] = g[n]
      OBVIOUS
    <3>2. CASE n = m
      BY <3>1, <3>2
    <3>3. CASE n # m
      <4>1. n \in 0 .. m - 1 /\ h[n + 1] = g[n + 1]
        BY <3>3
      <4> QED
        BY <3>1, <4>1, <2>1 DEF Prefix
    <3> QED
      BY <3>2, <3>3
  <2> HIDE DEF h
  <2>7. h \in Prefix(S, base, step, m + 1)
    BY <2>4, <2>5, <2>6 DEF Prefix
  <2> QED
    BY <2>7
<1> HIDE DEF A
<1>3. Nat \subseteq A
  BY <1>1, <1>2, Induction
<1> QED
  BY <1>3 DEF A

Follows(f, base, step) ==
    f[0] = base /\ \A n \in Nat : f[n + 1] = step[n][f[n]]

(* There is a function that starts at base and goes on by step.            *)
LEMMA Recursion ==
    ASSUME NEW S, NEW base \in S, NEW step \in [Nat -> [S -> S]]
    PROVE  \E f \in [Nat -> S] : Follows(f, base, step)
<1> DEFINE G(m) == CHOOSE g : g \in Prefix(S, base, step, m)
           f == [m \in Nat |-> G(m)[m]]
<1>1. \A m \in Nat : G(m) \in Prefix(S, base, step, m)
  BY PrefixExists
<1> HIDE DEF G
<1>2. f \in [Nat -> S]
  BY <1>1 DEF Prefix
<1>3. f[0] = base
  BY <1>1 DEF Prefix
<1>4. ASSUME NEW n \in Nat
      PROVE  f[n + 1] = step[n][f[n]]
  <2>1. G(n + 1)[n + 1] = step[n][G(n + 1)[n]]
    BY <1>1 DEF Prefix
  <2>2. G(n + 1)[n] = G(n)[n]
    BY <1>1, PrefixesAgree
  <2> QED
    BY <2>1, <2>2
<1> QED
  BY <1>2, <1>3, <1>4 DEF Follows

-----------------------------------------------------------------------------
(* The table of verify.c                                                   *)

(* Membership in the two operations on words.                              *)
LEMMA InXor ==
    \A a, b, n : n \in Xor(a, b) <=> ~(n \in a <=> n \in b)
BY DEF Xor

LEMMA InShift ==
    ASSUME NEW a \in SUBSET Nat, NEW n \in Nat
    PROVE  \A j : j \in ShiftRight(a, n) <=> j \in Nat /\ j + n \in a
<1>1. ASSUME NEW j \in ShiftRight(a, n) PROVE j \in Nat /\ j + n \in a
  BY <1>1 DEF ShiftRight
<1>2. ASSUME NEW j \in Nat, j + n \in a PROVE j \in ShiftRight(a, n)
  <2>1. j + n >= n /\ (j + n) - n = j
    OBVIOUS
  <2> QED
    BY <1>2, <2>1 DEF ShiftRight
<1> QED
  BY <1>1, <1>2

(* Words are closed under the operations.                                  *)
LEMMA WordsAreNumbers ==
    Bit \subseteq Nat /\ Word \subseteq SUBSET Nat /\ Byte \subseteq Word
BY DEF Bit, Word, Byte

LEMMA XorIsWord ==
    ASSUME NEW a \in Word, NEW b \in Word
    PROVE  Xor(a, b) \in Word
BY DEF Xor, Word

LEMMA ShiftIsWord ==
    ASSUME NEW a \in Word, NEW n \in Nat
    PROVE  ShiftRight(a, n) \in Word
<1>1. a \in SUBSET Nat
  BY WordsAreNumbers
<1>2. \A j \in ShiftRight(a, n) : j \in Nat /\ j + n \in 0 .. 31
  BY <1>1, InShift DEF Word, Bit
<1> QED
  BY <1>2 DEF Word, Bit

LEMMA PolynomialIsWord == Polynomial \in Word
<1>1. \A n : Bits(n) \subseteq 0 .. 15
  BY DEF Bits
<1> HIDE DEF Bits
<1>2. \A h, l : Halves(h, l) \subseteq 0 .. 31
  BY <1>1 DEF Halves
<1> QED
  BY <1>2 DEF Polynomial, Word, Bit

(* One turn of either loop takes a word to a word.                         *)
LEMMA TurnIsWord ==
    ASSUME NEW r \in Word
    PROVE  Turn(r) \in Word
<1>1. {} \in Word
  BY DEF Word
<1> QED
  BY <1>1, PolynomialIsWord, ShiftIsWord, XorIsWord DEF Turn

LEMMA DivideBitIsWord ==
    ASSUME NEW reg \in Word, NEW bit
    PROVE  DivideBit(reg, bit) \in Word
<1>1. {} \in Word
  BY DEF Word
<1> QED
  BY <1>1, PolynomialIsWord, ShiftIsWord, XorIsWord DEF DivideBit

(* The recursive definitions say what they seem to say.                    *)
LEMMA ReductionsDef ==
    ASSUME NEW r \in Word
    PROVE  /\ Reductions(r) \in [Nat -> Word]
           /\ Reductions(r)[0] = r
           /\ \A j \in Nat :
                 Reductions(r)[j + 1] = Turn(Reductions(r)[j])
<1> DEFINE step == [j \in Nat |-> [w \in Word |-> Turn(w)]]
<1>1. step \in [Nat -> [Word -> Word]]
  BY TurnIsWord
<1>2. \A j \in Nat, w \in Word : step[j][w] = Turn(w)
  OBVIOUS
<1> HIDE DEF step
<1>3. PICK f \in [Nat -> Word] : Follows(f, r, step)
  BY <1>1, Recursion
<1> DEFINE R(g) == [j \in Nat |-> IF j = 0 THEN r ELSE Turn(g[j - 1])]
<1>4. f = R(f)
  <2>1. ASSUME NEW j \in Nat
        PROVE  f[j] = R(f)[j]
    <3>1. CASE j = 0
      BY <1>3, <3>1 DEF Follows
    <3>2. CASE j # 0
      <4>1. j - 1 \in Nat /\ (j - 1) + 1 = j
        BY <3>2
      <4> QED
        BY <1>2, <1>3, <3>2, <4>1 DEF Follows
    <3> QED
      BY <3>1, <3>2
  <2> QED
    BY <1>3, <2>1
<1> DEFINE F == Reductions(r)
<1>5. F = R(F)
  BY <1>4 DEF Reductions
<1> HIDE DEF F
<1>6. F[0] = r /\ \A j \in Nat : F[j + 1] = Turn(F[j])
  <2>1. F[0] = r
    BY <1>5
  <2>2. ASSUME NEW j \in Nat
        PROVE  F[j + 1] = Turn(F[j])
    <3>1. j + 1 \in Nat /\ j + 1 # 0 /\ (j + 1) - 1 = j
      OBVIOUS
    <3> QED
      BY <1>5, <3>1
  <2> QED
    BY <2>1, <2>2
<1>7. F \in [Nat -> Word]
  <2> DEFINE A == {j \in Nat : F[j] \in Word}
  <2>1. 0 \in A
    BY <1>6
  <2>2. \A j \in Nat : j \in A => j + 1 \in A
    BY <1>6, TurnIsWord
  <2> HIDE DEF A
  <2>3. Nat \subseteq A
    BY <2>1, <2>2, Induction
  <2> QED
    BY <1>5, <2>3 DEF A
<1> QED
  BY <1>6, <1>7 DEF F

(* The recursion of DivideBits, as equations.                              *)
LEMMA DivideBitsDef ==
    ASSUME NEW reg \in Word, NEW byte
    PROVE  /\ DivideBits(reg, byte) \in [Nat -> Word]
           /\ DivideBits(reg, byte)[0] = reg
           /\ \A j \in Nat :
                 DivideBits(reg, byte)[j + 1] =
                    DivideBit(DivideBits(reg, byte)[j], j \in byte)
<1> DEFINE step == [j \in Nat |-> [w \in Word |-> DivideBit(w, j \in byte)]]
<1>1. step \in [Nat -> [Word -> Word]]
  BY DivideBitIsWord
<1>2. \A j \in Nat, w \in Word : step[j][w] = DivideBit(w, j \in byte)
  OBVIOUS
<1> HIDE DEF step
<1>3. PICK f \in [Nat -> Word] : Follows(f, reg, step)
  BY <1>1, Recursion
<1> DEFINE R(g) == [j \in Nat |-> IF j = 0 THEN reg
                                  ELSE DivideBit(g[j - 1], j - 1 \in byte)]
<1>4. f = R(f)
  <2>1. ASSUME NEW j \in Nat
        PROVE  f[j] = R(f)[j]
    <3>1. CASE j = 0
      BY <1>3, <3>1 DEF Follows
    <3>2. CASE j # 0
      <4>1. j - 1 \in Nat /\ (j - 1) + 1 = j
        BY <3>2
      <4> QED
        BY <1>2, <1>3, <3>2, <4>1 DEF Follows
    <3> QED
      BY <3>1, <3>2
  <2> QED
    BY <1>3, <2>1
<1> DEFINE F == DivideBits(reg, byte)
<1>5. F = R(F)
  BY <1>4 DEF DivideBits
<1> HIDE DEF F
<1>6. F[0] = reg /\ \A j \in Nat : F[j + 1] = DivideBit(F[j], j \in byte)
  <2>1. F[0] = reg
    BY <1>5
  <2>2. ASSUME NEW j \in Nat
        PROVE  F[j + 1] = DivideBit(F[j], j \in byte)
    <3>1. j + 1 \in Nat /\ j + 1 # 0 /\ (j + 1) - 1 = j
      OBVIOUS
    <3> QED
      BY <1>5, <3>1
  <2> QED
    BY <2>1, <2>2
<1>7. F \in [Nat -> Word]
  <2> DEFINE A == {j \in Nat : F[j] \in Word}
  <2>1. 0 \in A
    BY <1>6
  <2>2. \A j \in Nat : j \in A => j + 1 \in A
    BY <1>6, DivideBitIsWord
  <2> HIDE DEF A
  <2>3. Nat \subseteq A
    BY <2>1, <2>2, Induction
  <2> QED
    BY <1>5, <2>3 DEF A
<1> QED
  BY <1>6, <1>7 DEF F

LEMMA BitIsWord == Bit \in Word
BY DEF Word

(* What a byte does to the register, as a function on words.               *)
LEMMA DivideByteIsMap ==
    ASSUME NEW byte
    PROVE  DivideByte(byte) \in [Word -> Word]
<1>1. \A reg \in Word : DivideBits(reg, byte)[8] \in Word
  BY DivideBitsDef
<1> QED
  BY <1>1 DEF DivideByte

(* The recursion of Division, as equations.                                *)
LEMMA DivisionDef ==
    ASSUME NEW message
    PROVE  /\ Division(message) \in [Nat -> Word]
           /\ Division(message)[0] = Bit
           /\ \A n \in Nat :
                 Division(message)[n + 1] =
                    DivideByte(message[n + 1])[Division(message)[n]]
<1> DEFINE step == [n \in Nat |-> [w \in Word |-> DivideByte(message[n + 1])[w]]]
<1>1. step \in [Nat -> [Word -> Word]]
  BY DivideByteIsMap
<1>2. \A n \in Nat, w \in Word : step[n][w] = DivideByte(message[n + 1])[w]
  OBVIOUS
<1> HIDE DEF step
<1>3. PICK f \in [Nat -> Word] : Follows(f, Bit, step)
  BY <1>1, Recursion, BitIsWord
<1> DEFINE R(g) == [n \in Nat |-> IF n = 0 THEN Bit ELSE DivideByte(message[n])[g[n - 1]]]
<1>4. f = R(f)
  <2>1. ASSUME NEW n \in Nat
        PROVE  f[n] = R(f)[n]
    <3>1. CASE n = 0
      BY <1>3, <3>1 DEF Follows
    <3>2. CASE n # 0
      <4>1. n - 1 \in Nat /\ (n - 1) + 1 = n
        BY <3>2
      <4> QED
        BY <1>2, <1>3, <3>2, <4>1 DEF Follows
    <3> QED
      BY <3>1, <3>2
  <2> QED
    BY <1>3, <2>1
<1> DEFINE F == Division(message)
<1>5. F = R(F)
  BY <1>4 DEF Division
<1> HIDE DEF F
<1>6. F[0] = Bit /\ \A n \in Nat : F[n + 1] = DivideByte(message[n + 1])[F[n]]
  <2>1. F[0] = Bit
    BY <1>5
  <2>2. ASSUME NEW n \in Nat
        PROVE  F[n + 1] = DivideByte(message[n + 1])[F[n]]
    <3>1. n + 1 \in Nat /\ n + 1 # 0 /\ (n + 1) - 1 = n
      OBVIOUS
    <3> QED
      BY <1>5, <3>1
  <2> QED
    BY <2>1, <2>2
<1>7. F \in [Nat -> Word]
  <2> DEFINE A == {n \in Nat : F[n] \in Word}
  <2>1. 0 \in A
    BY <1>6, BitIsWord
  <2>2. \A n \in Nat : n \in A => n + 1 \in A
    BY <1>6, DivideByteIsMap
  <2> HIDE DEF A
  <2>3. Nat \subseteq A
    BY <2>1, <2>2, Induction
  <2> QED
    BY <1>5, <2>3 DEF A
<1> QED
  BY <1>6, <1>7 DEF F

(* The loop of crc32 keeps the complement of the register: a look at the   *)
(* table is a division by eight bits.  The two run in step, and where they *)
(* differ is known in advance: the ones that the byte, the rest of the     *)
(* remainder and the inverted top of the entry will shift in.              *)
LEMMA TableDividesByte ==
    ASSUME NEW c \in Word, NEW byte \in Byte
    PROVE  DivideByte(byte)[Not(c)] = Not(CrcNext(c, byte))
<1> DEFINE a == Xor(LowByte(c), byte)
           T == Reductions(a)
           R == DivideBits(Not(c), byte)
           Mask == byte \cup (c \ (0 .. 7)) \cup (32 .. 39)
           Apart(j) == \A n \in Bit : n \in R[j] <=> (n \in T[j] <=> n + j \in Mask)
<1>1. a \in Byte /\ a \in Word /\ Not(c) \in Word
  BY WordsAreNumbers DEF Xor, LowByte, Byte, Not, Word
<1>2. /\ T \in [Nat -> Word] /\ R \in [Nat -> Word]
      /\ T[0] = a /\ R[0] = Not(c)
      /\ \A j \in Nat : T[j + 1] = Turn(T[j]) /\ R[j + 1] = DivideBit(R[j], j \in byte)
  BY <1>1, ReductionsDef, DivideBitsDef
<1>3. Apart(0)
  <2> SUFFICES ASSUME NEW n \in Bit
               PROVE  n \in Not(c) <=> (n \in a <=> n \in Mask)
    BY <1>2 DEF Bit
  <2> QED
    BY DEF Xor, LowByte, Byte, Not, Bit
<1> HIDE DEF a, T, R
<1>4. ASSUME NEW j \in 0 .. 7, Apart(j)
      PROVE  Apart(j + 1)
  <2> DEFINE t == T[j]
             r == R[j]
  <2>1. t \in Word /\ r \in Word
    BY <1>2
  <2>2. t \in SUBSET Nat /\ r \in SUBSET Nat
    BY <2>1, WordsAreNumbers
  <2>3. \A n \in Bit : n \in r <=> (n \in t <=> n + j \in Mask)
    BY <1>4
  <2>4. T[j + 1] = Turn(t) /\ R[j + 1] = DivideBit(r, j \in byte)
    BY <1>2
  <2> HIDE DEF t, r
  <2>5. j \in Mask <=> j \in byte
    OBVIOUS
  <2>6. 0 \in r <=> (0 \in t <=> j \in byte)
    BY <2>3, <2>5 DEF Bit
  <2>7. ASSUME NEW n \in Bit
        PROVE  n \in DivideBit(r, j \in byte) <=>
                  (n \in Turn(t) <=> n + (j + 1) \in Mask)
    <3>1. n \in Turn(t) <=> ~(n + 1 \in t <=> 0 \notin t /\ n \in Polynomial)
      BY <2>2, InXor, InShift DEF Turn, Bit
    <3>2. n \in DivideBit(r, j \in byte) <=>
             ~(n + 1 \in r <=> ~(0 \in r <=> j \in byte) /\ n \in Polynomial)
      BY <2>2, InXor, InShift DEF DivideBit, Bit
    <3>3. n + 1 \in r <=> (n + 1 \in t <=> n + (j + 1) \in Mask)
      <4>1. CASE n = 31
        BY <2>1, <4>1 DEF Word, Bit
      <4>2. CASE n # 31
        BY <2>3, <4>2 DEF Bit
      <4> QED
        BY <4>1, <4>2
    <3> HIDE DEF Mask
    <3> QED
      BY <3>1, <3>2, <3>3, <2>6
  <2> QED
    BY <2>4, <2>7
<1>5. Apart(8)
  <2> HIDE DEF Mask
  <2> DEFINE A == {j \in Nat : j <= 8 => Apart(j)}
  <2>1. 0 \in A
    BY <1>3
  <2>2. ASSUME NEW j \in Nat, j \in A
        PROVE  j + 1 \in A
    <3> SUFFICES ASSUME j + 1 <= 8 PROVE Apart(j + 1)
      OBVIOUS
    <3>1. j \in 0 .. 7 /\ Apart(j)
      BY <2>2
    <3> HIDE DEF Apart
    <3> QED
      BY <3>1, <1>4
  <2> HIDE DEF A
  <2>3. Nat \subseteq A
    BY <2>1, <2>2, Induction
  <2> QED
    BY <2>3 DEF A
<1>6. DivideByte(byte)[Not(c)] = R[8]
  BY <1>1 DEF DivideByte, R
<1>7. CrcNext(c, byte) = Xor(Xor(T[8], 24 .. 31), ShiftRight(c, 8))
  BY <1>1 DEF CrcNext, table, crc32_for_byte, a, T
<1>8. ASSUME NEW n
      PROVE  n \in R[8] <=> n \in Not(CrcNext(c, byte))
  <2>1. R[8] \in Word
    BY <1>2
  <2>2. CASE n \in Bit
    <3>1. n \in CrcNext(c, byte) <=> ~(~(n \in T[8] <=> n \in 24 .. 31) <=> n + 8 \in c)
      BY <1>7, <2>2, InXor, InShift, WordsAreNumbers DEF Bit
    <3>2. n + 8 \in Mask <=> n + 8 \in c \/ n \in 24 .. 31
      BY <2>2 DEF Bit, Byte
    <3>3. ~(n + 8 \in c /\ n \in 24 .. 31)
      BY DEF Word, Bit
    <3>4. n \in R[8] <=> (n \in T[8] <=> n + 8 \in Mask)
      BY <1>5, <2>2
    <3> HIDE DEF Mask
    <3> QED
      BY <3>1, <3>2, <3>3, <3>4, <2>2 DEF Not
  <2>3. CASE n \notin Bit
    BY <2>1, <2>3 DEF Not, Word
  <2> QED
    BY <2>2, <2>3
<1> QED
  BY <1>6, <1>8

-----------------------------------------------------------------------------
(* Bursts of damage                                                        *)

(* The top bit of the polynomial is what shows whether it was added.       *)
LEMMA PolynomialTop == 31 \in Polynomial
<1>1. 15 \in Bits(\hEDB8)
  BY DEF Bits
<1> QED
  BY <1>1 DEF Polynomial, Halves

(* The bits at which two messages differ, as seen from the bit that is     *)
(* next, added to the difference of the two registers: what this becomes   *)
(* when both messages move on by a bit does not depend on their bits.      *)
Shrunk(e) == Xor(ShiftRight(e, 1), IF 0 \in e THEN Polynomial ELSE {})

(* Two registers that see a bit each.                                      *)
LEMMA DifferenceShrinks ==
    ASSUME NEW r1 \in Word, NEW r2 \in Word, NEW b1 \in BOOLEAN, NEW b2 \in BOOLEAN,
           NEW ahead \in SUBSET Nat, 0 \in ahead <=> ~(b1 <=> b2)
    PROVE  Xor(Xor(DivideBit(r1, b1), DivideBit(r2, b2)), ShiftRight(ahead, 1)) =
              Shrunk(Xor(Xor(r1, r2), ahead))
<1> DEFINE e == Xor(Xor(r1, r2), ahead)
<1>1. r1 \in SUBSET Nat /\ r2 \in SUBSET Nat /\ e \in SUBSET Nat
  BY WordsAreNumbers DEF Xor
<1>2. \A n : n \in e <=> ~(~(n \in r1 <=> n \in r2) <=> n \in ahead)
  BY InXor
<1> HIDE DEF e
<1>3. ASSUME NEW n
      PROVE  /\ n \in DivideBit(r1, b1) <=>
                  ~(n \in ShiftRight(r1, 1) <=> ~(0 \in r1 <=> b1) /\ n \in Polynomial)
             /\ n \in DivideBit(r2, b2) <=>
                  ~(n \in ShiftRight(r2, 1) <=> ~(0 \in r2 <=> b2) /\ n \in Polynomial)
             /\ n \in Shrunk(e) <=>
                  ~(n \in ShiftRight(e, 1) <=> 0 \in e /\ n \in Polynomial)
  BY InXor DEF DivideBit, Shrunk
<1>4. ASSUME NEW n
      PROVE  n \in ShiftRight(e, 1) <=>
               ~(~(n \in ShiftRight(r1, 1) <=> n \in ShiftRight(r2, 1))
                  <=> n \in ShiftRight(ahead, 1))
  <2>1. CASE n \in Nat
    BY <1>1, <1>2, <2>1, InShift
  <2>2. CASE n \notin Nat
    BY <1>1, <2>2, InShift
  <2> QED
    BY <2>1, <2>2
<1>5. ASSUME NEW n
      PROVE  n \in Xor(Xor(DivideBit(r1, b1), DivideBit(r2, b2)), ShiftRight(ahead, 1))
               <=> n \in Shrunk(e)
  <2>1. n \in Xor(Xor(DivideBit(r1, b1), DivideBit(r2, b2)), ShiftRight(ahead, 1)) <=>
          ~(~(n \in DivideBit(r1, b1) <=> n \in DivideBit(r2, b2)) <=> n \in ShiftRight(ahead, 1))
    BY InXor
  <2> QED
    BY <2>1, <1>2, <1>3, <1>4
<1> QED
  BY <1>5 DEF e

(* What is left of a burst after p bits: all of it while none has come,    *)
(* and then something, within the 32 bits of the register.                 *)
Live(e, diff, at, p) ==
    \/ p <= at /\ e = ShiftRight(diff, p)
    \/ p >= at /\ e \in Word /\ e # {}

LEMMA BurstLives ==
    ASSUME NEW at \in Nat, NEW p \in Nat, NEW diff, NEW e,
           diff \subseteq at .. at + 31, diff # {}, Live(e, diff, at, p)
    PROVE  Live(Shrunk(e), diff, at, p + 1)
<1>1. diff \in SUBSET Nat
  OBVIOUS
<1>2. CASE p < at
  <2>1. e = ShiftRight(diff, p)
    BY <1>2 DEF Live
  <2>2. \A n : n \in e <=> n \in Nat /\ n + p \in diff
    BY <1>1, <2>1, InShift
  <2>3. 0 \notin e /\ e \in SUBSET Nat
    BY <1>2, <2>2
  <2>4. \A n : n \in Shrunk(e) <=> n \in ShiftRight(e, 1)
    BY <2>3, InXor DEF Shrunk
  <2>5. \A n : n \in ShiftRight(e, 1) <=> n \in Nat /\ n + (p + 1) \in diff
    BY <2>2, <2>3, InShift
  <2>6. \A n : n \in ShiftRight(diff, p + 1) <=> n \in Nat /\ n + (p + 1) \in diff
    BY <1>1, InShift
  <2>7. Shrunk(e) = ShiftRight(diff, p + 1)
    BY <2>4, <2>5, <2>6
  <2> QED
    BY <1>2, <2>7 DEF Live
<1>3. CASE p >= at
  <2>1. e \in Word /\ e # {}
    <3>1. CASE e = ShiftRight(diff, p) /\ p <= at
      <4>1. p = at /\ \A n : n \in e <=> n \in Nat /\ n + at \in diff
        BY <1>1, <1>3, <3>1, InShift
      <4>2. e \in Word
        BY <4>1 DEF Word, Bit
      <4>3. PICK q \in diff : q \in at .. at + 31
        OBVIOUS
      <4>4. q - at \in e
        BY <4>1, <4>3
      <4> QED
        BY <4>2, <4>4
    <3>2. CASE ~(e = ShiftRight(diff, p) /\ p <= at)
      BY <3>2 DEF Live
    <3> QED
      BY <3>1, <3>2
  <2>2. e \in SUBSET Nat /\ 32 \notin e
    BY <2>1, WordsAreNumbers DEF Word, Bit
  <2>3. Shrunk(e) \in Word
    <3>1. {} \in Word
      BY DEF Word
    <3> QED
      BY <2>1, <3>1, PolynomialIsWord, ShiftIsWord, XorIsWord DEF Shrunk
  <2>4. Shrunk(e) # {}
    <3>1. CASE 0 \in e
      <4>1. 31 \notin ShiftRight(e, 1)
        BY <2>2, InShift
      <4>2. 31 \in Shrunk(e)
        BY <3>1, <4>1, InXor, PolynomialTop DEF Shrunk
      <4> QED
        BY <4>2
    <3>2. CASE 0 \notin e
      <4>1. PICK n \in e : n \in Nat /\ n # 0
        BY <2>1, <2>2, <3>2
      <4>2. n - 1 \in Nat /\ (n - 1) + 1 = n
        BY <4>1
      <4>3. n - 1 \in ShiftRight(e, 1)
        BY <2>2, <4>1, <4>2, InShift
      <4>4. n - 1 \in Shrunk(e)
        BY <3>2, <4>3, InXor DEF Shrunk
      <4> QED
        BY <4>4
    <3> QED
      BY <3>1, <3>2
  <2> QED
    BY <1>3, <2>3, <2>4 DEF Live
<1> QED
  BY <1>2, <1>3

(* Two shifts are one.                                                     *)
LEMMA ShiftsAdd ==
    ASSUME NEW a \in SUBSET Nat, NEW p \in Nat
    PROVE  ShiftRight(ShiftRight(a, p), 1) = ShiftRight(a, p + 1)
<1>1. \A n : n \in ShiftRight(a, p) <=> n \in Nat /\ n + p \in a
  BY InShift
<1>2. ShiftRight(a, p) \in SUBSET Nat
  BY <1>1
<1>3. \A n : n \in ShiftRight(ShiftRight(a, p), 1) <=> n \in Nat /\ (n + 1) + p \in a
  BY <1>1, <1>2, InShift
<1>4. \A n : n \in ShiftRight(a, p + 1) <=> n \in Nat /\ n + (p + 1) \in a
  BY InShift
<1>5. \A n \in Nat : (n + 1) + p = n + (p + 1)
  OBVIOUS
<1> QED
  BY <1>3, <1>4, <1>5

(* A byte of both messages.                                                *)
LEMMA BurstLivesByte ==
    ASSUME NEW at \in Nat, NEW p \in Nat, NEW diff,
           diff \subseteq at .. at + 31, diff # {},
           NEW r1 \in Word, NEW r2 \in Word, NEW byte1, NEW byte2,
           \A j \in 0 .. 7 : p + j \in diff <=> ~(j \in byte1 <=> j \in byte2),
           Live(Xor(Xor(r1, r2), ShiftRight(diff, p)), diff, at, p)
    PROVE  Live(Xor(Xor(DivideByte(byte1)[r1], DivideByte(byte2)[r2]),
                    ShiftRight(diff, p + 8)), diff, at, p + 8)
<1> DEFINE D1 == DivideBits(r1, byte1)
           D2 == DivideBits(r2, byte2)
           E(j) == Xor(Xor(D1[j], D2[j]), ShiftRight(diff, p + j))
           A == {j \in Nat : j <= 8 => Live(E(j), diff, at, p + j)}
<1>1. /\ D1 \in [Nat -> Word] /\ D1[0] = r1
      /\ \A j \in Nat : D1[j + 1] = DivideBit(D1[j], j \in byte1)
      /\ D2 \in [Nat -> Word] /\ D2[0] = r2
      /\ \A j \in Nat : D2[j + 1] = DivideBit(D2[j], j \in byte2)
  BY DivideBitsDef
<1>2. DivideByte(byte1)[r1] = D1[8] /\ DivideByte(byte2)[r2] = D2[8]
  BY DEF DivideByte
<1> HIDE DEF D1, D2
<1>3. diff \in SUBSET Nat
  OBVIOUS
<1>4. 0 \in A
  BY <1>1
<1>5. ASSUME NEW j \in Nat, j \in A
      PROVE  j + 1 \in A
  <2> SUFFICES ASSUME j + 1 <= 8 PROVE Live(E(j + 1), diff, at, p + (j + 1))
    OBVIOUS
  <2> DEFINE ahead == ShiftRight(diff, p + j)
             b1 == j \in byte1
             b2 == j \in byte2
  <2>1. j \in 0 .. 7 /\ Live(E(j), diff, at, p + j)
    BY <1>5
  <2>2. ahead \in SUBSET Nat /\ (0 \in ahead <=> p + j \in diff)
    <3>1. p + j \in Nat /\ 0 + (p + j) = p + j
      OBVIOUS
    <3>2. \A n : n \in ahead <=> n \in Nat /\ n + (p + j) \in diff
      BY <1>3, <3>1, InShift
    <3> HIDE DEF ahead
    <3> QED
      BY <3>1, <3>2
  <2>3. 0 \in ahead <=> ~(b1 <=> b2)
    BY <2>1, <2>2
  <2>4. ShiftRight(ahead, 1) = ShiftRight(diff, p + (j + 1))
    <3>1. p + j \in Nat /\ (p + j) + 1 = p + (j + 1)
      OBVIOUS
    <3> QED
      BY <1>3, <3>1, ShiftsAdd
  <2>5. D1[j] \in Word /\ D2[j] \in Word /\ b1 \in BOOLEAN /\ b2 \in BOOLEAN
    BY <1>1
  <2>6. D1[j + 1] = DivideBit(D1[j], b1) /\ D2[j + 1] = DivideBit(D2[j], b2)
    BY <1>1
  <2> HIDE DEF ahead, b1, b2
  <2>7. Xor(Xor(DivideBit(D1[j], b1), DivideBit(D2[j], b2)), ShiftRight(ahead, 1)) =
           Shrunk(Xor(Xor(D1[j], D2[j]), ahead))
    BY <2>2, <2>3, <2>5, DifferenceShrinks
  <2>8. E(j + 1) = Shrunk(E(j))
    BY <2>4, <2>6, <2>7 DEF ahead
  <2>9. Live(Shrunk(E(j)), diff, at, (p + j) + 1)
    <3>1. p + j \in Nat
      OBVIOUS
    <3> HIDE DEF E
    <3> QED
      BY <2>1, <3>1, BurstLives
  <2>10. (p + j) + 1 = p + (j + 1)
    OBVIOUS
  <2> HIDE DEF E
  <2> QED
    BY <2>8, <2>9, <2>10
<1> HIDE DEF A
<1>6. Nat \subseteq A
  BY <1>4, <1>5, Induction
<1>7. Live(E(8), diff, at, p + 8)
  BY <1>6 DEF A
<1> QED
  BY <1>2, <1>7

(* Damage within 32 bits that follow each other changes the checksum.      *)
LEMMA BurstChangesCrc ==
    ASSUME NEW sent \in Seq(Byte), NEW kept \in Seq(Byte),
           Len(kept) = Len(sent), kept # sent, Burst(sent, kept)
    PROVE  binascii_crc32(kept) # binascii_crc32(sent)
<1> DEFINE diff == Xor(MessageBits(sent), MessageBits(kept))
           N == Len(sent)
<1>1. N \in Nat /\ \A n \in 1 .. N : sent[n] \in Byte /\ kept[n] \in Byte
  OBVIOUS
<1>2. PICK at \in Nat : diff \subseteq at .. at + 31
  BY <1>1 DEF Burst
<1>3. ASSUME NEW n \in Nat, n < N, NEW j \in 0 .. 7
      PROVE  8 * n + j \in diff <=> ~(j \in sent[n + 1] <=> j \in kept[n + 1])
  <2>1. /\ 8 * n + j \in 0 .. 8 * N - 1
        /\ (8 * n + j) % 8 = j
        /\ (8 * n + j) \div 8 = n
    BY <1>1, <1>3
  <2>2. 8 * n + j \in MessageBits(sent) <=> j \in sent[n + 1]
    BY <2>1 DEF MessageBits
  <2>3. 8 * n + j \in MessageBits(kept) <=> j \in kept[n + 1]
    BY <2>1 DEF MessageBits
  <2> QED
    BY <2>2, <2>3, InXor
<1>4. diff \subseteq 0 .. 8 * N - 1
  BY DEF Xor, MessageBits
<1>5. diff # {}
  <2>1. PICK n \in 1 .. N : sent[n] # kept[n]
    <3> SUFFICES ASSUME \A n \in 1 .. N : sent[n] = kept[n] PROVE FALSE
      OBVIOUS
    <3> QED
      BY <1>1
  <2>2. PICK j \in 0 .. 7 : ~(j \in sent[n] <=> j \in kept[n])
    BY <1>1, <2>1 DEF Byte
  <2>3. n - 1 \in Nat /\ n - 1 < N /\ (n - 1) + 1 = n
    BY <1>1
  <2>4. 8 * (n - 1) + j \in diff
    BY <1>3, <2>2, <2>3
  <2> QED
    BY <2>4
<1> HIDE DEF diff
<1> DEFINE S == Division(sent)
           K == Division(kept)
           A == {n \in Nat : n <= N =>
                   Live(Xor(Xor(S[n], K[n]), ShiftRight(diff, 8 * n)), diff, at, 8 * n)}
<1>6. /\ S \in [Nat -> Word] /\ S[0] = Bit
      /\ \A n \in Nat : S[n + 1] = DivideByte(sent[n + 1])[S[n]]
      /\ K \in [Nat -> Word] /\ K[0] = Bit
      /\ \A n \in Nat : K[n + 1] = DivideByte(kept[n + 1])[K[n]]
  BY DivisionDef
<1>7. binascii_crc32(sent) = Not(S[N]) /\ binascii_crc32(kept) = Not(K[N])
  BY DEF binascii_crc32
<1> HIDE DEF S, K
<1>8. diff \in SUBSET Nat
  BY <1>2
<1>9. 0 \in A
  <2>1. Xor(Xor(Bit, Bit), ShiftRight(diff, 0)) = ShiftRight(diff, 0)
    BY DEF Xor
  <2> QED
    BY <1>2, <1>6, <2>1 DEF Live
<1>10. ASSUME NEW n \in Nat, n \in A
       PROVE  n + 1 \in A
  <2> SUFFICES ASSUME n < N
               PROVE  Live(Xor(Xor(S[n + 1], K[n + 1]), ShiftRight(diff, 8 * (n + 1))),
                           diff, at, 8 * (n + 1))
    BY <1>1
  <2>1. Live(Xor(Xor(S[n], K[n]), ShiftRight(diff, 8 * n)), diff, at, 8 * n)
    BY <1>10, <1>1
  <2>2. 8 * n \in Nat /\ 8 * n + 8 = 8 * (n + 1)
    OBVIOUS
  <2>3. S[n] \in Word /\ K[n] \in Word
    BY <1>6
  <2>4. Live(Xor(Xor(DivideByte(sent[n + 1])[S[n]], DivideByte(kept[n + 1])[K[n]]),
                 ShiftRight(diff, 8 * n + 8)), diff, at, 8 * n + 8)
    <3>1. \A j \in 0 .. 7 :
             8 * n + j \in diff <=> ~(j \in sent[n + 1] <=> j \in kept[n + 1])
      BY <1>3
    <3> QED
      BY <1>2, <1>5, <2>1, <2>2, <2>3, <3>1, BurstLivesByte
  <2> QED
    BY <1>6, <2>2, <2>4
<1> HIDE DEF A
<1>11. Nat \subseteq A
  BY <1>9, <1>10, Induction
<1>12. Live(Xor(Xor(S[N], K[N]), ShiftRight(diff, 8 * N)), diff, at, 8 * N)
  BY <1>1, <1>11 DEF A
<1>13. ShiftRight(diff, 8 * N) = {}
  <2>1. \A n : n \in ShiftRight(diff, 8 * N) <=> n \in Nat /\ n + 8 * N \in diff
    BY <1>1, <1>8, InShift
  <2> QED
    BY <1>1, <1>4, <2>1
<1>14. S[N] # K[N]
  <2> SUFFICES ASSUME S[N] = K[N] PROVE FALSE
    OBVIOUS
  <2>1. Xor(Xor(S[N], K[N]), ShiftRight(diff, 8 * N)) = {}
    BY <1>13 DEF Xor
  <2>2. 8 * N <= at
    BY <1>12, <2>1 DEF Live
  <2>3. PICK p \in diff : p \in at .. at + 31 /\ p \in 0 .. 8 * N - 1
    BY <1>2, <1>4, <1>5
  <2> HIDE DEF N
  <2> QED
    BY <1>1, <2>2, <2>3
<1> QED
  BY <1>1, <1>6, <1>7, <1>14 DEF Not, Word

-----------------------------------------------------------------------------
(* The digest                                                              *)

HashValue == {sha256_init.state} \cup [1 .. 8 -> Word]

(* What a chain of compressions is made of.                                *)
LEMMA InitIsHash == sha256_init.state \in HashValue
BY DEF HashValue

LEMMA CompressIsHash == \A state, block : Compress(state, block) \in HashValue
<1>1. \A a, b : Add(a, b) \in Word
  BY DEF Add, Word
<1> QED
  BY <1>1 DEF Compress, HashValue

(* The recursion of Chain, as equations.                                   *)
LEMMA ChainDef ==
    ASSUME NEW message
    PROVE  /\ Chain(message) \in [Nat -> HashValue]
           /\ Chain(message)[0] = sha256_init.state
           /\ \A b \in Nat :
                 Chain(message)[b + 1] = Compress(Chain(message)[b], Block(message, b))
<1> DEFINE step == [b \in Nat |-> [w \in HashValue |-> Compress(w, Block(message, b))]]
<1>1. step \in [Nat -> [HashValue -> HashValue]]
  BY CompressIsHash
<1>2. \A b \in Nat, w \in HashValue : step[b][w] = Compress(w, Block(message, b))
  OBVIOUS
<1> HIDE DEF step
<1>3. PICK f \in [Nat -> HashValue] : Follows(f, sha256_init.state, step)
  BY <1>1, Recursion, InitIsHash
<1> DEFINE R(g) == [b \in Nat |-> IF b = 0 THEN sha256_init.state
                                  ELSE Compress(g[b - 1], Block(message, b - 1))]
<1>4. f = R(f)
  <2>1. ASSUME NEW b \in Nat
        PROVE  f[b] = R(f)[b]
    <3>1. CASE b = 0
      BY <1>3, <3>1 DEF Follows
    <3>2. CASE b # 0
      <4>1. b - 1 \in Nat /\ (b - 1) + 1 = b
        BY <3>2
      <4> QED
        BY <1>2, <1>3, <3>2, <4>1 DEF Follows
    <3> QED
      BY <3>1, <3>2
  <2> QED
    BY <1>3, <2>1
<1> DEFINE F == Chain(message)
<1>5. F = R(F)
  BY <1>4 DEF Chain
<1> HIDE DEF F
<1>6. F[0] = sha256_init.state /\ \A b \in Nat : F[b + 1] = Compress(F[b], Block(message, b))
  <2>1. F[0] = sha256_init.state
    BY <1>5
  <2>2. ASSUME NEW b \in Nat
        PROVE  F[b + 1] = Compress(F[b], Block(message, b))
    <3>1. b + 1 \in Nat /\ b + 1 # 0 /\ (b + 1) - 1 = b
      OBVIOUS
    <3> QED
      BY <1>5, <3>1
  <2> QED
    BY <2>1, <2>2
<1>7. F \in [Nat -> HashValue]
  <2> DEFINE A == {b \in Nat : F[b] \in HashValue}
  <2>1. 0 \in A
    BY <1>6, InitIsHash
  <2>2. \A b \in Nat : b \in A => b + 1 \in A
    BY <1>6, CompressIsHash
  <2> HIDE DEF A
  <2>3. Nat \subseteq A
    BY <2>1, <2>2, Induction
  <2> QED
    BY <1>5, <2>3 DEF A
<1> QED
  BY <1>6, <1>7 DEF F

(* What the code's updates do to the four fields of a context.             *)
Context(held, datalen, bitlen, state) ==
    [data |-> held, datalen |-> datalen, bitlen |-> bitlen, state |-> state]

Filled(held, at, byte) == [held EXCEPT ![at] = byte]

PaddedData(held, d, to) ==
    [n \in 1 .. 64 |->
        IF n = d + 1 THEN {7} ELSE IF n \in d + 1 .. to THEN {} ELSE held[n]]

LengthAdded(held, bits) ==
    [n \in 1 .. 64 |-> IF n <= 56 THEN held[n] ELSE LengthByte(bits, n)]

(* The context's fields, and one of them replaced.                         *)
LEMMA Fields ==
    ASSUME NEW held, NEW d, NEW l, NEW s
    PROVE  /\ Context(held, d, l, s).data = held
           /\ Context(held, d, l, s).datalen = d
           /\ Context(held, d, l, s).bitlen = l
           /\ Context(held, d, l, s).state = s
BY DEF Context

LEMMA DataIs ==
    ASSUME NEW held, NEW d, NEW l, NEW s, NEW x
    PROVE  [Context(held, d, l, s) EXCEPT !.data = x] = Context(x, d, l, s)
BY DEF Context

(* The operators of Sha256, field by field.                                *)
LEMMA TransformIs ==
    ASSUME NEW held, NEW d, NEW l, NEW s
    PROVE  sha256_transform(Context(held, d, l, s)) =
              Context(held, d, l, Compress(s, held))
BY DEF sha256_transform, Context

LEMMA UpdateIs ==
    ASSUME NEW held, NEW d \in Nat, NEW l \in Nat, NEW s, NEW byte
    PROVE  sha256_update(Context(held, d, l, s), byte) =
              IF d + 1 = 64
              THEN Context(Filled(held, d + 1, byte), 0, l + 512,
                           Compress(s, Filled(held, d + 1, byte)))
              ELSE Context(Filled(held, d + 1, byte), d + 1, l, s)
<1> DEFINE f == Filled(held, d + 1, byte)
           c == Context(held, d, l, s)
           t == Compress(s, f)
           filled == [c EXCEPT !.data[c.datalen + 1] = byte, !.datalen = @ + 1]
<1>1. c.data = held /\ c.datalen = d
  BY Fields
<1>2. filled = Context(f, d + 1, l, s)
  <2>1. filled = [[c EXCEPT !.data[c.datalen + 1] = byte] EXCEPT
                     !.datalen = c.datalen + 1]
    OBVIOUS
  <2>2. [c EXCEPT !.data[d + 1] = byte] = [c EXCEPT !.data = [c.data EXCEPT ![d + 1] = byte]]
    OBVIOUS
  <2>3. [c EXCEPT !.data = f] = Context(f, d, l, s)
    BY DataIs
  <2>4. [Context(f, d, l, s) EXCEPT !.datalen = d + 1] = Context(f, d + 1, l, s)
    BY DEF Context
  <2> HIDE DEF c, filled
  <2>5. [c EXCEPT !.data[d + 1] = byte] = Context(f, d, l, s)
    BY <1>1, <2>2, <2>3, Zenon DEF Filled
  <2> QED
    BY <1>1, <2>1, <2>4, <2>5, Zenon
<1>3. filled.datalen = d + 1
  BY <1>2, Fields
<1>4. sha256_transform(filled) = Context(f, d + 1, l, t)
  BY <1>2, TransformIs
<1>5. [sha256_transform(filled) EXCEPT !.bitlen = @ + 512, !.datalen = 0] =
         Context(f, 0, l + 512, t)
  <2> DEFINE e == sha256_transform(filled)
  <2> HIDE DEF filled, t
  <2>1. [e EXCEPT !.bitlen = @ + 512, !.datalen = 0] =
           [[e EXCEPT !.bitlen = e.bitlen + 512] EXCEPT !.datalen = 0]
    OBVIOUS
  <2>2. e.bitlen = l
    BY <1>4, Fields
  <2>3. [Context(f, d + 1, l, t) EXCEPT !.bitlen = l + 512] = Context(f, d + 1, l + 512, t)
    BY DEF Context
  <2>4. [Context(f, d + 1, l + 512, t) EXCEPT !.datalen = 0] = Context(f, 0, l + 512, t)
    BY DEF Context
  <2> HIDE DEF e
  <2>5. e = Context(f, d + 1, l, t)
    BY <1>4 DEF e
  <2>6. [e EXCEPT !.bitlen = e.bitlen + 512] = Context(f, d + 1, l + 512, t)
    BY <2>2, <2>3, <2>5, Zenon
  <2> QED
    BY <2>1, <2>4, <2>6, Zenon DEF e
<1>6. sha256_update(c, byte) =
         IF filled.datalen = 64
         THEN [sha256_transform(filled) EXCEPT !.bitlen = @ + 512, !.datalen = 0]
         ELSE filled
  <2> HIDE DEF c
  <2> QED
    BY Zenon DEF sha256_update
<1> HIDE DEF filled, t
<1> QED
  BY <1>2, <1>3, <1>5, <1>6, Zenon DEF t

LEMMA PadIs ==
    ASSUME NEW held, NEW d, NEW l, NEW s, NEW to
    PROVE  Pad(Context(held, d, l, s), to) =
              Context(PaddedData(held, d, to), d, l, s)
<1> DEFINE padded == PaddedData(held, d, to)
           c == Context(held, d, l, s)
<1>1. c.data = held /\ c.datalen = d
  BY Fields
<1>2. [c EXCEPT !.data = padded] = Context(padded, d, l, s)
  BY DataIs
<1> HIDE DEF c
<1>3. [n \in 1 .. 64 |->
          IF n = c.datalen + 1 THEN {7}
          ELSE IF n \in c.datalen + 1 .. to THEN {} ELSE c.data[n]] = padded
  BY <1>1 DEF PaddedData
<1>4. Pad(c, to) = [c EXCEPT !.data = padded]
  BY <1>3 DEF Pad
<1> QED
  BY <1>2, <1>4, Zenon DEF c

LEMMA AppendIs ==
    ASSUME NEW held, NEW d, NEW l, NEW s, NEW bits, bits = l + d * 8
    PROVE  AppendLength(Context(held, d, l, s)) =
              Context(LengthAdded(held, bits), d, bits, s)
<1> DEFINE ended == LengthAdded(held, bits)
           c == Context(held, d, l, s)
<1>1. c.data = held /\ c.datalen = d /\ c.bitlen = l
  BY Fields
<1>2. [c EXCEPT !.bitlen = bits] = Context(held, d, bits, s)
  BY DEF Context
<1>3. [Context(held, d, bits, s) EXCEPT !.data = ended] = Context(ended, d, bits, s)
  BY DataIs
<1> HIDE DEF c
<1>4. [n \in 1 .. 64 |-> IF n <= 56 THEN c.data[n] ELSE LengthByte(bits, n)] = ended
  BY <1>1 DEF LengthAdded
<1>5. AppendLength(c) = [c EXCEPT !.bitlen = bits, !.data = ended]
  <2>1. c.bitlen + c.datalen * 8 = bits
    BY <1>1
  <2> DEFINE R(x) == [c EXCEPT !.bitlen = x,
                               !.data = [n \in 1 .. 64 |->
                                           IF n <= 56 THEN @[n] ELSE LengthByte(x, n)]]
  <2>2. AppendLength(c) = R(c.bitlen + c.datalen * 8)
    BY Zenon DEF AppendLength
  <2>3. AppendLength(c) = R(bits)
    <3> HIDE DEF R
    <3> QED
      BY <2>1, <2>2, Zenon
  <2> QED
    BY <1>4, <2>3, Zenon
<1>6. [c EXCEPT !.bitlen = bits, !.data = ended] =
         [[c EXCEPT !.bitlen = bits] EXCEPT !.data = ended]
  OBVIOUS
<1> QED
  BY <1>2, <1>3, <1>5, <1>6, Zenon DEF c

(* Division by the size of a block.                                        *)
LEMMA Quotient ==
    \A n \in Nat : /\ n \div 64 \in Nat /\ (n % 64) \in 0 .. 63
                   /\ n = 64 * (n \div 64) + (n % 64)
OBVIOUS
(* The context after n bytes of a message: the blocks that are full are    *)
(* compressed, and the bytes of the next wait at the head of the buffer.   *)
Waiting(held, message, b, d) ==
    /\ held = [j \in 1 .. 64 |-> held[j]]
    /\ \A j \in 1 .. d : held[j] = message[64 * b + j]

Hashed(c, message, n) ==
    \E held :
        /\ c = Context(held, n % 64, 512 * (n \div 64), Chain(message)[n \div 64])
        /\ Waiting(held, message, n \div 64, n % 64)

(* A context is known by its fields.                                       *)
LEMMA HashedIs ==
    ASSUME NEW held, NEW message, NEW n, NEW b, NEW d,
           n \div 64 = b, n % 64 = d, Waiting(held, message, b, d)
    PROVE  Hashed(Context(held, d, 512 * b, Chain(message)[b]), message, n)
BY DEF Hashed

(* The initial context has hashed nothing, whatever Junk is.               *)
LEMMA HashStarts == \A message : Hashed(sha256_init, message, 0)
<1> TAKE message
<1> DEFINE s == sha256_init.state
           held == [n \in 1 .. 64 |-> Junk]
<1>1. Chain(message)[0] = s
  BY ChainDef
<1>2. sha256_init = Context(held, 0, 0, s)
  BY DEF sha256_init, Context
<1>3. 0 % 64 = 0 /\ 0 \div 64 = 0 /\ 512 * 0 = 0 /\ 1 .. 0 = {}
  OBVIOUS
<1>4. held = [j \in 1 .. 64 |-> held[j]]
  OBVIOUS
<1> HIDE DEF s, held
<1> QED
  BY <1>1, <1>2, <1>3, <1>4 DEF Hashed, Waiting

(* One more byte: it waits, or fills the block that is compressed.         *)
LEMMA HashUpdates ==
    ASSUME NEW message \in Seq(Byte), NEW n \in Nat, n < Len(message),
           NEW c, Hashed(c, message, n)
    PROVE  Hashed(sha256_update(c, message[n + 1]), message, n + 1)
<1> DEFINE b == n \div 64
           d == n % 64
           byte == message[n + 1]
           s == Chain(message)[b]
<1>1. b \in Nat /\ d \in 0 .. 63 /\ n = 64 * b + d
  BY Quotient
<1>2. PICK held : /\ c = Context(held, d, 512 * b, s)
                  /\ held = [j \in 1 .. 64 |-> held[j]]
                  /\ \A j \in 1 .. d : held[j] = message[64 * b + j]
  BY DEF Hashed, Waiting
<1> DEFINE f == Filled(held, d + 1, byte)
<1>3. Chain(message)[b + 1] = Compress(s, Block(message, b))
  BY <1>1, ChainDef
<1> HIDE DEF b, d, s
<1>4. f = [j \in 1 .. 64 |-> f[j]]
  BY <1>2 DEF Filled
<1>5. \A j \in 1 .. d + 1 : f[j] = message[64 * b + j]
  <2> SUFFICES ASSUME NEW j \in 1 .. d + 1 PROVE f[j] = message[64 * b + j]
    OBVIOUS
  <2>1. CASE j = d + 1
    <3>1. 64 * b + j = n + 1 /\ d + 1 \in 1 .. 64
      BY <1>1, <2>1
    <3>2. f[d + 1] = byte
      BY <1>2, <3>1 DEF Filled
    <3> QED
      BY <2>1, <3>1, <3>2
  <2>2. CASE j # d + 1
    <3>1. j \in 1 .. d /\ j \in 1 .. 64
      BY <1>1, <2>2
    <3>2. f[j] = held[j]
      BY <1>2, <2>2, <3>1 DEF Filled
    <3> QED
      BY <1>2, <3>1, <3>2
  <2> QED
    BY <2>1, <2>2
<1>6. sha256_update(c, byte) =
         IF d + 1 = 64 THEN Context(f, 0, 512 * b + 512, Compress(s, f))
         ELSE Context(f, d + 1, 512 * b, s)
  <2>1. d \in Nat /\ 512 * b \in Nat
    BY <1>1
  <2> HIDE DEF byte
  <2>2. sha256_update(Context(held, d, 512 * b, s), byte) =
           IF d + 1 = 64 THEN Context(f, 0, 512 * b + 512, Compress(s, f))
           ELSE Context(f, d + 1, 512 * b, s)
    BY <2>1, UpdateIs
  <2> HIDE DEF f
  <2> QED
    BY <1>2, <2>2
<1> HIDE DEF f
<1>7. CASE d # 63
  <2>1. (n + 1) \div 64 = b /\ (n + 1) % 64 = d + 1
    BY <1>1, <1>7
  <2>2. d + 1 # 64
    BY <1>1, <1>7
  <2>3. sha256_update(c, byte) = Context(f, d + 1, 512 * b, s)
    BY <1>6, <2>2
  <2>4. Waiting(f, message, b, d + 1)
    BY <1>4, <1>5 DEF Waiting
  <2>5. Hashed(Context(f, d + 1, 512 * b, Chain(message)[b]), message, n + 1)
    BY <2>1, <2>4, HashedIs
  <2> QED
    BY <2>3, <2>5 DEF s
<1>8. CASE d = 63
  <2>1. (n + 1) \div 64 = b + 1 /\ (n + 1) % 64 = 0 /\ n + 1 = 64 * b + 64
    BY <1>1, <1>8
  <2>2. f = Block(message, b)
    <3>1. \A j \in 1 .. 64 : 64 * b + j <= Len(message)
      <4>1. Len(message) \in Nat
        OBVIOUS
      <4> QED
        BY <1>1, <2>1, <4>1
    <3>2. Block(message, b) = [j \in 1 .. 64 |-> message[64 * b + j]]
      BY <3>1 DEF Block
    <3> QED
      BY <1>4, <1>5, <1>8, <3>2
  <2>3. 512 * b + 512 = 512 * (b + 1) /\ 1 .. 0 = {}
    BY <1>1
  <2>4. sha256_update(c, byte) =
           Context(f, 0, 512 * (b + 1), Chain(message)[b + 1])
    BY <1>3, <1>6, <1>8, <2>2, <2>3
  <2>5. Waiting(f, message, b + 1, 0)
    BY <1>4, <2>3 DEF Waiting
  <2>6. Hashed(Context(f, 0, 512 * (b + 1), Chain(message)[b + 1]), message, n + 1)
    <3> DEFINE next == b + 1
               m == n + 1
    <3>1. m \div 64 = next /\ m % 64 = 0 /\ Waiting(f, message, next, 0)
      BY <2>1, <2>5
    <3>2. Hashed(Context(f, 0, 512 * next, Chain(message)[next]), message, m)
      <4> HIDE DEF next, m
      <4> QED
        BY <3>1, HashedIs
    <3> QED
      BY <3>2
  <2> QED
    BY <2>4, <2>6
<1> QED
  BY <1>7, <1>8

(* The padding of sha256_final is that of the whole message: none of what  *)
(* the buffer held before reaches the digest.                              *)
LEMMA HashEnds ==
    ASSUME NEW message \in Seq(Byte), NEW c, Hashed(c, message, Len(message))
    PROVE  sha256_final(c).state = sha256(message)
<1> DEFINE N == Len(message)
           b == N \div 64
           d == N % 64
           s == Chain(message)[b]
<1>1. N \in Nat
  OBVIOUS
<1>2. PICK held : /\ c = Context(held, d, 512 * b, s)
                  /\ \A j \in 1 .. d : held[j] = message[64 * b + j]
  BY DEF Hashed, Waiting
<1>3. Blocks(message) = (N + 8) \div 64 + 1
  BY DEF Blocks
<1>4. ASSUME NEW k1 \in Nat, NEW j \in 1 .. 64
      PROVE  Block(message, k1)[j] =
                IF 64 * k1 + j <= N THEN message[64 * k1 + j]
                ELSE IF 64 * k1 + j = N + 1 THEN {7}
                ELSE IF 64 * k1 + j <= 64 * Blocks(message) - 8 THEN {}
                ELSE LengthByte(8 * N, j)
  BY DEF Block
<1>5. \A k1 : Block(message, k1) = [j \in 1 .. 64 |-> Block(message, k1)[j]]
  BY DEF Block
<1> HIDE DEF N
<1>6. b \in Nat /\ d \in 0 .. 63 /\ N = 64 * b + d
  BY <1>1, Quotient
<1>7. Chain(message)[b + 1] = Compress(s, Block(message, b))
  BY <1>6, ChainDef
<1> HIDE DEF b, d, s
<1>8. 512 * b + d * 8 = 8 * N
  BY <1>6
<1>9. c.datalen = d
  BY <1>2, Fields
<1>10. CASE d < 56
  <2>1. Blocks(message) = b + 1
    BY <1>3, <1>6, <1>10
  <2> DEFINE padded == PaddedData(held, d, 56)
             ended == LengthAdded(padded, 8 * N)
  <2>2. Pad(c, 56) = Context(padded, d, 512 * b, s)
    BY <1>2, PadIs
  <2>3. ended = Block(message, b)
    <3>1. ASSUME NEW j \in 1 .. 64
          PROVE  ended[j] = Block(message, b)[j]
      <4> DEFINE B == Block(message, b)[j]
                 E == ended[j]
      <4>0. E = IF j <= 56
                THEN IF j = d + 1 THEN {7}
                     ELSE IF j \in d + 1 .. 56 THEN {} ELSE held[j]
                ELSE LengthByte(8 * N, j)
        BY DEF LengthAdded, PaddedData
      <4>1. B = IF 64 * b + j <= N THEN message[64 * b + j]
                ELSE IF 64 * b + j = N + 1 THEN {7}
                ELSE IF 64 * b + j <= 64 * (b + 1) - 8 THEN {}
                ELSE LengthByte(8 * N, j)
        BY <1>4, <1>6, <2>1
      <4> HIDE DEF B, E, padded, ended
      <4>2. CASE j <= d
        <5>1. 64 * b + j <= N /\ j \in 1 .. d /\ j # d + 1 /\ j \notin d + 1 .. 56 /\ j <= 56
          BY <1>6, <1>10, <4>2
        <5> QED
          BY <1>2, <4>0, <4>1, <5>1 DEF B, E
      <4>3. CASE j = d + 1
        <5>1. ~(64 * b + j <= N) /\ 64 * b + j = N + 1 /\ j <= 56
          BY <1>6, <1>10, <4>3
        <5> QED
          BY <4>0, <4>1, <4>3, <5>1 DEF B, E
      <4>4. CASE j > d + 1 /\ j <= 56
        <5>1. /\ ~(64 * b + j <= N) /\ 64 * b + j # N + 1
              /\ 64 * b + j <= 64 * (b + 1) - 8 /\ j # d + 1 /\ j \in d + 1 .. 56
          BY <1>6, <1>10, <4>4
        <5> QED
          BY <4>0, <4>1, <4>4, <5>1 DEF B, E
      <4>5. CASE j > d + 1 /\ j > 56
        <5>1. /\ ~(64 * b + j <= N) /\ 64 * b + j # N + 1
              /\ ~(64 * b + j <= 64 * (b + 1) - 8) /\ ~(j <= 56)
          BY <1>6, <1>10, <4>5
        <5> QED
          BY <4>0, <4>1, <5>1 DEF B, E
      <4>6. \/ j <= d
            \/ j = d + 1
            \/ j > d + 1 /\ j <= 56
            \/ j > d + 1 /\ j > 56
        BY <1>6
      <4> QED
        BY <4>2, <4>3, <4>4, <4>5, <4>6
    <3> QED
      BY <1>5, <3>1 DEF LengthAdded
  <2> HIDE DEF padded
  <2>4. AppendLength(Pad(c, 56)) = Context(ended, d, 8 * N, s)
    BY <1>8, <2>2, AppendIs
  <2> HIDE DEF ended
  <2>5. sha256_transform(AppendLength(Pad(c, 56))) =
           Context(ended, d, 8 * N, Compress(s, ended))
    BY <2>4, TransformIs
  <2>6. sha256_final(c) = Context(ended, d, 8 * N, Compress(s, ended))
    BY <1>9, <1>10, <2>5 DEF sha256_final
  <2>7. sha256_final(c).state = Compress(s, ended)
    BY <2>6, Fields
  <2> QED
    BY <1>7, <2>1, <2>3, <2>7 DEF sha256
<1>11. CASE d >= 56
  <2>1. Blocks(message) = b + 2
    BY <1>3, <1>6, <1>11
  <2> DEFINE padded == PaddedData(held, d, 64)
             cleared == [n \in 1 .. 64 |-> IF n <= 56 THEN {} ELSE padded[n]]
             ended == LengthAdded(cleared, 8 * N)
             t == Compress(s, padded)
             e == sha256_transform(Pad(c, 64))
             r == [e EXCEPT !.data = [n \in 1 .. 64 |-> IF n <= 56 THEN {} ELSE @[n]]]
  <2>2. Pad(c, 64) = Context(padded, d, 512 * b, s)
    BY <1>2, PadIs
  <2>3. padded = Block(message, b)
    <3>1. ASSUME NEW j \in 1 .. 64
          PROVE  padded[j] = Block(message, b)[j]
      <4> DEFINE B == Block(message, b)[j]
                 E == padded[j]
      <4>0. E = IF j = d + 1 THEN {7}
                ELSE IF j \in d + 1 .. 64 THEN {} ELSE held[j]
        BY DEF PaddedData
      <4>1. B = IF 64 * b + j <= N THEN message[64 * b + j]
                ELSE IF 64 * b + j = N + 1 THEN {7}
                ELSE IF 64 * b + j <= 64 * (b + 2) - 8 THEN {}
                ELSE LengthByte(8 * N, j)
        BY <1>4, <1>6, <2>1
      <4> HIDE DEF B, E, padded
      <4>2. CASE j <= d
        <5>1. 64 * b + j <= N /\ j \in 1 .. d /\ j # d + 1 /\ j \notin d + 1 .. 64
          BY <1>6, <4>2
        <5> QED
          BY <1>2, <4>0, <4>1, <5>1 DEF B, E
      <4>3. CASE j = d + 1
        <5>1. ~(64 * b + j <= N) /\ 64 * b + j = N + 1
          BY <1>6, <4>3
        <5> QED
          BY <4>0, <4>1, <4>3, <5>1 DEF B, E
      <4>4. CASE j > d + 1
        <5>1. /\ ~(64 * b + j <= N) /\ 64 * b + j # N + 1
              /\ 64 * b + j <= 64 * (b + 2) - 8 /\ j # d + 1 /\ j \in d + 1 .. 64
          BY <1>6, <4>4
        <5> QED
          BY <4>0, <4>1, <5>1 DEF B, E
      <4> QED
        BY <1>6, <4>2, <4>3, <4>4
    <3> QED
      BY <1>5, <3>1 DEF PaddedData
  <2>4. ended = Block(message, b + 1)
    <3>1. ASSUME NEW j \in 1 .. 64
          PROVE  ended[j] = Block(message, b + 1)[j]
      <4> DEFINE B == Block(message, b + 1)[j]
                 E == ended[j]
      <4>0. E = IF j <= 56 THEN {} ELSE LengthByte(8 * N, j)
        BY DEF LengthAdded
      <4>1. b + 1 \in Nat
        BY <1>6
      <4>2. B = IF 64 * (b + 1) + j <= N THEN message[64 * (b + 1) + j]
                ELSE IF 64 * (b + 1) + j = N + 1 THEN {7}
                ELSE IF 64 * (b + 1) + j <= 64 * (b + 2) - 8 THEN {}
                ELSE LengthByte(8 * N, j)
        BY <1>4, <4>1, <2>1
      <4> HIDE DEF B, E, cleared, ended
      <4>3. ~(64 * (b + 1) + j <= N) /\ 64 * (b + 1) + j # N + 1
        BY <1>6
      <4>4. CASE j <= 56
        <5>1. 64 * (b + 1) + j <= 64 * (b + 2) - 8
          BY <1>6, <4>4
        <5> QED
          BY <4>0, <4>2, <4>3, <4>4, <5>1 DEF B, E
      <4>5. CASE j > 56
        <5>1. ~(64 * (b + 1) + j <= 64 * (b + 2) - 8) /\ ~(j <= 56)
          BY <1>6, <4>5
        <5> QED
          BY <4>0, <4>2, <4>3, <5>1 DEF B, E
      <4> QED
        BY <4>4, <4>5
    <3> QED
      BY <1>5, <3>1 DEF LengthAdded
  <2>5. Chain(message)[b + 2] = Compress(Chain(message)[b + 1], Block(message, b + 1))
    <3>1. b + 1 \in Nat /\ (b + 1) + 1 = b + 2
      BY <1>6
    <3> QED
      BY <3>1, ChainDef
  <2> HIDE DEF padded
  <2>6. e = Context(padded, d, 512 * b, t)
    BY <2>2, TransformIs
  <2> HIDE DEF e, t
  <2>7. r = Context(cleared, d, 512 * b, t)
    <3>1. e.data = padded
      BY <2>6, Fields
    <3>2. r = [e EXCEPT !.data = [n \in 1 .. 64 |-> IF n <= 56 THEN {} ELSE e.data[n]]]
      OBVIOUS
    <3>3. [n \in 1 .. 64 |-> IF n <= 56 THEN {} ELSE e.data[n]] = cleared
      BY <3>1
    <3> HIDE DEF r, cleared
    <3>4. r = [e EXCEPT !.data = cleared]
      BY <3>2, <3>3, Zenon
    <3> QED
      BY <2>6, <3>4, DataIs
  <2> HIDE DEF cleared
  <2>8. AppendLength(r) = Context(ended, d, 8 * N, t)
    <3> HIDE DEF r
    <3> QED
      BY <1>8, <2>7, AppendIs
  <2> HIDE DEF ended
  <2>9. sha256_transform(AppendLength(r)) = Context(ended, d, 8 * N, Compress(t, ended))
    <3> HIDE DEF r
    <3> QED
      BY <2>8, TransformIs
  <2>10. sha256_final(c) = sha256_transform(AppendLength(r))
    <3>1. ~(c.datalen < 56)
      BY <1>6, <1>9, <1>11
    <3> QED
      BY <3>1, Zenon DEF sha256_final, e
  <2>11. sha256_final(c).state = Compress(t, ended)
    <3> HIDE DEF r
    <3> QED
      BY <2>9, <2>10, Fields
  <2>12. t = Chain(message)[b + 1]
    BY <1>7, <2>3 DEF t
  <2> QED
    BY <2>1, <2>4, <2>5, <2>11, <2>12 DEF sha256
<1> QED
  BY <1>6, <1>10, <1>11

-----------------------------------------------------------------------------
(* The two loops over the slot                                             *)

(* What the loops read.                                                    *)
Read == Covered([hdr |-> hdr, data |-> data])

(* Every state: crc is the complement of the register that the reference   *)
(* division has after i bytes, and the context is the one that the         *)
(* reference digest has; the verdicts are those of the references on what  *)
(* was read.                                                               *)
VerifyInv ==
    /\ built \in Image
    /\ \E s \in {Sent(built)} \cup Damage(Sent(built)) :
          hdr = s.hdr /\ data = s.data
    /\ pc \in {"crc", "hash", "done"}
    /\ pc = "crc" =>
          /\ i \in 0 .. hdr.data_size
          /\ crc \in Word /\ Not(crc) = Division(Read)[i]
          /\ ctx = sha256_init
    /\ pc = "hash" => i \in 0 .. hdr.data_size /\ Hashed(ctx, Read, i)
    /\ pc # "crc" => (crc_ok <=> hdr.crc = binascii_crc32(Read))
    /\ pc = "done" => (ecdsa_ok <=> sha256(Read) = hdr.signature)

(* The loop's register is the complement of the reference's.               *)
LEMMA NotNot == \A w \in Word : Not(w) \in Word /\ Not(Not(w)) = w
BY DEF Not, Word

(* The code's register stays a word.                                       *)
LEMMA CrcNextIsWord ==
    ASSUME NEW w \in Word, NEW byte \in Byte
    PROVE  CrcNext(w, byte) \in Word
<1>1. Xor(LowByte(w), byte) \in Byte
  BY DEF Xor, LowByte, Byte
<1>2. table[Xor(LowByte(w), byte)] = crc32_for_byte(Xor(LowByte(w), byte))
  BY <1>1 DEF table
<1>3. ShiftRight(w, 8) \in Word /\ 24 .. 31 \in Word
  BY ShiftIsWord DEF Word, Bit
<1>4. Xor(LowByte(w), byte) \in Word
  BY <1>1 DEF Byte, Word, Bit
<1>5. crc32_for_byte(Xor(LowByte(w), byte)) \in Word
  BY <1>3, <1>4, ReductionsDef, XorIsWord DEF crc32_for_byte
<1> QED
  BY <1>2, <1>3, <1>5, XorIsWord DEF CrcNext

(* What lies in the slot, wherever it comes from.                          *)
LEMMA SlotIs ==
    ASSUME built \in Image,
           \E s \in {Sent(built)} \cup Damage(Sent(built)) :
              hdr = s.hdr /\ data = s.data
    PROVE  /\ built \in Seq(Byte) /\ data \in Seq(Byte)
           /\ Len(data) = Len(built)
           /\ hdr.data_size \in Nat
           /\ hdr.signature = sha256(built)
<1>1. PICK s \in {Sent(built)} \cup Damage(Sent(built)) :
         hdr = s.hdr /\ data = s.data
  OBVIOUS
<1>2. built \in Seq(Byte) /\ hashlib_sha256(built) = sha256(built)
  BY ImageAssumption, DigestAssumption
<1>3. CASE s = Sent(built)
  BY <1>1, <1>2, <1>3 DEF Sent, patch_binary_payload
<1>4. CASE s \in Damage(Sent(built))
  BY <1>1, <1>2, <1>4, DamageAssumption
<1> QED
  BY <1>1, <1>3, <1>4

(* What the loops read, byte by byte.                                      *)
LEMMA ReadIs ==
    ASSUME data \in Seq(Byte), hdr.data_size \in Nat
    PROVE  /\ Read \in Seq(Byte) /\ Len(Read) = hdr.data_size
           /\ \A n \in Nat : n < hdr.data_size => At(n) \in Byte /\ Read[n + 1] = At(n)
           /\ hdr.data_size = Len(data) => Read = data
<1> DEFINE N == hdr.data_size
           byte(n) == IF n <= Len(data) THEN data[n] ELSE Beyond
<1>1. Read = [n \in 1 .. N |-> byte(n)]
  BY DEF Read, Covered
<1>2. \A n \in 1 .. N : byte(n) \in Byte
  BY ImageAssumption
<1>3. Read \in Seq(Byte) /\ Len(Read) = N
  BY <1>1, <1>2
<1>4. ASSUME NEW n \in Nat, n < N
      PROVE  At(n) \in Byte /\ Read[n + 1] = At(n)
  <2>1. n + 1 \in 1 .. N /\ (n + 1 <= Len(data) <=> n < Len(data))
    BY <1>4
  <2>2. Read[n + 1] = byte(n + 1)
    BY <1>1, <2>1
  <2>3. At(n) = byte(n + 1)
    BY <2>1 DEF At
  <2> QED
    BY <1>2, <2>1, <2>2, <2>3
<1>5. ASSUME N = Len(data)
      PROVE  Read = data
  BY <1>1, <1>5
<1> QED
  BY <1>3, <1>4, <1>5

(* The invariant holds where main enters the two checks.                   *)
LEMMA VerifyInvInit == Init => VerifyInv
<1> SUFFICES ASSUME Init PROVE VerifyInv
  OBVIOUS
<1>1. /\ built \in Image
      /\ \E s \in {Sent(built)} \cup Damage(Sent(built)) :
            hdr = s.hdr /\ data = s.data
  BY DEF Init
<1>2. hdr.data_size \in Nat
  BY <1>1, SlotIs
<1>3. {} \in Word /\ Not({}) = Division(Read)[0]
  BY DivisionDef DEF Not, Word
<1> QED
  BY <1>1, <1>2, <1>3 DEF Init, VerifyInv

(* Every step keeps it: a byte takes the device and the reference to the   *)
(* next of their registers alike, a verdict is the reference's.            *)
LEMMA VerifyInvNext == VerifyInv /\ [Next]_vars => VerifyInv'
<1> SUFFICES ASSUME VerifyInv, [Next]_vars PROVE VerifyInv'
  OBVIOUS
<1>1. /\ built \in Image
      /\ \E s \in {Sent(built)} \cup Damage(Sent(built)) :
            hdr = s.hdr /\ data = s.data
      /\ pc \in {"crc", "hash", "done"}
  BY DEF VerifyInv
<1>2. /\ data \in Seq(Byte) /\ hdr.data_size \in Nat
  BY <1>1, SlotIs
<1>3. /\ Read \in Seq(Byte) /\ Len(Read) = hdr.data_size
      /\ \A n \in Nat : n < hdr.data_size => At(n) \in Byte /\ Read[n + 1] = At(n)
  BY <1>2, ReadIs
<1>4. ASSUME UNCHANGED slot
      PROVE  /\ built' \in Image
             /\ \E s \in {Sent(built')} \cup Damage(Sent(built')) :
                   hdr' = s.hdr /\ data' = s.data
             /\ built' = built /\ hdr' = hdr /\ data' = data /\ Read' = Read
  BY <1>1, <1>4 DEF slot, Read
<1>5. CASE CrcByte
  <2>1. /\ pc = "crc" /\ pc' = "crc" /\ i < hdr.data_size /\ i' = i + 1
        /\ crc' = CrcNext(crc, At(i)) /\ ctx' = ctx
        /\ UNCHANGED slot
    BY <1>5 DEF CrcByte
  <2>2. i \in 0 .. hdr.data_size /\ crc \in Word /\ Not(crc) = Division(Read)[i]
        /\ ctx = sha256_init
    BY <2>1 DEF VerifyInv
  <2>3. i \in Nat /\ i + 1 \in 0 .. hdr.data_size
    BY <1>2, <2>1, <2>2
  <2>4. At(i) \in Byte /\ Read[i + 1] = At(i)
    BY <1>3, <2>1, <2>3
  <2>5. crc' \in Word
    BY <2>1, <2>2, <2>4, CrcNextIsWord
  <2>6. Division(Read)[i + 1] = DivideByte(At(i))[Not(crc)]
    BY <2>2, <2>3, <2>4, DivisionDef
  <2>7. DivideByte(At(i))[Not(crc)] = Not(CrcNext(crc, At(i)))
    BY <2>2, <2>4, TableDividesByte
  <2> QED
    BY <1>4, <2>1, <2>2, <2>3, <2>5, <2>6, <2>7 DEF VerifyInv
<1>6. CASE CrcVerdict
  <2>1. /\ pc = "crc" /\ pc' = "hash" /\ i = hdr.data_size /\ i' = 0
        /\ crc_ok' = (crc = hdr.crc) /\ ctx' = ctx
        /\ UNCHANGED slot
    BY <1>6 DEF CrcVerdict
  <2>2. crc \in Word /\ Not(crc) = Division(Read)[i] /\ ctx = sha256_init
    BY <2>1 DEF VerifyInv
  <2>3. binascii_crc32(Read) = crc
    <3>1. binascii_crc32(Read) = Not(Not(crc))
      BY <1>3, <2>1, <2>2 DEF binascii_crc32
    <3> QED
      BY <2>2, <3>1, NotNot
  <2>4. Hashed(ctx', Read, 0)
    BY <2>1, <2>2, HashStarts
  <2>5. 0 \in 0 .. hdr.data_size
    BY <1>2
  <2>6. crc_ok' <=> hdr.crc = binascii_crc32(Read)
    BY <2>1, <2>3, Zenon
  <2> QED
    BY <1>4, <2>1, <2>4, <2>5, <2>6 DEF VerifyInv
<1>7. CASE HashByte
  <2>1. /\ pc = "hash" /\ pc' = "hash" /\ i < hdr.data_size /\ i' = i + 1
        /\ ctx' = sha256_update(ctx, At(i)) /\ crc_ok' = crc_ok
        /\ UNCHANGED slot
    BY <1>7 DEF HashByte
  <2>2. i \in 0 .. hdr.data_size /\ Hashed(ctx, Read, i)
    BY <2>1 DEF VerifyInv
  <2>3. i \in Nat /\ i + 1 \in 0 .. hdr.data_size
    BY <1>2, <2>1, <2>2
  <2>4. Hashed(sha256_update(ctx, Read[i + 1]), Read, i + 1)
    BY <1>3, <2>1, <2>2, <2>3, HashUpdates
  <2>5. Hashed(ctx', Read, i')
    <3>1. Read[i + 1] = At(i)
      BY <1>3, <2>1, <2>3
    <3> QED
      BY <2>1, <2>4, <3>1, Zenon
  <2>6. crc_ok' <=> hdr.crc = binascii_crc32(Read)
    BY <2>1, Zenon DEF VerifyInv
  <2> QED
    BY <1>4, <2>1, <2>3, <2>5, <2>6 DEF VerifyInv
<1>8. CASE EcdsaVerdict
  <2>1. /\ pc = "hash" /\ pc' = "done" /\ i = hdr.data_size
        /\ ctx' = sha256_final(ctx) /\ ecdsa_ok' = (ctx'.state = hdr.signature)
        /\ crc_ok' = crc_ok
        /\ UNCHANGED slot
    BY <1>8 DEF EcdsaVerdict
  <2>2. Hashed(ctx, Read, Len(Read))
    BY <1>3, <2>1 DEF VerifyInv
  <2>3. sha256_final(ctx).state = sha256(Read)
    BY <1>3, <2>2, HashEnds
  <2>4. ecdsa_ok' <=> sha256(Read) = hdr.signature
    BY <2>1, <2>3, Zenon
  <2>5. crc_ok' <=> hdr.crc = binascii_crc32(Read)
    BY <2>1, Zenon DEF VerifyInv
  <2> QED
    BY <1>4, <2>1, <2>4, <2>5 DEF VerifyInv
<1>9. CASE UNCHANGED vars
  <2>1. UNCHANGED <<slot, pc, i, crc, ctx, crc_ok, ecdsa_ok>>
    BY <1>9 DEF vars
  <2> QED
    BY <1>4, <2>1, Zenon DEF VerifyInv
<1> QED
  BY <1>5, <1>6, <1>7, <1>8, <1>9 DEF Next, Done

(* Every state of the two loops is one that the reference division and the *)
(* reference digest pass through, and the verdicts are theirs              *)
(* (verify.c:52-140, sha256.c:99-158).                                     *)
THEOREM VerifyInvHolds == Spec => []VerifyInv
<1>1. Init => VerifyInv
  BY VerifyInvInit
<1>2. VerifyInv /\ [Next]_vars => VerifyInv'
  BY VerifyInvNext
<1> QED
  BY <1>1, <1>2, PTL DEF Spec

(* For every image, of any length: what was built and arrived is accepted, *)
(* by both checks (verify.c:15-140).                                       *)
THEOREM BuiltIsAcceptedHolds == Spec => []BuiltIsAccepted
<1>1. VerifyInv => BuiltIsAccepted
  <2> SUFFICES ASSUME VerifyInv, pc = "done", Intact PROVE crc_ok /\ ecdsa_ok
    BY DEF BuiltIsAccepted
  <2>1. /\ data \in Seq(Byte) /\ hdr.data_size \in Nat
        /\ hdr.signature = sha256(built)
    BY SlotIs DEF VerifyInv
  <2>2. /\ data = built /\ hdr.data_size = Len(built)
        /\ hdr.crc = binascii_crc32(built)
    BY DEF Intact, patch_binary_payload
  <2>3. Read = built
    BY <2>1, <2>2, ReadIs
  <2>4. crc_ok <=> hdr.crc = binascii_crc32(Read)
    BY DEF VerifyInv
  <2>5. ecdsa_ok <=> sha256(Read) = hdr.signature
    BY DEF VerifyInv
  <2> QED
    BY <2>1, <2>2, <2>3, <2>4, <2>5
<1> QED
  BY <1>1, VerifyInvHolds, PTL

(* The checksum finds a burst of up to 32 bits, wherever it lies in an     *)
(* image of any length, and any damage to its own field (verify.c:15-73).  *)
THEOREM DamageIsRejectedHolds == Spec => []DamageIsRejected
<1>1. VerifyInv => DamageIsRejected
  <2> SUFFICES ASSUME VerifyInv, pc # "crc", hdr.data_size = Len(built),
                      \/ data = built /\ hdr.crc # binascii_crc32(built)
                      \/ /\ hdr.crc = binascii_crc32(built)
                         /\ data # built
                         /\ Burst(built, data)
               PROVE  ~crc_ok
    BY DEF DamageIsRejected
  <2>1. /\ built \in Seq(Byte) /\ data \in Seq(Byte) /\ Len(data) = Len(built)
        /\ hdr.data_size \in Nat
    BY SlotIs DEF VerifyInv
  <2>2. Read = data
    BY <2>1, ReadIs
  <2>3. crc_ok <=> hdr.crc = binascii_crc32(data)
    BY <2>2 DEF VerifyInv
  <2>4. CASE data = built /\ hdr.crc # binascii_crc32(built)
    BY <2>3, <2>4
  <2>5. CASE hdr.crc = binascii_crc32(built) /\ data # built /\ Burst(built, data)
    <3>1. binascii_crc32(built) # binascii_crc32(data)
      BY <2>1, <2>5, BurstChangesCrc
    <3> QED
      BY <2>3, <2>5, <3>1
  <2> QED
    BY <2>4, <2>5
<1> QED
  BY <1>1, VerifyInvHolds, PTL

(* A signature that holds is over the bytes and the length that were       *)
(* built, whatever lies in the slot (verify.c:81-140).                     *)
THEOREM DamageIsNotSignedHolds == Spec => []DamageIsNotSigned
<1>1. VerifyInv => DamageIsNotSigned
  <2> SUFFICES ASSUME VerifyInv, pc = "done", ecdsa_ok
               PROVE  data = built /\ hdr.data_size = Len(built)
    BY DEF DamageIsNotSigned
  <2>1. /\ built \in Seq(Byte) /\ data \in Seq(Byte) /\ Len(data) = Len(built)
        /\ hdr.data_size \in Nat
        /\ hdr.signature = sha256(built)
    BY SlotIs DEF VerifyInv
  <2>2. sha256(Read) = sha256(built)
    BY <2>1 DEF VerifyInv
  <2>3. built \in Image
    BY DEF VerifyInv
  <2>4. PICK s \in {Sent(built)} \cup Damage(Sent(built)) :
           hdr = s.hdr /\ data = s.data
    BY DEF VerifyInv
  <2>5. Read = Covered(s)
    BY <2>4 DEF Read, Covered
  <2>6. Read = built
    <3>1. CASE s = Sent(built)
      BY <2>1, <2>4, <3>1, ReadIs DEF Sent, patch_binary_payload
    <3>2. CASE s \in Damage(Sent(built))
      BY <2>2, <2>3, <2>5, <3>2, CollisionAssumption
    <3> QED
      BY <3>1, <3>2
  <2>7. hdr.data_size = Len(built)
    BY <2>1, <2>6, ReadIs
  <2>8. Read = data
    BY <2>1, <2>7, ReadIs
  <2> QED
    BY <2>6, <2>7, <2>8
<1> QED
  BY <1>1, VerifyInvHolds, PTL
=============================================================================

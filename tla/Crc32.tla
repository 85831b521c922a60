-------------------------------- MODULE Crc32 --------------------------------
(***************************************************************************)
(* The checksum of boot/verify.c, and the one that binascii.crc32 puts     *)
(* into the header when the image is built.                                *)
(***************************************************************************)
EXTENDS Words, Sequences

(* 0xEDB88320                                                              *)
Polynomial == Halves(\hEDB8, \h8320)

(* One turn of the loop of crc32_for_byte, and the words that its turns    *)
(* leave.                                                                  *)
Turn(r) == Xor(IF 0 \in r THEN {} ELSE Polynomial, ShiftRight(r, 1))

Reductions(r) ==
    LET turn[j \in Nat] == IF j = 0 THEN r ELSE Turn(turn[j - 1])
    IN  turn

(* Mutant: the top byte is left as it is.                                  *)
crc32_for_byte_plain(r) == Reductions(r)[8]

crc32_for_byte(r) == Xor(Reductions(r)[8], 24 .. 31)

(* Built at the first call, since entry 0 is not 0.                        *)
table == [r \in Byte |-> crc32_for_byte(r)]

(* One turn of the loop of crc32, which starts from 0.                     *)
CrcNext(crc, byte) == Xor(table[Xor(LowByte(crc), byte)], ShiftRight(crc, 8))

-----------------------------------------------------------------------------
(* CRC-32 by its definition: the message divided bit by bit, the lowest    *)
(* bit of a byte first, from a register of ones, the remainder inverted.   *)
DivideBit(reg, bit) ==
    Xor(ShiftRight(reg, 1), IF (0 \in reg) = bit THEN {} ELSE Polynomial)

(* The registers after each number of bits of a byte, and what a byte does *)
(* to the register.                                                        *)
DivideBits(reg, byte) ==
    LET after[j \in Nat] ==
            IF j = 0 THEN reg ELSE DivideBit(after[j - 1], j - 1 \in byte)
    IN  after

DivideByte(byte) == [reg \in Word |-> DivideBits(reg, byte)[8]]

(* The register after each number of bytes.                                *)
Division(message) ==
    LET reg[n \in Nat] ==
            IF n = 0 THEN Bit ELSE DivideByte(message[n])[reg[n - 1]]
    IN  reg

binascii_crc32(message) == Not(Division(message)[Len(message)])
=============================================================================

------------------------------- MODULE Verify -------------------------------
(***************************************************************************)
(* The two checks of boot/verify.c on the image in the slot: the header    *)
(* was filled in by cmake/patch_image_header.py on another machine, and    *)
(* what was written to the flash may differ from what was built.           *)
(***************************************************************************)
EXTENDS Crc32, Sha256

CONSTANTS
    Image,             \* the images built, without their headers
    hashlib_sha256(_), \* the digest of an image, as Python's hashlib has it
    Damage(_),         \* what the slot may hold where this was built
    Beyond             \* what the flash holds behind the image

ASSUME ImageAssumption == Image \subseteq Seq(Byte) /\ Beyond \in Byte

(* hashlib computes SHA-256.                                               *)
ASSUME DigestAssumption ==
    \A image \in Image : hashlib_sha256(image) = sha256(image)

VARIABLES
    built,      \* the image that was built and signed
    hdr, data,  \* the slot: the header, and the image behind it
    pc,
    i,          \* the loops' counter
    crc,        \* crc32's remainder
    ctx,        \* the context of the hash
    crc_ok, ecdsa_ok

slot == <<built, hdr, data>>
vars == <<slot, pc, i, crc, ctx, crc_ok, ecdsa_ok>>

(* The byte behind the header with this index.                             *)
At(n) == IF n < Len(data) THEN data[n + 1] ELSE Beyond

(* The first bytes behind the header, where s.data lies there.             *)
Covered(s) ==
    [n \in 1 .. s.hdr.data_size |->
        IF n <= Len(s.data) THEN s.data[n] ELSE Beyond]

(* The fields that patch_binary_payload packs.  uECC_verify (external) is  *)
(* taken to accept the digest that was signed, and no other.               *)
patch_binary_payload(image) ==
    [crc |-> binascii_crc32(image), data_size |-> Len(image),
     signature |-> hashlib_sha256(image)]

Sent(image) == [hdr |-> patch_binary_payload(image), data |-> image]

(* Damage changes bits, it does not move them; a signature that no longer  *)
(* is the one of the image is as good as a digest that differs.            *)
ASSUME DamageAssumption ==
    \A image \in Image : \A s \in Damage(Sent(image)) :
        /\ s.data \in Seq(Byte) /\ Len(s.data) = Len(image)
        /\ s.hdr.data_size \in Nat
        /\ s.hdr.signature = hashlib_sha256(image)

(* No damage finds a second message with the digest of an image.           *)
ASSUME CollisionAssumption ==
    \A image \in Image : \A s \in Damage(Sent(image)) :
        sha256(Covered(s)) = sha256(image) => Covered(s) = image

Init ==
    /\ built \in Image
    /\ \E s \in {Sent(built)} \cup Damage(Sent(built)) :
          hdr = s.hdr /\ data = s.data
    /\ pc = "crc" /\ i = 0
    /\ crc = {}
    /\ ctx = sha256_init
    /\ crc_ok = FALSE /\ ecdsa_ok = FALSE

-----------------------------------------------------------------------------
(* crc_verification *)
CrcByte ==
    /\ pc = "crc"
    /\ i < hdr.data_size
    /\ crc' = CrcNext(crc, At(i))
    /\ i' = i + 1
    /\ UNCHANGED <<slot, pc, ctx, crc_ok, ecdsa_ok>>

(* Mutant: the remainder is kept in 16 bits.                               *)
CrcVerdictNarrow ==
    /\ pc = "crc"
    /\ i = hdr.data_size
    /\ crc_ok' = (crc \cap (0 .. 15) = hdr.crc \cap (0 .. 15))
    /\ pc' = "hash" /\ i' = 0
    /\ UNCHANGED <<slot, crc, ctx, ecdsa_ok>>

CrcVerdict ==
    /\ pc = "crc"
    /\ i = hdr.data_size
    /\ crc_ok' = (crc = hdr.crc)
    /\ pc' = "hash" /\ i' = 0
    /\ UNCHANGED <<slot, crc, ctx, ecdsa_ok>>

(* Mutant: the hash leaves the last byte out.                              *)
HashByteShort ==
    /\ pc = "hash"
    /\ i < hdr.data_size
    /\ ctx' = IF i = hdr.data_size - 1 THEN ctx ELSE sha256_update(ctx, At(i))
    /\ i' = i + 1
    /\ UNCHANGED <<slot, pc, crc, crc_ok, ecdsa_ok>>

(* security_verification, called whatever the checksum was.                *)
HashByte ==
    /\ pc = "hash"
    /\ i < hdr.data_size
    /\ ctx' = sha256_update(ctx, At(i))
    /\ i' = i + 1
    /\ UNCHANGED <<slot, pc, crc, crc_ok, ecdsa_ok>>

EcdsaVerdict ==
    /\ pc = "hash"
    /\ i = hdr.data_size
    /\ ctx' = sha256_final(ctx)
    /\ ecdsa_ok' = (ctx'.state = hdr.signature)
    /\ pc' = "done" /\ i' = 0
    /\ UNCHANGED <<slot, crc, crc_ok>>

Done == pc = "done" /\ UNCHANGED vars

Next == CrcByte \/ CrcVerdict \/ HashByte \/ EcdsaVerdict \/ Done

Spec == Init /\ [][Next]_vars

-----------------------------------------------------------------------------
Intact == hdr = patch_binary_payload(built) /\ data = built

(* What was built and arrived is accepted, whatever its length: the device *)
(* computes the checksum and the digest that the build computed with other *)
(* programs (verify.c:15-140, sha256.c:41-158, patch_image_header.py:46-66)*)
BuiltIsAccepted == pc = "done" /\ Intact => crc_ok /\ ecdsa_ok

(* The positions of the ones of a message, and damage to it that lies      *)
(* within 32 bits that follow each other.                                  *)
MessageBits(message) ==
    {p \in 0 .. 8 * Len(message) - 1 : p % 8 \in message[p \div 8 + 1]}

Burst(sent, kept) ==
    \E at \in 0 .. 8 * Len(sent) :
        Xor(MessageBits(sent), MessageBits(kept)) \subseteq at .. at + 31

(* The checksum alone notices a burst of damage, whatever the image and    *)
(* wherever in it, and damage to its own field.  It lies before what it    *)
(* covers, and so does the length, for which it promises nothing           *)
(* (verify.c:15-73).                                                       *)
DamageIsRejected ==
    /\ pc # "crc"
    /\ hdr.data_size = Len(built)
    /\ \/ data = built /\ hdr.crc # binascii_crc32(built)
       \/ /\ hdr.crc = binascii_crc32(built)
          /\ data # built
          /\ Burst(built, data)
    => ~crc_ok

(* The signature alone holds only for the bytes and the length that were   *)
(* built; it does not look at the checksum (verify.c:81-140).              *)
DamageIsNotSigned ==
    pc = "done" /\ ecdsa_ok => data = built /\ hdr.data_size = Len(built)
=============================================================================

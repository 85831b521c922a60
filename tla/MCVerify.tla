------------------------------ MODULE MCVerify ------------------------------
(***************************************************************************)
(* Verify for TLC: images of eleven lengths, among them those at which the *)
(* padding of SHA-256 changes its shape; the one of eight bytes arrives    *)
(* intact or damaged.                                                      *)
(***************************************************************************)
EXTENDS Verify

MCImage ==
    {[n \in 1 .. len |-> Bits((37 * n + 11) % 256)] :
        len \in {1, 8, 55, 56, 57, 63, 64, 65, 119, 120, 128}}

(* hashlib.sha256(bytes((37 * n + 11) % 256 for n in range(1, len + 1)))   *)
Digests == <<
    [len |-> 1, digest |-> <<
        \h5FEC, \hEB66, \hFFC8, \h6F38, \hD952, \h786C, \h6D69, \h6C79,
        \hC2DB, \hC239, \hDD4E, \h91B4, \h6729, \hD73A, \h27FB, \h57E9 >>],
    [len |-> 8, digest |-> <<
        \hDA90, \h2909, \h2579, \h0C89, \hE7C4, \hAEE8, \h6572, \h2D0E,
        \h8C7D, \h227C, \h5C63, \h2179, \hF1DF, \hE329, \h1F24, \hC792 >>],
    [len |-> 55, digest |-> <<
        \hF773, \h321B, \h47CB, \h078C, \hC30F, \hC18F, \h0912, \h03F9,
        \h5FF2, \hDEF9, \hCDB6, \h396F, \h5182, \hDA8C, \h0326, \hF46D >>],
    [len |-> 56, digest |-> <<
        \hBF12, \h3084, \hD12F, \hBD4A, \h4DC4, \hA11F, \hB904, \h72FA,
        \h7BCF, \h62A1, \h2CBF, \hA817, \hF41C, \hEBBB, \h7215, \hC039 >>],
    [len |-> 57, digest |-> <<
        \hB623, \h3B42, \h42E0, \hC94E, \h6A7A, \h6BCE, \h7342, \h06A1,
        \h41F6, \h2776, \hE349, \h20AF, \h961A, \hA382, \hEDC9, \h04ED >>],
    [len |-> 63, digest |-> <<
        \h3C8B, \hD26C, \h6F23, \h6AE4, \h9289, \h3879, \h5170, \h33F8,
        \hB561, \hBEB2, \h2784, \h8450, \hDE68, \hEB7D, \h6D86, \h6870 >>],
    [len |-> 64, digest |-> <<
        \h5C63, \h65B0, \h0593, \hF37D, \h2827, \hA1EB, \hE20E, \h6240,
        \h762D, \h398B, \hB414, \hF1E1, \h5FF8, \h694C, \hF9FD, \h69B9 >>],
    [len |-> 65, digest |-> <<
        \h7E8E, \h0AC5, \h8120, \hF447, \hF121, \h6DE5, \hCD16, \h39E2,
        \hA5A9, \h1FB8, \hD146, \h2C70, \h1F42, \hB679, \h8010, \hA336 >>],
    [len |-> 119, digest |-> <<
        \h6744, \hF758, \h0B49, \h1074, \h383C, \hB494, \hBCE7, \h346B,
        \hBB79, \hA339, \h8C7E, \hB378, \h083D, \h5749, \h8EE2, \hAD25 >>],
    [len |-> 120, digest |-> <<
        \h76BB, \h4436, \h66D2, \h38E0, \hB9E8, \hE272, \h01BD, \hBEB0,
        \h12FA, \h9B4F, \hC40A, \hC941, \h223D, \h362E, \h1B52, \hD288 >>],
    [len |-> 128, digest |-> <<
        \h957B, \h9AB0, \h5FD2, \h152B, \h2CF2, \h6679, \h8E6D, \hE385,
        \h2E7F, \h581F, \h90DE, \h3096, \h025B, \h760F, \hD74C, \h0F13 >>]>>

MCDigest(image) ==
    FromHalves((CHOOSE d \in {Digests[j] : j \in DOMAIN Digests} :
                   d.len = Len(image)).digest)

(* Erased flash.                                                           *)
MCBeyond == 0 .. 7

(* Bursts of at most 32 bits, at any byte.                                 *)
Pattern == {{0}, {7}, {0, 31}, {3, 12, 30}, {8, 9}, 0 .. 31}

Flip(image, at, burst) ==
    [n \in DOMAIN image |->
        Xor(image[n], {j \in 0 .. 7 : 8 * (n - at) + j \in burst /\ n >= at})]

(* A header that lost a bit of its checksum, a length that is wrong, and   *)
(* an image of eight bytes with a burst in it.                             *)
MCDamage(s) ==
    IF Len(s.data) # 8 THEN {}
    ELSE {[s EXCEPT !.hdr.crc = Xor(@, {b})] : b \in {0, 17, 31}}
         \cup {[s EXCEPT !.hdr.data_size = len] : len \in {0, 7, 9}}
         \cup {d \in {[s EXCEPT !.data = Flip(s.data, at, burst)] :
                        at \in 1 .. 8, burst \in Pattern} : d # s}
=============================================================================

------------------------------- MODULE Sha256 -------------------------------
(***************************************************************************)
(* framework/sha256.c: the compression function and the context that       *)
(* sha256_update fills byte by byte.  Sequences count from 1, the code's   *)
(* arrays from 0.                                                          *)
(***************************************************************************)
EXTENDS Words, Sequences

CONSTANT Junk     \* what the stack held in ctx.data

CH(x, y, z) == Xor(x \cap y, Not(x) \cap z)
MAJ(x, y, z) == Xor(Xor(x \cap y, x \cap z), y \cap z)
EP0(x) == Xor(Xor(RotateRight(x, 2), RotateRight(x, 13)), RotateRight(x, 22))
EP1(x) == Xor(Xor(RotateRight(x, 6), RotateRight(x, 11)), RotateRight(x, 25))
SIG0(x) == Xor(Xor(RotateRight(x, 7), RotateRight(x, 18)), ShiftRight(x, 3))
SIG1(x) == Xor(Xor(RotateRight(x, 17), RotateRight(x, 19)), ShiftRight(x, 10))

(* Words written as their halves.                                          *)
FromHalves(h) == [j \in 1 .. Len(h) \div 2 |-> Halves(h[2 * j - 1], h[2 * j])]

k == FromHalves(<<
    \h428a,\h2f98, \h7137,\h4491, \hb5c0,\hfbcf, \he9b5,\hdba5, \h3956,\hc25b,
    \h59f1,\h11f1, \h923f,\h82a4, \hab1c,\h5ed5, \hd807,\haa98, \h1283,\h5b01,
    \h2431,\h85be, \h550c,\h7dc3, \h72be,\h5d74, \h80de,\hb1fe, \h9bdc,\h06a7,
    \hc19b,\hf174, \he49b,\h69c1, \hefbe,\h4786, \h0fc1,\h9dc6, \h240c,\ha1cc,
    \h2de9,\h2c6f, \h4a74,\h84aa, \h5cb0,\ha9dc, \h76f9,\h88da, \h983e,\h5152,
    \ha831,\hc66d, \hb003,\h27c8, \hbf59,\h7fc7, \hc6e0,\h0bf3, \hd5a7,\h9147,
    \h06ca,\h6351, \h1429,\h2967, \h27b7,\h0a85, \h2e1b,\h2138, \h4d2c,\h6dfc,
    \h5338,\h0d13, \h650a,\h7354, \h766a,\h0abb, \h81c2,\hc92e, \h9272,\h2c85,
    \ha2bf,\he8a1, \ha81a,\h664b, \hc24b,\h8b70, \hc76c,\h51a3, \hd192,\he819,
    \hd699,\h0624, \hf40e,\h3585, \h106a,\ha070, \h19a4,\hc116, \h1e37,\h6c08,
    \h2748,\h774c, \h34b0,\hbcb5, \h391c,\h0cb3, \h4ed8,\haa4a, \h5b9c,\hca4f,
    \h682e,\h6ff3, \h748f,\h82ee, \h78a5,\h636f, \h84c8,\h7814, \h8cc7,\h0208,
    \h90be,\hfffa, \ha450,\h6ceb, \hbef9,\ha3f7, \hc671,\h78f2 >>)

(* Four bytes, the first the highest.                                      *)
BigEndian(data, at) ==
    UNION {{j + 24 - 8 * b : j \in data[at + b]} : b \in 0 .. 3}

Schedule(first) ==
    LET extend[m \in Seq(Word)] ==
            LET i == Len(m) + 1
            IN  IF i > 64 THEN m
                ELSE extend[Append(m, Add(Add(SIG1(m[i - 2]), m[i - 7]),
                                          Add(SIG0(m[i - 15]), m[i - 16])))]
    IN  extend[first]

(* s is <<a, b, c, d, e, f, g, h>>.                                        *)
Round(s, word) ==
    LET t1 == Add(Add(s[8], EP1(s[5])), Add(CH(s[5], s[6], s[7]), word))
        t2 == Add(EP0(s[1]), MAJ(s[1], s[2], s[3]))
    IN  <<Add(t1, t2), s[1], s[2], s[3], Add(s[4], t1), s[5], s[6], s[7]>>

Rounds(state, data) ==
    LET m == Schedule([i \in 1 .. 16 |-> BigEndian(data, 4 * i - 3)])
        rounds[s \in Seq(Word), i \in 1 .. 65] ==
            IF i = 65 THEN s ELSE rounds[Round(s, Add(k[i], m[i])), i + 1]
    IN  rounds[state, 1]

Compress(state, data) ==
    LET last == Rounds(state, data)
    IN  [j \in 1 .. 8 |-> Add(state[j], last[j])]

sha256_transform(ctx) == [ctx EXCEPT !.state = Compress(@, ctx.data)]

-----------------------------------------------------------------------------
sha256_init ==
    [data |-> [n \in 1 .. 64 |-> Junk], datalen |-> 0, bitlen |-> 0,
     state |-> FromHalves(<<
        \h6a09,\he667, \hbb67,\hae85, \h3c6e,\hf372, \ha54f,\hf53a,
        \h510e,\h527f, \h9b05,\h688c, \h1f83,\hd9ab, \h5be0,\hcd19 >>)]

(* One byte of sha256_update.                                              *)
sha256_update(ctx, byte) ==
    LET filled == [ctx EXCEPT !.data[ctx.datalen + 1] = byte, !.datalen = @ + 1]
    IN  IF filled.datalen = 64
        THEN [sha256_transform(filled) EXCEPT !.bitlen = @ + 512, !.datalen = 0]
        ELSE filled

(* ctx.data overwritten by 0x80 and zeros, from datalen on up to `to'.     *)
Pad(ctx, to) ==
    [ctx EXCEPT !.data = [n \in 1 .. 64 |->
        IF n = ctx.datalen + 1 THEN {7}
        ELSE IF n \in ctx.datalen + 1 .. to THEN {} ELSE @[n]]]

(* The length in bits, the highest byte first, in the last eight bytes of  *)
(* a block: below 2^32, since the flash has 2^18 bytes.                    *)
LengthByte(bitlen, n) ==
    IF n <= 60 THEN {} ELSE LowByte(Bits(bitlen \div 2^(8 * (64 - n))))

AppendLength(ctx) ==
    LET bitlen == ctx.bitlen + ctx.datalen * 8
    IN  [ctx EXCEPT !.bitlen = bitlen,
                    !.data = [n \in 1 .. 64 |->
                        IF n <= 56 THEN @[n] ELSE LengthByte(bitlen, n)]]

(* Mutant: nine bytes of padding are fitted into eight.                    *)
sha256_final_tight(ctx) ==
    sha256_transform(AppendLength(
        IF ctx.datalen <= 56 THEN Pad(ctx, 56)
        ELSE [sha256_transform(Pad(ctx, 64)) EXCEPT !.data = [n \in 1 .. 64 |-> {}]]))

(* 0x80 and the length want nine bytes: without room for them in this      *)
(* block, the length goes into one of its own.                             *)
sha256_final(ctx) ==
    sha256_transform(AppendLength(
        IF ctx.datalen < 56 THEN Pad(ctx, 56)
        ELSE [sha256_transform(Pad(ctx, 64)) EXCEPT
                 !.data = [n \in 1 .. 64 |-> IF n <= 56 THEN {} ELSE @[n]]]))

-----------------------------------------------------------------------------
(* SHA-256 by its definition (FIPS 180-4): the message is padded as a      *)
(* whole, and its blocks are compressed one after the other.               *)
Blocks(message) == (Len(message) + 8) \div 64 + 1

Block(message, b) ==
    [n \in 1 .. 64 |->
        LET at == 64 * b + n
        IN  IF at <= Len(message) THEN message[at]
            ELSE IF at = Len(message) + 1 THEN {7}
            ELSE IF at <= 64 * Blocks(message) - 8 THEN {}
            ELSE LengthByte(8 * Len(message), n)]

(* The hash value after each number of blocks.                             *)
Chain(message) ==
    LET hash[b \in Nat] ==
            IF b = 0 THEN sha256_init.state
            ELSE Compress(hash[b - 1], Block(message, b - 1))
    IN  hash

sha256(message) == Chain(message)[Blocks(message)]
=============================================================================

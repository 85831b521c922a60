SPECIFICATION Spec
CONSTANTS
    Junk = Junk
    Image <- MCImage
    hashlib_sha256 <- MCDigest
    Damage <- MCDamage
    Beyond <- MCBeyond
INVARIANTS
    BuiltIsAccepted
    DamageIsRejected
    DamageIsNotSigned

SPECIFICATION Spec
CONSTANTS
    MaxBootAttempts = 3
    AppId = 123
    AppRom = 2
    NoVector = 99
    Vectors <- MCFewVectors
    GarbageBytes <- MCFewGarbageBytes
INVARIANT
    VectorTableRebased

SPECIFICATION Spec
CONSTANTS
    MaxBootAttempts = 0
    AppId = 1
    AppRom = 2
    NoVector = 99
    Vectors <- MCVectors
    GarbageBytes <- MCGarbageBytes
    RowPages = 2
    NumRows = 5
    AppRow = 2
    PageIds <- MCPageIds
    b1 = b1
    b2 = b2
    Bits <- MCBits
    Firmware <- MCFirmware
    Payload <- MCPayload
    InitialFlash <- MCInitialFlash
    Magic <- MCMagic
    Sized <- MCSized
    VectorIn <- MCVectorIn
    CrcMatch <- MCCrcMatch
    Signed <- MCSigned
INVARIANTS
    TypeOK
    RunsSignedCode
PROPERTIES
    ImplementsBoot
    RefusedSlotListens

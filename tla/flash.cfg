SPECIFICATION Spec
CONSTANTS
    RowPages = 2
    NumRows = 5
    AppRow = 2
    PageIds <- MCPageIds
    b1 = b1
    Bits <- MCBits
    Firmware <- MCFirmware
    Payload <- MCPayload
    InitialFlash <- MCInitialFlash
INVARIANTS
    TypeOK
    HeldPacketsInPlace
PROPERTIES
    BootRowsUntouched
    UnconfiguredIsInert
    StoresPagesUnlessOverwriting
    CallsReturn

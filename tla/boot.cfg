SPECIFICATION Spec
CONSTANTS
    MaxBootAttempts = 3
    AppId = 123
    AppRom = 2
    NoVector = 99
    Vectors <- MCVectors
    GarbageBytes <- MCGarbageBytes
INVARIANTS
    TypeOK
    VerifiedLaunch
    LaunchBudget
    RequestTakenOnce
    IdFromApp
PROPERTIES
    LockoutEndsWithPower
    ImplementsPolicy
    GoodImageRuns
    RejectedImageUpdates

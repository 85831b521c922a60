SPECIFICATION Spec
CONSTANTS
    e1 = e1
    e2 = e2
    Sender = Sender
    SenderId = 123
    LastPacket = 2
    PacketValues = 4
    Timely = TRUE
    Edge <- MCOneEdge
    Node <- MCNode
    Faulty <- MCOneEdge
    UpdateId <- MCUpdateId
    Slot <- MCSlot
    Frame <- MCFrame
INVARIANTS
    TypeOK
    NoPacketSkipped
    UpdateComplete
    PagesCarryData
PROPERTIES
    ImplementsTransfer
    UpdateFinishes

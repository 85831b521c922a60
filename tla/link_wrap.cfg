SPECIFICATION Spec
CONSTANTS
    e1 = e1
    e2 = e2
    Sender = Sender
    SenderId = 123
    LastPacket = 1
    PacketValues = 2
    Timely = TRUE
    Edge <- MCOneEdge
    Node <- MCNode
    Faulty = {}
    UpdateId <- MCUpdateId
    Slot <- MCSlot
    Frame <- MCFrame
PROPERTY
    UpdateFinishes

SPECIFICATION Spec
CONSTANTS
    e1 = e1
    Master = Master
    Node <- MCNode
    Edge <- MCEdge
    Faulty <- MCEdge
    UpdateId <- MCUpdateId
    Slot <- MCSlot
    Frame <- MCFrame
INVARIANTS
    TypeOK
    EndOfReplySeen
PROPERTIES
    ReplyNotCut
    ListensAgain

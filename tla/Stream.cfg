SPECIFICATION Spec
CONSTANTS
    PrimeSize = 2
    MaxPad = 2
    MaxDecoded = 1
    Scripts <- Clients
    Kinds <- ByteKinds
    Writers = {"own", "caller"}
INVARIANTS
    DeliveredAsSent
    OnlyAfterHandshake
    RepliesReadable
PROPERTIES
    HonestServed
    ConnectionEnds
CHECK_DEADLOCK FALSE

SPECIFICATION Spec

CONSTANTS
    Messages <- MCMessages
    Short = 1
    Long = 2
    Length <- LengthOf
    Senders = {"client", "server"}
    Readers = {r1, r2}
    HeadLength = 2
    BufferSize = 5
    SocketSize = 4
    NoMessage = NoMessage
    Garbage = Garbage

CONSTRAINT FirstGarbage
CHECK_DEADLOCK FALSE
INVARIANTS TypeOK StreamExact WholeUntilCut DeliveredInOrder DeliveredOnce
PROPERTY ImplementsChannel

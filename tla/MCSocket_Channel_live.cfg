SPECIFICATION FairSpec

CONSTANTS
    Messages <- MCTwoMessages
    Short = 1
    Long = 2
    Length <- LengthOf
    Senders = {"server"}
    Readers = {r1}
    HeadLength = 2
    BufferSize = 5
    SocketSize = 5
    NoMessage = NoMessage
    Garbage = Garbage

CHECK_DEADLOCK FALSE
PROPERTY EveryMessageArrives

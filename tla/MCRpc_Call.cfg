SPECIFICATION Spec

CONSTANTS
    Types <- MCTypes
    Nesting <- MCNesting
    Given <- MCGiven
    Calls <- MCCalls
    Handlers <- MCHandlers
    Id <- MCId
    Errors <- MCErrors
    NotFound <- MCNotFound
    ByteOrders <- MCByteOrders
    RightToLeft = TRUE

INVARIANTS ReadsInStep StaysInData
PROPERTY ImplementsLocalCall

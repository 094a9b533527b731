CONSTANTS
    Elems = {a, b}
    Unwritten = Unwritten
    Capacity = 4
    MaxBatch = 5
    Batches <- AllBatches
    TriviallyCopyable = TRUE
SPECIFICATION Spec
INVARIANT TypeOK
PROPERTY ImplementsFifo

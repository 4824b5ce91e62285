SPECIFICATION Spec
CONSTANTS
    Bytes <- MCBytes
    Zero = 0
    kCheapPrepend = 1
    kInitialSize = 2
    ExtraSize = 2
    Chunks <- MCChunks
    MaxContent = 4
INVARIANTS
    IndicesOrdered
    CapacityBounded
PROPERTIES
    ImplementsByteQueue

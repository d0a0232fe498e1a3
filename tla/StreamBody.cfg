\* Four bytes in chunks of one or two, compaction after one consumed slot.
SPECIFICATION FairSpec
CONSTANTS
    Bufs = {b1, b2, b3, b4}
    NoBuf = nil
    MaxBytes = 4
    MaxChunk = 2
    CompactAt = 1
    ReadsAfterClose = FALSE
CHECK_DEADLOCK FALSE
INVARIANTS
    ParkedHasNothing
    BuffersConserved
    BufferedBytesOwned
PROPERTIES
    BodyInOrder
    ReadReturns

\* A GOAWAY that overtakes the bookkeeping of a stream that has just ended.
SPECIFICATION Spec
CONSTANTS
    Streams = {s1, s2}
    None = none
CHECK_DEADLOCK FALSE
INVARIANT DrainSparesStreams

\* One connection: every interleaving of two synchronous submitters, the frame
\* reader and its teardown, a broken transport and the writer goroutine, with
\* a queue that fills up.
\* A goroutine that has made MaxCalls calls stops, hence no deadlock check.
SPECIFICATION FairSpec
CONSTANTS
    Conns = {c1}
    Handlers = {h1, h2}
    HandlerConn <- MC_Spread
    Chans = {d1, d2, d3}
    NoChan = none
    QSize = 2
    MaxCalls = 1
CHECK_DEADLOCK FALSE
INVARIANTS
    SubmitterWaitsForWrite
    NilMeansWritten
    GoAwayBeforeClose
PROPERTIES
    SubmitReturns
    TeardownCompletes

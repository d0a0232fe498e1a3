\* Two connections share donePool: a channel that one writer's drain loop still
\* answers may already serve a submit on the other connection.
SPECIFICATION Spec
CONSTANTS
    Conns = {c1, c2}
    Handlers = {h1, h2}
    HandlerConn <- MC_Spread
    Chans = {d1, d2}
    NoChan = none
    QSize = 1
    MaxCalls = 1
CHECK_DEADLOCK FALSE
INVARIANT SubmitterWaitsForWrite

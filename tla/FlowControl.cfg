\* Two bodies against a connection window of one byte that grows only by what
\* the peer returns, and a peer that raises its initial window or takes it to
\* zero once, in either role; windows go negative, and the connection may be
\* torn down at any point.  Bodies end, hence no deadlock check.
SPECIFICATION FlowSpec
CONSTANTS
    Streams = {s1, s2}
    Increments = {1, 2, 3, 4, 5, 6}
    Windows = {0, 2}
    DefaultInitialWindow = 1
    MaxFrameSize = 2
    MaxWrite = 2
    MaxInt32 = 7
    MaxCredit = 6
    MaxSettings = 1
CHECK_DEADLOCK FALSE
INVARIANTS
    NoLostWakeup
    ConnCreditExact
    StreamCreditExact
    PeerNeverOverrun
    ConnCreditConserved
PROPERTIES
    DeadReleasesWriters
    EveryBodyIsSent

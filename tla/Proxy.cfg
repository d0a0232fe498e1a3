\* One tunnel with room for one stream or for none and two requests for it, one
\* with a body; up to three of: a request, a disconnect, a transport failure, a
\* GOAWAY, and Shutdown, which counts twice, with a fatal frame beside them.
SPECIFICATION Spec
CONSTANTS
    Requests = {r1, r2}
    WithBody = {r1}
    Tunnels = {t1}
    Limits = {0, 1}
    MaxLoad = 3
CHECK_DEADLOCK FALSE
INVARIANTS
    StreamSettled
    ClientAnswered
    NilMeansNoWorkers
PROPERTIES
    LimitRespected
    TunnelLossReleases
    ProxyShutdownEnds

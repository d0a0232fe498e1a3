\* Two slots and two tunnels, one of which may be draining while its slot
\* dials again, and two calls of Shutdown; every peer answers.
\* A pool that is shut down stops, hence no deadlock check.
SPECIFICATION AnsweringSpec
CONSTANTS
    Slots = {p1, p2}
    Conns = {c1, c2}
    Callers = {k1, k2}
    NoConn = none
CHECK_DEADLOCK FALSE
INVARIANTS
    NilMeansDrained
    CountersExact
    WaitedForIsRegistered
PROPERTY ShutdownDrains

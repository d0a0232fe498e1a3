\* Three streams, a peer that may drain, fail or fall silent, and a shutdown.
\* The loop ends, hence no deadlock check.
SPECIFICATION FairSpec
CONSTANTS
    Streams = {s1, s2, s3}
    None = none
CHECK_DEADLOCK FALSE
INVARIANTS
    DrainNotMissed
PROPERTIES
    DrainEnds
    ShutdownEnds
    SilentPeerDetected

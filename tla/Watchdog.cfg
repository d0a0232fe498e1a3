\* The proportions of the code: PingTimeout is half of PingInterval.
SPECIFICATION WatchSpec
CONSTANTS
    PingInterval = 4
    PingTimeout = 2
    AnswerTime = 2
    MaxTime = 24
CHECK_DEADLOCK FALSE
INVARIANTS
    SilenceBounded
    ResponsiveSpared

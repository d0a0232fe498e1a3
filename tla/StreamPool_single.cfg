\* One connection, two objects, three streams: objects are recycled.
SPECIFICATION Spec
CONSTANTS
    Conns = {c1}
    Ids = {i1, i2, i3}
    IdConn <- MC_Spread
    Objs = {o1, o2}
    Nil = nil
SYMMETRY MC_Symmetry
CHECK_DEADLOCK FALSE
INVARIANTS
    RegistryLive
    OnlyOwnFrames
    TeardownReachesAll

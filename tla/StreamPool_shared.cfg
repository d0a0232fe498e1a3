\* Two connections share streamPool.
SPECIFICATION Spec
CONSTANTS
    Conns = {c1, c2}
    Ids = {i1, i2}
    IdConn <- MC_Spread
    Objs = {o1}
    Nil = nil
CHECK_DEADLOCK FALSE
INVARIANT OnlyOwnFrames

SPECIFICATION Spec
CONSTANTS
    t1 = t1  t2 = t2  t3 = t3  x = x  y = y  z = z
    Threads = {t1, t2, t3}
    Procs = {x, y, z}
    ProcessOf <- SharedProc
    Keys <- ThreeKeys
    NoKey = NoKey
    Nobody = Nobody
    Workers = FALSE
    Moves = FALSE
    MaxStale = 0
INVARIANTS NoDeadlock NestingAscends ListMatchesGuards SetsDoNotInvert
PROPERTY SetsUnwindDownward

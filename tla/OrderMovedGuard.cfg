SPECIFICATION Spec
CONSTANTS
    t1 = t1  t2 = t2  t3 = t3  x = x  y = y  z = z
    Threads = {t1, t2}
    Procs = {x, y, z}
    ProcessOf <- OneProc
    Keys <- TwoKeys
    NoKey = NoKey
    Nobody = Nobody
    Workers = FALSE
    Moves = TRUE
    MaxStale = 1
INVARIANT InversionIsTrue

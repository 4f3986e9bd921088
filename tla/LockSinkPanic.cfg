SPECIFICATION Spec
CONSTANTS
    p1 = p1  p2 = p2  a = a  b = b
    Requests = {r1, r2}
    Procs = {p1}
    Mortal = {}
    Paths = {a}
    Contexts = {c1}
    Limit = 1
    SinkPanics = TRUE
    Args <- PanicArgs
    Condvar = Condvar
    NoWaker = NoWaker
    NoRequest = NoRequest
PROPERTY RefusalIsTrue

SPECIFICATION Spec
CONSTANTS
    p1 = p1  p2 = p2  a = a  b = b
    Requests = {r1, r2}
    Procs = {p1, p2}
    Mortal = {p1, p2}
    Paths = {a}
    Contexts = {c1, c2}
    Limit = 1
    SinkPanics = TRUE
    Args <- AllArgs
    Condvar = Condvar
    NoWaker = NoWaker
    NoRequest = NoRequest
INVARIANTS TypeOK Lifecycle GuardsAgreeWithKernel ResultsReachReceivers
    EventsConsistent
PROPERTY ServiceSpec

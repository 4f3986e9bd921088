SPECIFICATION LiveSpec
CONSTANTS
    p1 = p1  p2 = p2  a = a  b = b
    Requests = {r1, r2}
    Procs = {p1, p2}
    Mortal = {p2}
    Paths = {a}
    Contexts = {c1}
    Limit = 2
    SinkPanics = FALSE
    Args <- DeadlineArgs
    Condvar = Condvar
    NoWaker = NoWaker
    NoRequest = NoRequest
PROPERTIES TimeoutReturns DetachedGrantReleased SleeperServed RequestsResolve ReservationsReturned

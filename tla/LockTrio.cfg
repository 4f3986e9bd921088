SPECIFICATION Spec
CONSTANTS
    p1 = p1  p2 = p2  a = a  b = b
    Requests = {r1, r2, r3}
    Procs = {p1, p2}
    Mortal = {p2}
    Paths = {a}
    Contexts = {c1}
    Limit = 2
    SinkPanics = FALSE
    Args <- TrioArgs
    Condvar = Condvar
    NoWaker = NoWaker
    NoRequest = NoRequest
SYMMETRY Symmetric
INVARIANTS ReservationsExact NoWaitBehindOwnReservation WaiterCap

SPECIFICATION Spec
CONSTANTS
    c1 = c1
    c2 = c2
    c3 = c3
    u1 = u1
    u2 = u2
    u3 = u3
    None = None
    UserIds = {u1, u2}
    Conns = {c1, c2}
    Owner <- OwnerTwo
    Openers = {c1}
    Leavers = {c1}
    Talkers = {c2}
    Timers = {"heartbeat"}
CHECK_DEADLOCK FALSE
INVARIANTS TypeOK ReaderPinsTeardown LoneSessionListed OnlyTwoDeadlocks GoesOnSteps

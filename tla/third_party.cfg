SPECIFICATION Spec
CONSTANTS
    c1 = c1
    c2 = c2
    c3 = c3
    u1 = u1
    u2 = u2
    u3 = u3
    None = None
    UserIds = {u1, u2, u3}
    Conns = {c1, c2, c3}
    Owner <- OwnerThree
    Openers = {}
    Leavers = {c1}
    Talkers = {}
    Timers = {"renegotiator"}
CHECK_DEADLOCK FALSE
INVARIANTS StrayNeedsThree TornDownStaysDown

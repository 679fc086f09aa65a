SPECIFICATION FairSpec
CONSTANTS
    c1 = c1
    c2 = c2
    c3 = c3
    u1 = u1
    u2 = u2
    u3 = u3
    None = None
    UserIds = {u1}
    Conns = {c1, c2}
    Owner <- OwnerRelogin
    Openers = {c1}
    Leavers = {}
    Talkers = {}
    Timers = {"heartbeat"}
CHECK_DEADLOCK FALSE
PROPERTIES LoginEnds KeepsMembership FreezeIsPermanent ExclusiveUpdates

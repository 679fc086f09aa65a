SPECIFICATION FairSpec
CONSTANTS
    c1 = c1
    c2 = c2
    u1 = u1
    u2 = u2
    None = None
    UserIds = {u1, u2}
    Conns = {c1, c2}
    Owner <- OwnerTwo
    Leavers = {c1}
    Openers = {c1, c2}
    MaxSenders = 2
CHECK_DEADLOCK FALSE
INVARIANTS TypeOK SendersMatchEntries
PROPERTIES CrashNeedsOverlap TracksAreSynced StepsAreTaken KeepsMembership

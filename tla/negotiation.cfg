SPECIFICATION FairSpec
CONSTANTS
    x = x
    y = y
    j1 = j1
    j2 = j2
    None = None
    Sources = {x, y}
    Jobs = {j1, j2}
    MaxEvents = 4
CHECK_DEADLOCK FALSE
INVARIANTS TypeOK OneAtATime RestIsNegotiated
PROPERTIES TracksArrive SilenceEnds Progress

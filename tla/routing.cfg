SPECIFICATION Spec
CONSTANTS
    a = a
    b = b
    r = r
    s = s
    None = None
    Users = {a, b}
    Rooms = {r, s}
    LoginRooms <- TwoRooms
    Speakers = {a}
    Routers = {a}
    Reopeners = {b}
    AudioCapacity = 2
    OutCapacity = 2
    MaxPackets = 2
    MaxMessages = 2
SYMMETRY RoomSymmetry
CHECK_DEADLOCK FALSE
INVARIANTS TypeOK  NoSecondCopy
PROPERTIES NoMediaUnasked OneMessagePerUser
